------------------------- MODULE OffloadManagerProofs -------------------------
(***************************************************************************)
(* Theorems about OffloadManager, for any configurations and bounds.       *)
(*                                                                         *)
(* A call is a composition of steps on the record w.  Every step has a     *)
(* lemma that says what it leaves in the fields later steps look at: the   *)
(* steps of the tensor manager first (TmStep), then the compiled path, the *)
(* transitions and the calls.  The invariant is a predicate of w           *)
(* (Sound), of the hook and of the caller's account, and the last section  *)
(* has one lemma per action.                                               *)
(***************************************************************************)
EXTENDS OffloadManager, FiniteSetTheorems, TLAPS

------------------------------------------------------------------------------
(* Types. *)

Phases   == {"NOT_INITIALIZED", "DISCOVERY", "PROFILING", "INFERENCE"}
Models   == Nat \X {"none", "user", "copy"}
HookType == Models \X {0, 1}

Managers ==
  [phase : Phases, cfg : ConfigType, iter : Nat,
   honored : {"unknown", "yes", "no"}, session : Nat, model : Models,
   proxy : BOOLEAN, forwards : {"plain", "eager", "compiled"},
   hooks : SUBSET HookType, handle : HookType, serial : {0, 1},
   manual : BOOLEAN, blocked : BOOLEAN, takeover : BOOLEAN]

Kinds == {"none", "warmup", "controller", "tensors", "infer"}

InBounds(t) ==
  /\ t.loader \in 0..t.built
  /\ t.weights \in {Stale} \cup 0..t.built
  /\ t.live \subseteq 1..t.built
  /\ t.suspended \in 0..MaxSuspends

TensorRecords ==
  [on : BOOLEAN, cfg : ConfigType, loader : Nat, kind : Kinds,
   trap : {"none", "warmup", "profile", "infer"},
   restored : BOOLEAN, armFirst : BOOLEAN, source : BOOLEAN,
   suspended : Nat, weights : Int, built : Nat, live : SUBSET Nat]

TensorManagers == {t \in TensorRecords : InBounds(t)}

Tails ==
  {t \in [state : TailStates, warm : 0..WarmupForwards, measure : Nat,
          profiling : BOOLEAN, applied : {"unknown", "yes", "no"}] :
     t.state = "WARMING" => t.warm < WarmupForwards}

CompiledPaths ==
  [active : BOOLEAN, fn : BOOLEAN, profile : BOOLEAN, replan : BOOLEAN,
   warm : 0..ProfileWarmups, wrapped : BOOLEAN, tail : Tails]

Slots ==
  {o \in [armed : BOOLEAN, loader : Nat, profiling : BOOLEAN,
          pending : BOOLEAN, samples : BOOLEAN] : o.loader # 0 => o.armed}

Collectors ==
  [enabled : BOOLEAN, external : BOOLEAN, active : BOOLEAN, captured : BOOLEAN,
   has : BOOLEAN, held : Nat, lastGen : Int, durable : Seq(Nat)]

Worlds ==
  [om : Managers, tm : TensorManagers, comp : CompiledPaths, ops : Slots,
   col : Collectors, err : BOOLEAN, applied : BOOLEAN]

USE DEF Stale

(* Loaders that hold resources and are not in use. *)
Idle(t) == t.live \ {t.loader}

(* A step of the tensor manager leaves the manager, the compiled path and  *)
(* the registry alone, and idles no loader.                                *)
TmStep(v, w) ==
  /\ v \in Worlds
  /\ v.om = w.om /\ v.comp = w.comp /\ v.ops = w.ops /\ v.applied = w.applied
  /\ v.tm.on = w.tm.on /\ v.tm.cfg = w.tm.cfg /\ v.tm.suspended = w.tm.suspended
  /\ v.tm.built >= w.tm.built
  /\ Idle(v.tm) \subseteq Idle(w.tm)

------------------------------------------------------------------------------
(* Steps of the tensor manager. *)

LEMMA StepsChain ==
  ASSUME NEW u, NEW v, NEW w \in Worlds, TmStep(v, w), TmStep(u, v)
  PROVE  TmStep(u, w)
BY DEF TmStep, Worlds, TensorManagers, TensorRecords

LEMMA StepsStay ==
  ASSUME NEW w \in Worlds
  PROVE  /\ TmStep(w, w) /\ TmStep(Raise(w), w) /\ Raise(w).err
         /\ Raise(w) \in Worlds /\ Raise(w).tm = w.tm /\ Raise(w).col = w.col
         /\ Raise(w).om = w.om /\ Raise(w).comp = w.comp /\ Raise(w).ops = w.ops
<1>1. /\ Raise(w).err /\ Raise(w) \in Worlds /\ Raise(w).tm = w.tm /\ Raise(w).col = w.col
      /\ Raise(w).om = w.om /\ Raise(w).comp = w.comp /\ Raise(w).ops = w.ops
      /\ Raise(w).applied = w.applied
  BY DEF Worlds, Raise
<1>2. w.tm.built \in Int
  BY DEF Worlds, TensorManagers, TensorRecords
<1>3. QED
  BY <1>1, <1>2 DEF TmStep

LEMMA Changes ==
  ASSUME NEW w \in Worlds, NEW t \in TensorManagers
  PROVE  /\ [w EXCEPT !.tm = t] \in Worlds
         /\ [w EXCEPT !.tm = t].tm = t
         /\ [w EXCEPT !.tm = t].om = w.om /\ [w EXCEPT !.tm = t].comp = w.comp
         /\ [w EXCEPT !.tm = t].ops = w.ops /\ [w EXCEPT !.tm = t].col = w.col
         /\ [w EXCEPT !.tm = t].err = w.err /\ [w EXCEPT !.tm = t].applied = w.applied
BY DEF Worlds

(* What a tensor manager keeps while its loader changes. *)
LoaderChange(s, t) ==
  /\ s.on = t.on /\ s.cfg = t.cfg /\ s.suspended = t.suspended
  /\ s.weights = t.weights /\ s.restored = t.restored
  /\ s.armFirst = t.armFirst /\ s.source = t.source /\ s.trap = t.trap

LEMMA BuildFacts ==
  ASSUME NEW t \in TensorManagers, NEW kind \in Kinds
  PROVE  /\ Build(t, kind) \in TensorManagers
         /\ Build(t, kind).loader = t.built + 1 /\ Build(t, kind).built = t.built + 1
         /\ Build(t, kind).kind = kind /\ Build(t, kind).live = t.live \cup {t.built + 1}
         /\ LoaderChange(Build(t, kind), t)
<1> DEFINE b == Build(t, kind)
<1>1. /\ b.loader = t.built + 1 /\ b.built = t.built + 1
      /\ b.kind = kind /\ b.live = t.live \cup {t.built + 1}
      /\ LoaderChange(b, t)
  BY DEF Build, TensorManagers, TensorRecords, LoaderChange
<1>2. t.built \in Nat /\ InBounds(t)
  BY DEF TensorManagers, TensorRecords
<1>3. InBounds(b)
  BY <1>1, <1>2 DEF InBounds, LoaderChange
<1>4. b = [t EXCEPT !.built = t.built + 1, !.loader = t.built + 1, !.kind = kind,
                    !.live = t.live \cup {t.built + 1}]
  BY DEF Build, TensorManagers, TensorRecords
<1>5. t.live \cup {t.built + 1} \subseteq Nat
  BY DEF TensorManagers, TensorRecords
<1>6. b \in TensorManagers
  BY <1>2, <1>3, <1>4, <1>5 DEF TensorManagers, TensorRecords
<1>7. QED
  BY <1>1, <1>6

LEMMA ShutFacts ==
  ASSUME NEW t \in TensorManagers
  PROVE  /\ ShutLoader(t) \in TensorManagers
         /\ ShutLoader(t).loader = 0 /\ ShutLoader(t).built = t.built
         /\ ShutLoader(t).kind = "none" /\ ShutLoader(t).live = t.live \ {t.loader}
         /\ LoaderChange(ShutLoader(t), t)
<1> DEFINE s == ShutLoader(t)
<1>1. s = [t EXCEPT !.loader = 0, !.kind = "none", !.live = t.live \ {t.loader}]
  BY DEF ShutLoader, Drop, TensorManagers, TensorRecords
<1>2. /\ s.loader = 0 /\ s.built = t.built
      /\ s.kind = "none" /\ s.live = t.live \ {t.loader}
      /\ LoaderChange(s, t)
  BY <1>1 DEF TensorManagers, TensorRecords, LoaderChange
<1>3. InBounds(t)
  BY DEF TensorManagers, TensorRecords
<1>4. InBounds(s)
  BY <1>2, <1>3 DEF InBounds, LoaderChange, TensorManagers, TensorRecords
<1>5. "none" \in Kinds /\ t.live \ {t.loader} \in SUBSET Nat /\ 0 \in Nat
  BY DEF TensorManagers, TensorRecords, Kinds
<1>6. s \in TensorRecords
  BY <1>1, <1>5 DEF TensorManagers, TensorRecords
<1>7. s \in TensorManagers
  BY <1>4, <1>6 DEF TensorManagers
<1>8. QED
  BY <1>2, <1>7

(* The other fields of a tensor manager are set one by one. *)
LEMMA FieldFacts ==
  ASSUME NEW t \in TensorManagers, NEW trap \in {"none", "warmup", "profile", "infer"},
         NEW n \in {Stale} \cup 0..t.built, NEW flag \in BOOLEAN
  PROVE  /\ [t EXCEPT !.trap = trap] \in TensorManagers
         /\ [t EXCEPT !.weights = n] \in TensorManagers
         /\ [t EXCEPT !.restored = flag] \in TensorManagers
         /\ [t EXCEPT !.armFirst = flag] \in TensorManagers
         /\ [t EXCEPT !.source = flag] \in TensorManagers
BY DEF TensorManagers, TensorRecords, InBounds

LEMMA NoGenerationType == NoGeneration \in Int
BY DEF NoGeneration

LEMMA NewCollectorType ==
  ASSUME NEW a \in BOOLEAN, NEW b \in BOOLEAN, NEW s \in Seq(Nat)
  PROVE  /\ NewCollector(a, b) \in Collectors
         /\ [NewCollector(a, b) EXCEPT !.durable = s] \in Collectors
<1>1. <<>> \in Seq(Nat)
  OBVIOUS
<1>2. (a /\ b) \in BOOLEAN
  OBVIOUS
<1>3. NewCollector(a, b) \in Collectors
  BY <1>1, <1>2, NoGenerationType DEF NewCollector, Collectors
<1>4. [NewCollector(a, b) EXCEPT !.durable = s] \in Collectors
  BY <1>3 DEF Collectors
<1>5. QED
  BY <1>3, <1>4

Initialized(v, w, c) ==
  /\ v \in Worlds
  /\ v.om = w.om /\ v.comp = w.comp /\ v.ops = w.ops /\ v.col = w.col
  /\ v.applied = w.applied /\ v.err = w.err
  /\ v.tm.on /\ v.tm.cfg = c /\ v.tm.loader = 0 /\ v.tm.kind = "none"
  /\ v.tm.trap = "none" /\ v.tm.weights = 0 /\ v.tm.suspended = 0
  /\ ~v.tm.restored /\ ~v.tm.armFirst /\ ~v.tm.source
  /\ v.tm.built = w.tm.built /\ v.tm.live = w.tm.live

LEMMA InitializeTensorManagerStep ==
  ASSUME NEW w \in Worlds, NEW c \in ConfigType, NEW f
  PROVE  IF f = "init" THEN InitializeTensorManager(w, c, f) = Raise(w)
                       ELSE Initialized(InitializeTensorManager(w, c, f), w, c)
<1> DEFINE t == [NoTensorManager EXCEPT !.on = TRUE, !.cfg = c,
                                        !.built = w.tm.built, !.live = w.tm.live]
<1>1. w.tm \in TensorManagers
  BY DEF Worlds
<1>2. /\ t.on /\ t.cfg = c /\ t.loader = 0 /\ t.kind = "none"
      /\ t.trap = "none" /\ t.weights = 0 /\ t.suspended = 0
      /\ ~t.restored /\ ~t.armFirst /\ ~t.source
      /\ t.built = w.tm.built /\ t.live = w.tm.live
  BY DEF NoTensorManager
<1>3. InBounds(t)
  BY <1>1, <1>2, BoundsAssumption DEF InBounds, TensorManagers, TensorRecords
<1>4. t \in TensorManagers
  <2>1. NoConfig \in ConfigType /\ "none" \in Kinds
    BY DEF NoConfig, ConfigType, Kinds
  <2>2. w.tm.built \in Nat /\ w.tm.live \in SUBSET Nat
    BY <1>1 DEF TensorManagers, TensorRecords
  <2>3. NoTensorManager \in TensorRecords
    BY <2>1 DEF NoTensorManager, TensorRecords
  <2>4. t \in TensorRecords
    BY <2>2, <2>3 DEF TensorRecords
  <2>5. QED
    BY <1>3, <2>4 DEF TensorManagers
<1>5. f # "init" => InitializeTensorManager(w, c, f) = [w EXCEPT !.tm = t]
  BY DEF InitializeTensorManager
<1> HIDE DEF t
<1>6. f # "init" => Initialized(InitializeTensorManager(w, c, f), w, c)
  <2>1. /\ [w EXCEPT !.tm = t] \in Worlds /\ [w EXCEPT !.tm = t].tm = t
        /\ [w EXCEPT !.tm = t].om = w.om /\ [w EXCEPT !.tm = t].comp = w.comp
        /\ [w EXCEPT !.tm = t].ops = w.ops /\ [w EXCEPT !.tm = t].col = w.col
        /\ [w EXCEPT !.tm = t].err = w.err /\ [w EXCEPT !.tm = t].applied = w.applied
    BY <1>4, Changes
  <2>2. QED
    BY <1>2, <1>5, <2>1 DEF Initialized
<1>7. QED
  BY <1>6 DEF InitializeTensorManager

(* The views of a profile are taken back. *)
TornDown(v, w) ==
  /\ TmStep(v, w) /\ v.col = w.col /\ v.err = w.err
  /\ v.tm.kind # "controller"
  /\ v.tm.built = w.tm.built /\ v.tm.trap = w.tm.trap
  /\ v.tm.restored = w.tm.restored /\ v.tm.armFirst = w.tm.armFirst
  /\ v.tm.source = w.tm.source
  /\ IF w.tm.kind = "controller"
       THEN /\ v.tm.loader = 0 /\ v.tm.weights = 0 /\ v.tm.kind = "none"
            /\ v.tm.live = w.tm.live \ {w.tm.loader}
       ELSE v = w

LEMMA TeardownStep ==
  ASSUME NEW w \in Worlds
  PROVE  TornDown(TeardownProfileBlockController(w), w)
<1> DEFINE s == ShutLoader(w.tm)
           t == [s EXCEPT !.weights = 0]
<1>1. w.tm \in TensorManagers
  BY DEF Worlds
<1>2. CASE w.tm.kind # "controller"
  <2>1. TeardownProfileBlockController(w) = w
    BY <1>2 DEF TeardownProfileBlockController
  <2>2. QED
    BY <1>2, <2>1, StepsStay DEF TornDown
<1>3. CASE w.tm.kind = "controller"
  <2>1. /\ s \in TensorManagers /\ s.loader = 0 /\ s.built = w.tm.built
        /\ s.kind = "none" /\ s.live = w.tm.live \ {w.tm.loader}
        /\ LoaderChange(s, w.tm)
    BY <1>1, ShutFacts
  <2>2. TeardownProfileBlockController(w) = [w EXCEPT !.tm = t]
    BY <1>3 DEF TeardownProfileBlockController
  <2> HIDE DEF s
  <2>3. 0 \in {Stale} \cup 0..s.built
    BY <2>1 DEF TensorManagers, TensorRecords
  <2>4. t \in TensorManagers
    BY <2>1, <2>3, FieldFacts
  <2>5. /\ t.loader = 0 /\ t.weights = 0 /\ t.kind = "none" /\ t.built = w.tm.built
        /\ t.live = w.tm.live \ {w.tm.loader} /\ t.on = w.tm.on /\ t.cfg = w.tm.cfg
        /\ t.suspended = w.tm.suspended /\ t.restored = w.tm.restored
        /\ t.armFirst = w.tm.armFirst /\ t.source = w.tm.source /\ t.trap = w.tm.trap
    BY <2>1 DEF TensorManagers, TensorRecords, LoaderChange
  <2> HIDE DEF t
  <2>6. w.tm.built \in Int
    BY <1>1 DEF TensorManagers, TensorRecords
  <2>7. QED
    BY <1>3, <2>2, <2>4, <2>5, <2>6, Changes DEF TornDown, TmStep, Idle
<1>4. QED
  BY <1>2, <1>3

Created(v, w) ==
  /\ TmStep(v, w)
  /\ v.tm.trap = "infer" /\ v.tm.weights = w.tm.weights /\ v.tm.restored = w.tm.restored
  /\ v.tm.armFirst = w.tm.armFirst /\ v.tm.source = w.tm.source
  /\ IF v.err
       THEN /\ v.tm.loader = 0 /\ v.tm.kind = "none" /\ v.col = w.col
            /\ v.tm.built = w.tm.built
            /\ v.tm.live = w.tm.live \ {w.tm.loader}
       ELSE /\ v.tm.built = w.tm.built + 1 /\ v.tm.loader = v.tm.built
            /\ v.tm.kind = "infer"
            /\ v.tm.live = (w.tm.live \ {w.tm.loader}) \cup {v.tm.loader}
            /\ v.col.durable = w.col.durable
            /\ v.col.enabled = (w.tm.cfg.block /\ w.tm.cfg.timing # "off")
            /\ ~v.col.active

LEMMA CreateLoaderStep ==
  ASSUME NEW w \in Worlds, NEW f, ~w.err
  PROVE  /\ Created(CreateLoader(w, f), w)
         /\ CreateLoader(w, f).err <=> f = "create"
<1> DEFINE s == ShutLoader(w.tm)
           t == [s EXCEPT !.trap = "infer"]
           b == Build(t, "infer")
           c == w.tm.cfg
           k == [NewCollector(c.block /\ c.timing # "off", c.timing = "cuda_graph")
                   EXCEPT !.durable = w.col.durable]
           shut == [w EXCEPT !.tm = t]
           made == [shut EXCEPT !.tm = b]
<1>1. w.tm \in TensorManagers /\ w.col \in Collectors
  BY DEF Worlds
<1>2. /\ s \in TensorManagers /\ s.loader = 0 /\ s.built = w.tm.built
      /\ s.kind = "none" /\ s.live = w.tm.live \ {w.tm.loader}
      /\ LoaderChange(s, w.tm)
  BY <1>1, ShutFacts
<1>3. CreateLoader(w, f) = IF f = "create" THEN Raise(shut)
                           ELSE [shut EXCEPT !.tm = b, !.col = k]
  BY DEF CreateLoader
<1> HIDE DEF s
<1>4. 0 \in {Stale} \cup 0..s.built
  BY <1>2 DEF TensorManagers, TensorRecords
<1>5. t \in TensorManagers
  BY <1>2, <1>4, FieldFacts
<1>6. /\ t.loader = 0 /\ t.kind = "none" /\ t.built = w.tm.built
      /\ t.live = w.tm.live \ {w.tm.loader} /\ t.on = w.tm.on /\ t.cfg = w.tm.cfg
      /\ t.suspended = w.tm.suspended /\ t.restored = w.tm.restored
      /\ t.weights = w.tm.weights
      /\ t.armFirst = w.tm.armFirst /\ t.source = w.tm.source /\ t.trap = "infer"
  BY <1>2 DEF TensorManagers, TensorRecords, LoaderChange
<1> HIDE DEF t
<1>7. "infer" \in Kinds
  BY DEF Kinds
<1>8. /\ b \in TensorManagers /\ b.loader = t.built + 1 /\ b.built = t.built + 1
      /\ b.kind = "infer" /\ b.live = t.live \cup {t.built + 1} /\ LoaderChange(b, t)
  BY <1>5, <1>7, BuildFacts
<1> HIDE DEF b
<1>9. (c.block /\ c.timing # "off") \in BOOLEAN /\ (c.timing = "cuda_graph") \in BOOLEAN
  OBVIOUS
<1>10. w.col.durable \in Seq(Nat)
  BY <1>1 DEF Collectors
<1>11. k \in Collectors
  BY <1>9, <1>10, NewCollectorType
<1>12. /\ k.durable = w.col.durable /\ ~k.active
       /\ k.enabled = (c.block /\ c.timing # "off")
  BY DEF NewCollector
<1> HIDE DEF k
<1>13. w.tm.built \in Nat /\ w.tm.loader \in Nat
  BY <1>1 DEF TensorManagers, TensorRecords
<1>14. CASE f = "create"
  <2>1. /\ shut \in Worlds /\ shut.tm = t /\ shut.om = w.om /\ shut.comp = w.comp
        /\ shut.ops = w.ops /\ shut.col = w.col /\ shut.err = w.err
        /\ shut.applied = w.applied
    BY <1>5, Changes
  <2> HIDE DEF shut
  <2>2. /\ Raise(shut).err /\ Raise(shut) \in Worlds /\ Raise(shut).tm = t
        /\ Raise(shut).col = w.col
        /\ Raise(shut).om = w.om /\ Raise(shut).comp = w.comp /\ Raise(shut).ops = w.ops
        /\ Raise(shut).applied = w.applied
    BY <2>1, StepsStay DEF Raise, Worlds
  <2>3. QED
    BY <1>3, <1>6, <1>13, <1>14, <2>2 DEF Created, TmStep, Idle
<1>15. CASE f # "create"
  <2> DEFINE v == [shut EXCEPT !.tm = b, !.col = k]
  <2>1. /\ v \in Worlds /\ v.tm = b /\ v.om = w.om /\ v.comp = w.comp
        /\ v.ops = w.ops /\ v.col = k /\ v.err = w.err /\ v.applied = w.applied
    BY <1>8, <1>11 DEF Worlds
  <2>2. v = CreateLoader(w, f)
    BY <1>3, <1>15
  <2> HIDE DEF v
  <2>3. Idle(v.tm) \subseteq Idle(w.tm)
    BY <1>6, <1>8, <2>1 DEF Idle
  <2>4. Created(v, w)
    BY <1>6, <1>8, <1>12, <1>13, <2>1, <2>3 DEF Created, TmStep, LoaderChange
  <2>5. QED
    BY <1>15, <2>1, <2>2, <2>4
<1>16. QED
  BY <1>14, <1>15

Kept(v, w) ==
  /\ TmStep(v, w) /\ v.col = w.col /\ v.err = w.err
  /\ v.tm.loader = w.tm.loader /\ v.tm.kind = w.tm.kind /\ v.tm.trap = w.tm.trap
  /\ v.tm.built = w.tm.built /\ v.tm.live = w.tm.live /\ v.tm.restored = w.tm.restored

LEMMA KeepSourcesStep ==
  ASSUME NEW w \in Worlds
  PROVE  /\ Kept(KeepSources(w), w)
         /\ KeepSources(w).tm.weights = w.tm.weights
         /\ ~KeepSources(w).tm.armFirst
         /\ KeepSources(w).tm.source = (w.tm.source \/ w.tm.armFirst)
<1> DEFINE s == [w.tm EXCEPT !.source = (w.tm.source \/ w.tm.armFirst)]
           t == [s EXCEPT !.armFirst = FALSE]
<1>1. w.tm \in TensorManagers
  BY DEF Worlds
<1>2. (w.tm.source \/ w.tm.armFirst) \in BOOLEAN /\ 0 \in {Stale} \cup 0..w.tm.built
  BY <1>1 DEF TensorManagers, TensorRecords
<1>3. s \in TensorManagers
  BY <1>1, <1>2, FieldFacts
<1>4. 0 \in {Stale} \cup 0..s.built
  BY <1>3 DEF TensorManagers, TensorRecords
<1>5. t \in TensorManagers
  BY <1>3, <1>4, FieldFacts
<1>6. KeepSources(w) = [w EXCEPT !.tm = t]
  BY <1>1 DEF KeepSources, TensorManagers, TensorRecords
<1>7. /\ t.source = (w.tm.source \/ w.tm.armFirst) /\ t.armFirst = FALSE
      /\ t.loader = w.tm.loader /\ t.kind = w.tm.kind /\ t.trap = w.tm.trap
      /\ t.built = w.tm.built /\ t.live = w.tm.live /\ t.restored = w.tm.restored
      /\ t.weights = w.tm.weights /\ t.on = w.tm.on /\ t.cfg = w.tm.cfg
      /\ t.suspended = w.tm.suspended
  BY <1>1 DEF TensorManagers, TensorRecords
<1> HIDE DEF t
<1>8. w.tm.built \in Int
  BY <1>1 DEF TensorManagers, TensorRecords
<1>9. QED
  BY <1>5, <1>6, <1>7, <1>8, Changes DEF Kept, TmStep, Idle

LEMMA PrepareFinalModelStep ==
  ASSUME NEW w \in Worlds
  PROVE  /\ Kept(PrepareFinalModel(w), w)
         /\ PrepareFinalModel(w).tm.armFirst = w.tm.armFirst
         /\ PrepareFinalModel(w).tm.source = w.tm.source
         /\ PrepareFinalModel(w).tm.weights
              = IF ~w.tm.cfg.block THEN w.tm.weights
                ELSE IF w.tm.weights = 0 THEN w.tm.loader ELSE Stale
<1> DEFINE n == IF w.tm.weights = 0 THEN w.tm.loader ELSE Stale
           t == [w.tm EXCEPT !.weights = n]
<1>1. w.tm \in TensorManagers
  BY DEF Worlds
<1>2. n \in {Stale} \cup 0..w.tm.built
  BY <1>1 DEF TensorManagers, TensorRecords, InBounds
<1>3. t \in TensorManagers
  BY <1>1, <1>2, FieldFacts
<1>4. w.tm.built \in Int
  BY <1>1 DEF TensorManagers, TensorRecords
<1>5. CASE ~w.tm.cfg.block
  BY <1>5, StepsStay DEF PrepareFinalModel, Kept
<1>6. CASE w.tm.cfg.block
  <2>1. PrepareFinalModel(w) = [w EXCEPT !.tm = t]
    BY <1>1, <1>6 DEF PrepareFinalModel, Worlds, TensorManagers, TensorRecords
  <2>2. /\ t.source = w.tm.source /\ t.armFirst = w.tm.armFirst
        /\ t.loader = w.tm.loader /\ t.kind = w.tm.kind /\ t.trap = w.tm.trap
        /\ t.built = w.tm.built /\ t.live = w.tm.live /\ t.restored = w.tm.restored
        /\ t.weights = n /\ t.on = w.tm.on /\ t.cfg = w.tm.cfg
        /\ t.suspended = w.tm.suspended
    BY <1>1 DEF TensorManagers, TensorRecords
  <2> HIDE DEF t
  <2>3. QED
    BY <1>3, <1>4, <1>6, <2>1, <2>2, Changes DEF Kept, TmStep, Idle
<1>7. QED
  BY <1>5, <1>6

(* An inference loader of its own, with a collector of its own. *)
NewLoader(v, w) ==
  /\ v.tm.built > w.tm.built /\ v.tm.loader = v.tm.built
  /\ v.tm.loader \in v.tm.live /\ v.tm.kind = "infer"
  /\ v.col.durable = w.col.durable
  /\ v.col.enabled = (w.tm.cfg.block /\ w.tm.cfg.timing # "off")
  /\ ~v.col.active

LoadMade(v, w, f) ==
  /\ TmStep(v, w) /\ (v.err <=> f = "create")
  /\ v.tm.weights = w.tm.weights /\ v.tm.restored = w.tm.restored
  /\ IF v.err THEN v.col = w.col /\ v.tm.kind = "none" ELSE NewLoader(v, w)

LEMMA PrepareInferLoadModeStep ==
  ASSUME NEW w \in Worlds, NEW f, ~w.err
  PROVE  LoadMade(PrepareInferLoadMode(w, f), w, f)
<1> DEFINE u == CreateLoader(w, f)
           v == PrepareInferLoadMode(w, f)
<1>1. Created(u, w) /\ (u.err <=> f = "create")
  BY CreateLoaderStep
<1>2. v = IF u.err THEN u ELSE KeepSources(u)
  BY DEF PrepareInferLoadMode, Then
<1> HIDE DEF u
<1>3. u \in Worlds /\ TmStep(u, w) /\ w.tm.built \in Nat
  BY <1>1 DEF Created, TmStep, Worlds, TensorManagers, TensorRecords
<1>4. Kept(KeepSources(u), u) /\ KeepSources(u).tm.weights = u.tm.weights
  BY <1>3, KeepSourcesStep
<1>5. TmStep(v, w)
  BY <1>2, <1>3, <1>4, StepsChain DEF Kept
<1>6. CASE u.err
  BY <1>1, <1>2, <1>5, <1>6 DEF Created, LoadMade
<1>7. CASE ~u.err
  <2>1. NewLoader(u, w)
    BY <1>1, <1>3, <1>7 DEF Created, NewLoader
  <2>2. NewLoader(v, w)
    BY <1>2, <1>4, <1>7, <2>1 DEF Kept, NewLoader
  <2>3. QED
    BY <1>1, <1>2, <1>4, <1>5, <1>7, <2>2 DEF Created, Kept, LoadMade
<1>8. QED
  BY <1>6, <1>7

WarmedUp(v, w, f) ==
  /\ v \in Worlds
  /\ v.om = w.om /\ v.comp = w.comp /\ v.ops = w.ops /\ v.applied = w.applied
  /\ v.tm.on = w.tm.on /\ v.tm.cfg = w.tm.cfg
  /\ v.tm.suspended = w.tm.suspended /\ v.tm.built >= w.tm.built
  /\ v.tm.restored = w.tm.restored
  /\ Idle(v.tm) \subseteq w.tm.live
  /\ w.tm.restored =>
       /\ v.err <=> f = "create"
       /\ v.err => v.col = w.col /\ v.tm.kind = "none" /\ v.tm.weights = w.tm.weights
       /\ ~v.err => /\ NewLoader(v, w)
                    /\ v.tm.weights = IF ~w.tm.cfg.block THEN w.tm.weights
                                      ELSE IF w.tm.weights = 0 THEN v.tm.loader
                                      ELSE Stale
  /\ ~w.tm.restored =>
       /\ ~v.err /\ v.tm.loader = 0 /\ v.tm.kind = "warmup" /\ v.tm.trap = "warmup"
       /\ v.tm.weights = w.tm.weights /\ v.tm.live = w.tm.live /\ v.col = w.col

LEMMA InitializeWarmupStep ==
  ASSUME NEW w \in Worlds, NEW f, ~w.err
  PROVE  WarmedUp(InitializeWarmup(w, f), w, f)
<1> DEFINE v == InitializeWarmup(w, f)
<1>1. CASE w.tm.restored
  <2> DEFINE u == PrepareInferLoadMode(w, f)
  <2>1. /\ TmStep(u, w) /\ (u.err <=> f = "create") /\ u.tm.weights = w.tm.weights
        /\ u.tm.restored = w.tm.restored /\ (~u.err => NewLoader(u, w))
        /\ (u.err => u.col = w.col /\ u.tm.kind = "none")
    BY PrepareInferLoadModeStep DEF LoadMade
  <2>2. v = IF u.err THEN u ELSE PrepareFinalModel(u)
    BY <1>1 DEF InitializeWarmup, Then
  <2> HIDE DEF u
  <2>3. u \in Worlds
    BY <2>1 DEF TmStep
  <2>4. /\ Kept(PrepareFinalModel(u), u)
        /\ PrepareFinalModel(u).tm.weights
             = IF ~u.tm.cfg.block THEN u.tm.weights
               ELSE IF u.tm.weights = 0 THEN u.tm.loader ELSE Stale
    BY <2>3, PrepareFinalModelStep
  <2>5. TmStep(v, w)
    BY <2>1, <2>2, <2>4, StepsChain DEF Kept
  <2>6. Idle(w.tm) \subseteq w.tm.live
    BY DEF Idle
  <2>7. v.err <=> f = "create"
    BY <2>1, <2>2, <2>4 DEF Kept
  <2>8. v.tm.restored = w.tm.restored
    BY <2>1, <2>2, <2>4 DEF Kept
  <2>9. ~v.err => /\ NewLoader(v, w)
                  /\ v.tm.weights = IF ~w.tm.cfg.block THEN w.tm.weights
                                    ELSE IF w.tm.weights = 0 THEN v.tm.loader
                                    ELSE Stale
    BY <2>1, <2>2, <2>4 DEF Kept, NewLoader, TmStep
  <2>10. QED
    BY <1>1, <2>1, <2>2, <2>5, <2>6, <2>7, <2>8, <2>9 DEF TmStep, WarmedUp
<1>2. CASE ~w.tm.restored
  <2> DEFINE t == [Drop(w.tm) EXCEPT !.trap = "warmup", !.kind = "warmup"]
  <2>1. v = [w EXCEPT !.tm = t]
    BY <1>2 DEF InitializeWarmup, PrepareWarmupMode
  <2>2. w.tm \in TensorManagers /\ w.tm.built \in Nat
    BY DEF Worlds, TensorManagers, TensorRecords
  <2>3. t = [w.tm EXCEPT !.loader = 0, !.kind = "warmup", !.trap = "warmup"]
    BY <2>2 DEF Drop, TensorManagers, TensorRecords
  <2>4. /\ t.loader = 0 /\ t.kind = "warmup" /\ t.trap = "warmup" /\ t.built = w.tm.built
        /\ t.live = w.tm.live /\ t.on = w.tm.on /\ t.cfg = w.tm.cfg
        /\ t.suspended = w.tm.suspended /\ t.restored = w.tm.restored
        /\ t.weights = w.tm.weights
    BY <2>2, <2>3 DEF TensorManagers, TensorRecords
  <2>5. InBounds(t)
    BY <2>2, <2>4 DEF InBounds, TensorManagers, TensorRecords
  <2>6. "warmup" \in Kinds /\ 0 \in Nat
    BY DEF Kinds
  <2>7. t \in TensorRecords
    BY <2>2, <2>3, <2>6 DEF TensorManagers, TensorRecords
  <2>8. t \in TensorManagers
    BY <2>5, <2>7 DEF TensorManagers
  <2> HIDE DEF t
  <2>9. QED
    BY <1>2, <2>1, <2>2, <2>4, <2>8, Changes DEF Idle, WarmedUp
<1>3. QED
  BY <1>1, <1>2

LEMMA SetModelStep ==
  ASSUME NEW w \in Worlds
  PROVE  /\ Kept(SetModel(w), w) /\ SetModel(w).tm.weights = 0
<1> DEFINE t == [w.tm EXCEPT !.weights = 0]
<1>1. w.tm \in TensorManagers /\ w.tm.built \in Nat
  BY DEF Worlds, TensorManagers, TensorRecords
<1>2. t \in TensorManagers
  <2>1. 0 \in {Stale} \cup 0..w.tm.built
    BY <1>1
  <2>2. QED
    BY <1>1, <2>1, FieldFacts
<1>3. /\ t.loader = w.tm.loader /\ t.kind = w.tm.kind /\ t.trap = w.tm.trap
      /\ t.built = w.tm.built /\ t.live = w.tm.live /\ t.restored = w.tm.restored
      /\ t.weights = 0 /\ t.on = w.tm.on /\ t.cfg = w.tm.cfg
      /\ t.suspended = w.tm.suspended
  BY <1>1 DEF TensorManagers, TensorRecords
<1>4. SetModel(w) = [w EXCEPT !.tm = t]
  BY DEF SetModel, Worlds
<1> HIDE DEF t
<1>5. QED
  BY <1>1, <1>2, <1>3, <1>4, Changes DEF Kept, TmStep, Idle

(* What a profile leaves in the tensor manager. *)
ProfileTm(t, s, failed) ==
  IF failed
    THEN /\ t.live = s.live /\ t.loader \in {0, s.loader}
         /\ t.weights \in {0, s.weights} /\ t.kind \in {"none", s.kind}
         /\ t.trap = s.trap /\ (t.weights # 0 => t.kind = s.kind)
    ELSE /\ t.trap = "profile"
         /\ t.built = s.built + 1 /\ t.loader = t.built
         /\ t.live = s.live \cup {t.loader}
         /\ t.kind = IF s.cfg.mode = "view" THEN "controller" ELSE "tensors"
         /\ t.weights = IF s.cfg.mode # "view" THEN s.weights
                        ELSE IF s.weights = 0 THEN t.loader ELSE Stale

Profiled(v, w, f) ==
  /\ v \in Worlds
  /\ v.om = w.om /\ v.comp = w.comp /\ v.ops = w.ops /\ v.col = w.col
  /\ v.applied = w.applied
  /\ v.tm.on = w.tm.on /\ v.tm.cfg = w.tm.cfg
  /\ v.tm.suspended = w.tm.suspended /\ v.tm.built >= w.tm.built
  /\ v.tm.restored = w.tm.restored
  /\ v.err <=> f = "profile"
  /\ ProfileTm(v.tm, w.tm, f = "profile")

LEMMA InitializeProfileStep ==
  ASSUME NEW w \in Worlds, NEW f, ~w.err
  PROVE  Profiled(InitializeProfile(w, f), w, f)
<1> DEFINE v == InitializeProfile(w, f)
           view == w.tm.cfg.mode = "view"
           kind == IF view THEN "controller" ELSE "tensors"
           up == Build(w.tm, kind)
           n == IF ~view THEN up.weights ELSE IF up.weights = 0 THEN up.loader ELSE Stale
           s == [up EXCEPT !.trap = "profile"]
           patched == [s EXCEPT !.weights = n]
<1>1. w.tm \in TensorManagers /\ w.tm.built \in Nat /\ w.tm.live \subseteq 1..w.tm.built
  BY DEF Worlds, TensorManagers, TensorRecords, InBounds
<1>2. kind \in Kinds
  BY DEF Kinds
<1>3. /\ up \in TensorManagers /\ up.loader = w.tm.built + 1 /\ up.built = w.tm.built + 1
      /\ up.kind = kind /\ up.live = w.tm.live \cup {w.tm.built + 1}
      /\ LoaderChange(up, w.tm)
  <2> HIDE DEF kind
  <2>1. QED
    BY <1>1, <1>2, BuildFacts
<1>4. v = IF f # "profile" THEN [w EXCEPT !.tm = patched]
          ELSE IF view THEN Raise(TeardownProfileBlockController([w EXCEPT !.tm = up]))
          ELSE Raise(w)
  <2>1. patched = [up EXCEPT !.trap = "profile",
                             !.weights = IF ~view THEN @
                                         ELSE IF @ = 0 THEN up.loader ELSE Stale]
    BY <1>3 DEF TensorManagers, TensorRecords
  <2>2. QED
    BY <2>1 DEF InitializeProfile
<1>5. up.weights = w.tm.weights /\ w.tm.weights \in {Stale} \cup 0..up.built
  BY <1>1, <1>3 DEF LoaderChange, TensorManagers, TensorRecords, InBounds
<1> HIDE DEF up
<1>6. n \in {Stale} \cup 0..up.built
  BY <1>1, <1>3, <1>5
<1>7. CASE f # "profile"
  <2>1. s \in TensorManagers /\ s.built = up.built
    <3>1. 0 \in {Stale} \cup 0..up.built
      BY <1>1, <1>3
    <3>2. \A trap \in {"none", "warmup", "profile", "infer"} :
             [up EXCEPT !.trap = trap] \in TensorManagers
      BY <1>3, <3>1, FieldFacts
    <3>3. s \in TensorManagers
      BY <3>2
    <3>4. QED
      BY <1>3, <3>3 DEF TensorManagers, TensorRecords
  <2>2. patched \in TensorManagers
    BY <1>6, <2>1, FieldFacts
  <2>3. /\ patched.trap = "profile" /\ patched.weights = n /\ patched.built = up.built
        /\ patched.loader = up.loader /\ patched.live = up.live /\ patched.kind = up.kind
        /\ patched.on = up.on /\ patched.cfg = up.cfg /\ patched.suspended = up.suspended
        /\ patched.restored = up.restored
    BY <1>3 DEF TensorManagers, TensorRecords
  <2> HIDE DEF patched
  <2>4. /\ v \in Worlds /\ v.tm = patched /\ v.om = w.om /\ v.comp = w.comp
        /\ v.ops = w.ops /\ v.col = w.col /\ v.err = w.err /\ v.applied = w.applied
    BY <1>4, <1>7, <2>2, Changes
  <2>5. QED
    BY <1>1, <1>3, <1>5, <1>7, <2>3, <2>4 DEF Profiled, ProfileTm, LoaderChange
<1>8. CASE f = "profile" /\ ~view
  BY <1>1, <1>4, <1>8, StepsStay DEF Profiled, ProfileTm, Raise, Worlds
<1>9. CASE f = "profile" /\ view
  <2> DEFINE u == [w EXCEPT !.tm = up]
             d == TeardownProfileBlockController(u)
  <2>1. /\ u \in Worlds /\ u.tm = up /\ u.om = w.om /\ u.comp = w.comp
        /\ u.ops = w.ops /\ u.col = w.col /\ u.err = w.err /\ u.applied = w.applied
    BY <1>3, Changes
  <2> HIDE DEF u
  <2>2. TornDown(d, u)
    BY <2>1, TeardownStep
  <2>3. /\ d \in Worlds /\ d.om = w.om /\ d.comp = w.comp /\ d.ops = w.ops
        /\ d.col = w.col /\ d.applied = w.applied
        /\ d.tm.on = w.tm.on /\ d.tm.cfg = w.tm.cfg /\ d.tm.suspended = w.tm.suspended
        /\ d.tm.built >= w.tm.built /\ d.tm.restored = w.tm.restored
        /\ d.tm.loader = 0 /\ d.tm.weights = 0 /\ d.tm.kind = "none"
        /\ d.tm.live = up.live \ {up.loader} /\ d.tm.trap = w.tm.trap
    BY <1>1, <1>3, <1>9, <2>1, <2>2 DEF TornDown, TmStep, LoaderChange
  <2> HIDE DEF d
  <2>4. d.tm.live = w.tm.live
    BY <1>1, <1>3, <2>3
  <2>5. v = Raise(d)
    BY <1>4, <1>9 DEF d, u
  <2>6. /\ v.err /\ v \in Worlds /\ v.tm = d.tm /\ v.col = d.col
        /\ v.om = d.om /\ v.comp = d.comp /\ v.ops = d.ops /\ v.applied = d.applied
    BY <2>3, <2>5, StepsStay DEF Raise, Worlds
  <2>7. QED
    BY <1>9, <2>3, <2>4, <2>6 DEF Profiled, ProfileTm
<1>10. QED
  BY <1>7, <1>8, <1>9

(* Weights that were views of a profile are the model's own again. *)
OwnWeights(w) == IF w.tm.kind = "controller" THEN 0 ELSE w.tm.weights

InferModeMade(v, w, f) ==
  /\ TmStep(v, w) /\ (v.err <=> f \in {"strategy", "create"})
  /\ v.tm.weights = OwnWeights(w) /\ v.tm.restored = w.tm.restored
  /\ IF v.err
       THEN v.col = w.col /\ v.tm.kind # "controller"
            /\ v.tm.loader \in {0, w.tm.loader}
            /\ (v.tm.loader # 0 => v.tm = w.tm)
       ELSE NewLoader(v, w)

LEMMA PrepareInferModeStep ==
  ASSUME NEW w \in Worlds, NEW f, ~w.err
  PROVE  InferModeMade(PrepareInferMode(w, f), w, f)
<1> DEFINE v == PrepareInferMode(w, f)
           u == TeardownProfileBlockController(w)
           m == CreateLoader(u, f)
<1>1. TornDown(u, w)
  BY TeardownStep
<1>2. /\ u \in Worlds /\ TmStep(u, w) /\ ~u.err /\ u.tm.weights = OwnWeights(w)
      /\ u.tm.restored = w.tm.restored /\ u.tm.cfg = w.tm.cfg /\ u.col = w.col
      /\ u.tm.kind # "controller" /\ u.tm.built = w.tm.built
  BY <1>1 DEF TornDown, TmStep, OwnWeights
<1>3. u.tm.loader = 0 \/ u = w
  BY <1>1 DEF TornDown
<1> HIDE DEF u
<1>4. CASE f = "strategy"
  <2>1. v = Raise(u)
    BY <1>2, <1>4 DEF PrepareInferMode, Strike, Then, Raise, Worlds, u
  <2>2. TmStep(Raise(u), w)
    BY <1>2, StepsStay, StepsChain
  <2>3. QED
    BY <1>2, <1>3, <1>4, <2>1, <2>2, StepsStay DEF InferModeMade
<1>5. CASE f # "strategy"
  <2>1. v = IF m.err THEN m ELSE KeepSources(m)
    BY <1>2, <1>5 DEF PrepareInferMode, Strike, Then, u
  <2>2. Created(m, u) /\ (m.err <=> f = "create")
    BY <1>2, CreateLoaderStep
  <2> HIDE DEF m
  <2>3. m \in Worlds /\ TmStep(m, w) /\ u.tm.built \in Nat
    BY <1>2, <2>2, StepsChain DEF Created, TmStep, Worlds, TensorManagers, TensorRecords
  <2>4. Kept(KeepSources(m), m) /\ KeepSources(m).tm.weights = m.tm.weights
    BY <2>3, KeepSourcesStep
  <2>5. TmStep(v, w)
    BY <2>1, <2>3, <2>4, StepsChain DEF Kept
  <2>6. v.err <=> f = "create"
    BY <2>1, <2>2, <2>4 DEF Kept
  <2>7. v.tm.weights = OwnWeights(w) /\ v.tm.restored = w.tm.restored
    BY <1>2, <2>1, <2>2, <2>4 DEF Kept, Created
  <2>8. m.err => v.col = w.col /\ v.tm.loader = 0 /\ v.tm.kind # "controller"
    BY <1>2, <2>1, <2>2 DEF Created
  <2>9. ~m.err => NewLoader(m, w)
    BY <1>2, <2>2, <2>3 DEF Created, NewLoader
  <2>10. ~m.err => NewLoader(v, w)
    BY <2>1, <2>4, <2>9 DEF Kept, NewLoader
  <2>11. QED
    BY <1>5, <2>2, <2>5, <2>6, <2>7, <2>8, <2>10 DEF InferModeMade
<1>6. QED
  BY <1>4, <1>5

(* The parameters become views of blocks filled from weights of their own, *)
(* or from what somebody else's blocks held.                               *)
Views(t, before) == IF ~t.cfg.block THEN before
                    ELSE IF before = 0 THEN t.loader ELSE Stale

(* What inference finds in the tensor manager. *)
InferenceTm(v, w, failed) ==
  IF w.tm.restored
    THEN /\ v.col = w.col /\ v.tm.loader = w.tm.loader /\ v.tm.kind = w.tm.kind
         /\ v.tm.live = w.tm.live /\ v.tm.weights = w.tm.weights
    ELSE IF failed
      THEN /\ v.col = w.col /\ v.tm.kind # "controller"
           /\ v.tm.weights = OwnWeights(w)
           /\ v.tm.loader \in {0, w.tm.loader}
           /\ v.tm.loader # 0 => v.tm = w.tm
      ELSE NewLoader(v, w) /\ v.tm.weights = Views(v.tm, OwnWeights(w))

InferenceFails(w, f) == ~w.tm.restored /\ f \in {"strategy", "create"}

InferenceMade(v, w, f) ==
  /\ TmStep(v, w) /\ ~v.tm.restored
  /\ v.err <=> InferenceFails(w, f)
  /\ InferenceTm(v, w, InferenceFails(w, f))

LEMMA InitializeInferenceStep ==
  ASSUME NEW w \in Worlds, NEW f, ~w.err
  PROVE  InferenceMade(InitializeInference(w, f), w, f)
<1> DEFINE v == InitializeInference(w, f)
           u == PrepareInferMode(w, f)
<1>1. w.tm \in TensorManagers /\ w.tm.built \in Nat
  BY DEF Worlds, TensorManagers, TensorRecords
<1>2. CASE w.tm.restored
  <2> DEFINE t == [w.tm EXCEPT !.restored = FALSE]
  <2>1. 0 \in {Stale} \cup 0..w.tm.built
    BY <1>1
  <2>2. t \in TensorManagers
    BY <1>1, <2>1, FieldFacts
  <2>3. /\ t.loader = w.tm.loader /\ t.kind = w.tm.kind /\ t.built = w.tm.built
        /\ t.live = w.tm.live /\ ~t.restored /\ t.weights = w.tm.weights
        /\ t.on = w.tm.on /\ t.cfg = w.tm.cfg /\ t.suspended = w.tm.suspended
    BY <1>1 DEF TensorManagers, TensorRecords
  <2>4. v = [w EXCEPT !.tm = t]
    BY <1>2 DEF InitializeInference, Worlds
  <2> HIDE DEF t
  <2>5. /\ v \in Worlds /\ v.tm = t /\ v.om = w.om /\ v.comp = w.comp
        /\ v.ops = w.ops /\ v.col = w.col /\ v.err = w.err /\ v.applied = w.applied
    BY <2>2, <2>4, Changes
  <2>6. QED
    BY <1>1, <1>2, <2>3, <2>5 DEF InferenceMade, InferenceTm, InferenceFails, TmStep, Idle
<1>3. CASE ~w.tm.restored
  <2>1. InferModeMade(u, w, f)
    BY PrepareInferModeStep
  <2>2. v = IF u.err THEN u ELSE PrepareFinalModel(u)
    BY <1>3 DEF InitializeInference, Then
  <2> HIDE DEF u
  <2>3. u \in Worlds /\ TmStep(u, w)
    BY <2>1 DEF InferModeMade, TmStep
  <2>4. Kept(PrepareFinalModel(u), u)
        /\ PrepareFinalModel(u).tm.weights
             = IF ~u.tm.cfg.block THEN u.tm.weights
               ELSE IF u.tm.weights = 0 THEN u.tm.loader ELSE Stale
    BY <2>3, PrepareFinalModelStep
  <2>5. TmStep(v, w)
    BY <2>2, <2>3, <2>4, StepsChain DEF Kept
  <2>6. CASE u.err
    BY <1>3, <2>1, <2>2, <2>5, <2>6 DEF InferenceMade, InferenceTm, InferenceFails, InferModeMade
  <2>7. CASE ~u.err
    <3>1. NewLoader(u, w) /\ u.tm.weights = OwnWeights(w) /\ ~u.tm.restored
      BY <1>3, <2>1, <2>7 DEF InferModeMade
    <3>2. NewLoader(v, w) /\ ~v.err /\ ~v.tm.restored
      BY <2>2, <2>4, <2>7, <3>1 DEF NewLoader, Kept
    <3>3. v.tm.weights = Views(v.tm, OwnWeights(w))
      BY <2>2, <2>4, <2>7, <3>1 DEF Kept, TmStep, Views
    <3>4. f \notin {"strategy", "create"}
      BY <2>1, <2>7 DEF InferModeMade
    <3>5. QED
      BY <1>3, <2>5, <3>2, <3>3, <3>4 DEF InferenceMade, InferenceTm, InferenceFails
  <2>8. QED
    BY <2>6, <2>7
<1>4. QED
  BY <1>2, <1>3

(* Loaders may be given up in between. *)
LEMMA GiveUp ==
  ASSUME NEW t \in TensorManagers
  PROVE  LET s == [t EXCEPT !.live = t.live \ {t.loader}]
         IN  /\ s \in TensorManagers /\ s.live = t.live \ {t.loader}
             /\ s.loader = t.loader /\ s.kind = t.kind /\ s.built = t.built
             /\ LoaderChange(s, t)
<1> DEFINE s == [t EXCEPT !.live = t.live \ {t.loader}]
<1>1. /\ s.live = t.live \ {t.loader} /\ s.loader = t.loader /\ s.kind = t.kind
      /\ s.built = t.built /\ LoaderChange(s, t)
  BY DEF LoaderChange, TensorManagers, TensorRecords
<1>2. InBounds(s)
  BY <1>1 DEF InBounds, LoaderChange, TensorManagers, TensorRecords
<1>3. t.live \ {t.loader} \in SUBSET Nat
  BY DEF TensorManagers, TensorRecords
<1>4. s \in TensorRecords
  BY <1>3 DEF TensorManagers, TensorRecords
<1>5. QED
  BY <1>1, <1>2, <1>4 DEF TensorManagers

ShutDown(v, w, f) ==
  /\ TmStep(v, w) /\ (v.err <=> f = "shutdown")
  /\ v.tm.weights = 0 /\ v.col = w.col
  /\ v.tm.kind \in {"none", w.tm.kind}
  /\ ~v.err => v.tm.live = w.tm.live \ {w.tm.loader}

LEMMA ShutdownStep ==
  ASSUME NEW w \in Worlds, NEW f, ~w.err
  PROVE  ShutDown(ShutdownTensorManager(w, f), w, f)
<1> DEFINE v == ShutdownTensorManager(w, f)
           back == SetModel(w)
           down == TeardownProfileBlockController(back)
           t == [down.tm EXCEPT !.live = down.tm.live \ {down.tm.loader}]
<1>1. Kept(back, w) /\ back.tm.weights = 0
  BY SetModelStep
<1>2. back \in Worlds
  BY <1>1 DEF Kept, TmStep
<1>3. v = IF f = "shutdown" THEN Raise(down)
          ELSE IF down.err THEN down ELSE [down EXCEPT !.tm = t]
  <2>1. v = IF Strike(down, f, "shutdown").err THEN Strike(down, f, "shutdown")
            ELSE LET x == Strike(down, f, "shutdown")
                 IN  [x EXCEPT !.tm.live = @ \ {x.tm.loader}]
    BY DEF ShutdownTensorManager, Then, SetModel
  <2> HIDE DEF v, down
  <2>2. down \in Worlds
    BY <1>2, TeardownStep DEF TornDown, TmStep, down
  <2>3. [down EXCEPT !.tm.live = @ \ {down.tm.loader}] = [down EXCEPT !.tm = t]
    BY <2>2 DEF Worlds, TensorManagers, TensorRecords
  <2>4. QED
    BY <2>1, <2>2, <2>3 DEF Strike, Raise, Worlds
<1> HIDE DEF back
<1>4. TornDown(down, back)
  BY <1>2, TeardownStep
<1> HIDE DEF down
<1>5. /\ down \in Worlds /\ TmStep(down, w) /\ ~down.err /\ down.tm.weights = 0
      /\ down.col = w.col /\ down.tm \in TensorManagers /\ down.tm.built \in Nat
      /\ down.tm.kind \in {"none", w.tm.kind}
  BY <1>1, <1>2, <1>4, StepsChain
  DEF TornDown, TmStep, Kept, Worlds, TensorManagers, TensorRecords
<1>6. down.tm.live \ {down.tm.loader} = w.tm.live \ {w.tm.loader}
  <2>1. w.tm \in TensorManagers /\ 0 \notin w.tm.live
    BY DEF Worlds, TensorManagers, InBounds
  <2>2. QED
    BY <1>1, <1>4, <2>1 DEF TornDown, Kept
<1>7. CASE f = "shutdown"
  BY <1>3, <1>5, <1>7, StepsStay, StepsChain DEF ShutDown
<1>8. CASE f # "shutdown"
  <2>1. /\ t \in TensorManagers /\ t.live = w.tm.live \ {w.tm.loader}
        /\ t.loader = down.tm.loader /\ t.built = down.tm.built /\ t.kind = down.tm.kind
        /\ LoaderChange(t, down.tm)
    BY <1>5, <1>6, GiveUp
  <2> HIDE DEF t
  <2>2. /\ v \in Worlds /\ v.tm = t /\ v.om = down.om /\ v.comp = down.comp
        /\ v.ops = down.ops /\ v.col = down.col /\ v.err = down.err
        /\ v.applied = down.applied
    BY <1>3, <1>5, <1>8, <2>1, Changes
  <2>3. TmStep(v, down)
    BY <1>5, <1>6, <2>1, <2>2 DEF TmStep, LoaderChange, Idle
  <2>4. TmStep(v, w)
    BY <1>5, <2>3, StepsChain
  <2>5. QED
    BY <1>5, <1>8, <2>1, <2>2, <2>4 DEF ShutDown, LoaderChange
<1>9. QED
  BY <1>7, <1>8

RebuiltOver(v, w, f) ==
  /\ TmStep(v, w) /\ (v.err <=> f \in {"strategy", "create"})
  /\ v.tm.restored = w.tm.restored
  /\ ~v.err => NewLoader(v, w) /\ v.tm.weights = Views(v.tm, 0)
  /\ v.err => /\ v.tm.weights = 0 /\ v.tm.kind \in {w.tm.kind, "none"}
              /\ v.col = w.col /\ v.tm.loader \in {0, w.tm.loader}

LEMMA RebuildStep ==
  ASSUME NEW w \in Worlds, NEW f, ~w.err
  PROVE  RebuiltOver(RebuildFromSources(w, f), w, f)
<1> DEFINE v == RebuildFromSources(w, f)
           s == [w.tm EXCEPT !.live = w.tm.live \ {w.tm.loader}]
           t == [s EXCEPT !.weights = 0]
           back == [w EXCEPT !.tm = t]
           m == CreateLoader(back, f)
           p == PrepareFinalModel(m)
           r == [p.tm EXCEPT !.source = FALSE]
<1>1. w.tm \in TensorManagers /\ w.tm.built \in Nat
  BY DEF Worlds, TensorManagers, TensorRecords
<1>2. /\ s \in TensorManagers /\ s.live = w.tm.live \ {w.tm.loader}
      /\ s.loader = w.tm.loader /\ s.kind = w.tm.kind /\ s.built = w.tm.built
      /\ LoaderChange(s, w.tm)
  BY <1>1, GiveUp
<1>3. [w EXCEPT !.tm.weights = 0, !.tm.live = @ \ {w.tm.loader}] = back
  BY <1>1 DEF Worlds, TensorManagers, TensorRecords
<1>4. v = LET b == Strike(back, f, "strategy")
              c == Then(b, LAMBDA x : CreateLoader(x, f))
          IN  Then(c, LAMBDA x : [PrepareFinalModel(x) EXCEPT !.tm.source = FALSE])
  BY <1>3 DEF RebuildFromSources
<1> HIDE DEF s
<1>5. t \in TensorManagers
  <2>1. 0 \in {Stale} \cup 0..s.built
    BY <1>1, <1>2
  <2>2. QED
    BY <1>2, <2>1, FieldFacts
<1>6. /\ t.live = w.tm.live \ {w.tm.loader} /\ t.loader = w.tm.loader /\ t.weights = 0
      /\ t.built = w.tm.built /\ t.on = w.tm.on /\ t.cfg = w.tm.cfg
      /\ t.suspended = w.tm.suspended /\ t.restored = w.tm.restored /\ t.kind = w.tm.kind
  BY <1>2 DEF LoaderChange, TensorManagers, TensorRecords
<1> HIDE DEF t
<1>7. /\ back \in Worlds /\ back.tm = t /\ back.om = w.om /\ back.comp = w.comp
      /\ back.ops = w.ops /\ back.col = w.col /\ back.err = w.err
      /\ back.applied = w.applied
  BY <1>5, Changes
<1> HIDE DEF back, v
<1>8. TmStep(back, w) /\ ~back.err
  BY <1>1, <1>6, <1>7 DEF TmStep, Idle
<1>9. CASE f = "strategy"
  <2>1. v = Raise(back)
    BY <1>4, <1>8, <1>9 DEF Strike, Then, Raise, Worlds
  <2>2. TmStep(Raise(back), w)
    BY <1>7, <1>8, StepsStay, StepsChain
  <2>3. QED
    BY <1>6, <1>7, <1>9, <2>1, <2>2, StepsStay DEF RebuiltOver, v
<1>10. CASE f # "strategy"
  <2>1. v = IF m.err THEN m ELSE [p EXCEPT !.tm.source = FALSE]
    BY <1>4, <1>8, <1>10 DEF Strike, Then
  <2>2. Created(m, back) /\ (m.err <=> f = "create")
    BY <1>7, <1>8, CreateLoaderStep
  <2> HIDE DEF m
  <2>3. m \in Worlds /\ TmStep(m, w)
    BY <1>8, <2>2, StepsChain DEF Created, TmStep
  <2>4. CASE m.err
    BY <1>6, <1>7, <1>10, <2>1, <2>2, <2>3, <2>4 DEF RebuiltOver, Created, v
  <2>5. CASE ~m.err
    <3>1. NewLoader(m, w) /\ m.tm.weights = 0 /\ m.tm.restored = w.tm.restored
      BY <1>1, <1>6, <1>7, <2>2, <2>5 DEF Created, NewLoader
    <3>2. Kept(p, m) /\ p.tm.weights = Views(m.tm, 0)
      BY <2>3, <3>1, PrepareFinalModelStep DEF Views
    <3> HIDE DEF p
    <3>3. p \in Worlds /\ TmStep(p, w) /\ p.tm \in TensorManagers /\ p.tm.built \in Nat
      BY <2>3, <3>2, StepsChain DEF Kept, TmStep, Worlds, TensorManagers, TensorRecords
    <3>4. r \in TensorManagers
      <4>1. 0 \in {Stale} \cup 0..p.tm.built
        BY <3>3
      <4>2. QED
        BY <3>3, <4>1, FieldFacts
    <3>5. /\ r.loader = p.tm.loader /\ r.kind = p.tm.kind /\ r.built = p.tm.built
          /\ r.live = p.tm.live /\ r.restored = p.tm.restored /\ r.weights = p.tm.weights
          /\ r.on = p.tm.on /\ r.cfg = p.tm.cfg /\ r.suspended = p.tm.suspended
      BY <3>3 DEF TensorManagers, TensorRecords
    <3>6. v = [p EXCEPT !.tm = r]
      BY <2>1, <2>5, <3>3 DEF Worlds, TensorManagers, TensorRecords
    <3> HIDE DEF r
    <3>7. /\ v \in Worlds /\ v.tm = r /\ v.om = p.om /\ v.comp = p.comp
          /\ v.ops = p.ops /\ v.col = p.col /\ v.err = p.err /\ v.applied = p.applied
      BY <3>3, <3>4, <3>6, Changes
    <3>8. TmStep(v, p)
      BY <3>3, <3>5, <3>7 DEF TmStep, Idle
    <3>9. TmStep(v, w)
      BY <3>3, <3>8, StepsChain
    <3>10. NewLoader(v, w) /\ ~v.err /\ v.tm.restored = w.tm.restored
      BY <2>5, <3>1, <3>2, <3>5, <3>7 DEF NewLoader, Kept
    <3>11. v.tm.weights = Views(v.tm, 0)
      BY <3>2, <3>5, <3>7 DEF Views, Kept, TmStep
    <3>12. f # "create"
      BY <2>2, <2>5
    <3>13. QED
      BY <1>10, <3>9, <3>10, <3>11, <3>12 DEF RebuiltOver, v
  <2>6. QED
    BY <2>4, <2>5
<1>11. QED
  BY <1>9, <1>10

------------------------------------------------------------------------------
(* The compiled path: the tail, the slot and the session as values. *)

LEMMA TailTypes ==
  /\ IdleTail \in Tails
  /\ \A n \in {0, WarmupForwards}, p \in BOOLEAN :
       Arm(n, p) \in Tails /\ Arm(n, p).state # "FAILED"
  /\ \A t \in Tails : Failed(t) \in Tails /\ Failed(t).state = "FAILED"
  /\ \A t \in Tails, a \in {"unknown", "yes", "no"} :
       Done(t, a) \in Tails /\ Done(t, a).state = "DONE"
<1>1. IdleTail \in Tails
  BY DEF IdleTail, Tails, TailStates, WarmupForwards
<1>2. \A n \in {0, WarmupForwards}, p \in BOOLEAN :
        Arm(n, p) \in Tails /\ Arm(n, p).state # "FAILED"
  BY DEF Arm, Tails, TailStates, WarmupForwards
<1>3. \A t \in Tails : Failed(t) \in Tails /\ Failed(t).state = "FAILED"
  BY DEF Failed, Tails, TailStates, WarmupForwards
<1>4. \A t \in Tails, a \in {"unknown", "yes", "no"} :
        Done(t, a) \in Tails /\ Done(t, a).state = "DONE"
  BY DEF Done, Tails, TailStates, WarmupForwards
<1>5. QED
  BY <1>1, <1>2, <1>3, <1>4

LEMMA SlotTypes ==
  /\ NoSlot \in Slots
  /\ \A o \in Slots :
       /\ ClearActiveLoader(o) \in Slots /\ ClearActiveLoader(o).loader = 0
       /\ ClearActiveLoader(o).armed = o.armed
       /\ EnableProfiling(o) \in Slots /\ EnableProfiling(o).loader = o.loader
       /\ EnableProfiling(o).armed = o.armed
       /\ FinishProfiling(o) \in Slots /\ FinishProfiling(o).loader = o.loader
       /\ FinishProfiling(o).armed = o.armed
  /\ \A o \in Slots, l \in Nat :
       /\ InstallActiveLoader(o, l) \in Slots /\ InstallActiveLoader(o, l).loader = l
  /\ \A o \in Slots, raises \in BOOLEAN :
       /\ UnitForward(o, raises) \in Slots /\ UnitForward(o, raises).loader = o.loader
       /\ UnitForward(o, raises).armed = o.armed
<1>1. NoSlot \in Slots
  BY DEF NoSlot, Slots
<1>2. ASSUME NEW o \in Slots
      PROVE  /\ ClearActiveLoader(o) \in Slots /\ ClearActiveLoader(o).loader = 0
             /\ ClearActiveLoader(o).armed = o.armed
  BY DEF NoSlot, Slots, ClearActiveLoader
<1>3. ASSUME NEW o \in Slots
      PROVE  /\ EnableProfiling(o) \in Slots /\ EnableProfiling(o).loader = o.loader
             /\ EnableProfiling(o).armed = o.armed
             /\ FinishProfiling(o) \in Slots /\ FinishProfiling(o).loader = o.loader
             /\ FinishProfiling(o).armed = o.armed
  BY DEF Slots, EnableProfiling, FinishProfiling
<1>4. ASSUME NEW o \in Slots, NEW l \in Nat
      PROVE  /\ InstallActiveLoader(o, l) \in Slots /\ InstallActiveLoader(o, l).loader = l
  BY DEF Slots, InstallActiveLoader
<1>5. ASSUME NEW o \in Slots
      PROVE  /\ RecordUnitStart(o) \in Slots /\ RecordUnitStart(o).loader = o.loader
             /\ RecordUnitStart(o).armed = o.armed
             /\ RecordUnitEnd(o) \in Slots /\ RecordUnitEnd(o).loader = o.loader
             /\ RecordUnitEnd(o).armed = o.armed
  BY DEF Slots, RecordUnitStart, RecordUnitEnd
<1>6. ASSUME NEW o \in Slots, NEW raises \in BOOLEAN
      PROVE  /\ UnitForward(o, raises) \in Slots /\ UnitForward(o, raises).loader = o.loader
             /\ UnitForward(o, raises).armed = o.armed
  BY <1>5 DEF UnitForward
<1>7. QED
  BY <1>1, <1>2, <1>3, <1>4, <1>6

(* What the samples of the ops become. *)
LEMMA SlotSamples ==
  ASSUME NEW o \in Slots, NEW l \in Nat
  PROVE  /\ ~ClearActiveLoader(o).samples /\ ~EnableProfiling(o).samples
         /\ ~FinishProfiling(o).samples
         /\ InstallActiveLoader(o, l).samples = o.samples /\ InstallActiveLoader(o, l).armed
         /\ UnitForward(o, TRUE).samples = o.samples
  BY DEF Slots, ClearActiveLoader, NoSlot, EnableProfiling, FinishProfiling,
         InstallActiveLoader, UnitForward, RecordUnitStart

LEMMA TickTypes ==
  ASSUME NEW t \in Tails, NEW forwards \in Nat, t.state \in {"WARMING", "MEASURING"}
  PROVE  /\ Tick(t, forwards).tail \in Tails
         /\ Tick(t, forwards).tail.state \in {"WARMING", "MEASURING"}
<1> DEFINE k == Tick(t, forwards)
<1>1. CASE t.state = "MEASURING"
  <2>1. k.tail = IF forwards = 0 THEN t ELSE [t EXCEPT !.measure = t.measure + 1]
    BY <1>1 DEF Tick, TickMeasuring
  <2>2. [t EXCEPT !.measure = t.measure + 1] \in Tails
        /\ [t EXCEPT !.measure = t.measure + 1].state = t.state
    BY <1>1 DEF Tails
  <2>3. QED
    BY <1>1, <2>1, <2>2
<1>2. CASE t.state = "WARMING"
  <2> DEFINE n == t.warm + 1
  <2>1. k.tail = [t EXCEPT !.warm = n, !.state = IF n >= WarmupForwards THEN "MEASURING" ELSE @]
    BY <1>2 DEF Tick
  <2>2. k.tail = IF n >= WarmupForwards THEN [t EXCEPT !.warm = n, !.state = "MEASURING"]
                 ELSE [t EXCEPT !.warm = n]
    BY <1>2, <2>1 DEF Tails
  <2>3. n \in 0..WarmupForwards /\ (n < WarmupForwards \/ n >= WarmupForwards)
    BY <1>2 DEF Tails, WarmupForwards
  <2> HIDE DEF n
  <2>4. n >= WarmupForwards => [t EXCEPT !.warm = n, !.state = "MEASURING"] \in Tails
    BY <1>2, <2>3 DEF Tails, TailStates, WarmupForwards
  <2>5. n < WarmupForwards => [t EXCEPT !.warm = n] \in Tails
    BY <1>2, <2>3 DEF Tails, TailStates, WarmupForwards
  <2>6. [t EXCEPT !.warm = n, !.state = "MEASURING"].state = "MEASURING"
        /\ [t EXCEPT !.warm = n].state = "WARMING"
    BY <1>2 DEF Tails
  <2>7. QED
    BY <2>2, <2>3, <2>4, <2>5, <2>6 DEF WarmupForwards
<1>3. QED
  BY <1>1, <1>2

LEMMA PathTypes ==
  /\ Inactive \in CompiledPaths /\ ~Inactive.active
  /\ \A c \in ConfigType : Activation(c) \in CompiledPaths
  /\ \A k \in CompiledPaths :
       /\ OnEnterProfile(k) \in CompiledPaths
       /\ AdvanceProfileWarmup(k) \in CompiledPaths
       /\ \A t \in Tails : [k EXCEPT !.tail = t] \in CompiledPaths
<1>1. Inactive \in CompiledPaths /\ ~Inactive.active
  <2> HIDE DEF TailStates
  <2>1. QED
    BY TailTypes DEF Inactive, CompiledPaths, ProfileWarmups
<1>2. ASSUME NEW c \in ConfigType
      PROVE  Activation(c) \in CompiledPaths
  <2>1. (c.mode = "view") \in BOOLEAN /\ (c.mode # "view") \in BOOLEAN
    OBVIOUS
  <2>2. c.compile = "fn" => Activation(c) \in CompiledPaths
    BY <1>1, <2>1 DEF Activation, CompiledPaths
  <2>3. c.compile # "fn" => Activation(c) \in CompiledPaths
    BY <1>1 DEF Activation, CompiledPaths
  <2>4. QED
    BY <2>2, <2>3
<1>3. ASSUME NEW k \in CompiledPaths
      PROVE  OnEnterProfile(k) \in CompiledPaths
  <2>1. ProfileWarmups \in 0..ProfileWarmups
    BY DEF ProfileWarmups
  <2>2. QED
    BY <2>1 DEF OnEnterProfile, CompiledPaths
<1>4. ASSUME NEW k \in CompiledPaths
      PROVE  AdvanceProfileWarmup(k) \in CompiledPaths
  BY DEF AdvanceProfileWarmup, CompiledPaths, ProfileWarmups
<1>5. ASSUME NEW k \in CompiledPaths, NEW t \in Tails
      PROVE  [k EXCEPT !.tail = t] \in CompiledPaths
  BY DEF CompiledPaths
<1>6. QED
  BY <1>1, <1>2, <1>3, <1>4, <1>5

LEMMA CollectorTypes ==
  ASSUME NEW c \in Collectors
  PROVE  /\ PublishPass(c) \in Collectors /\ ResetPassState(c) \in Collectors
         /\ ResetCollector(c) \in Collectors /\ ArmReplayMeasure(c) \in Collectors
         /\ DisarmReplayMeasure(c) \in Collectors /\ DrainMeasure(c) \in Collectors
<1>1. Append(c.durable, c.held) \in Seq(Nat) /\ <<>> \in Seq(Nat)
  BY DEF Collectors
<1>2. PublishPass(c) \in Collectors
  BY <1>1 DEF PublishPass, Collectors
<1>3. ResetPassState(c) \in Collectors
  BY DEF ResetPassState, Collectors
<1>4. \A k \in Collectors, g \in Int : [k EXCEPT !.lastGen = g] \in Collectors
  BY DEF Collectors
<1>5. ResetCollector(c) \in Collectors
  BY <1>3, <1>4, NoGenerationType DEF ResetCollector
<1>6. ArmReplayMeasure(c) \in Collectors /\ DisarmReplayMeasure(c) \in Collectors
  BY DEF ArmReplayMeasure, DisarmReplayMeasure, Collectors
<1>7. DrainMeasure(c) \in Collectors
  BY <1>1 DEF DrainMeasure, Collectors
<1>8. QED
  BY <1>2, <1>3, <1>5, <1>6, <1>7

LEMMA PassTypes ==
  ASSUME NEW c \in Collectors, NEW gen \in Int, NEW pass \in Nat, NEW capturing \in BOOLEAN
  PROVE  /\ FinalizeReplayPass(c, gen, capturing).col \in Collectors
         /\ RecordPass(c, pass, capturing) \in Collectors
         /\ RecordReplay(c, pass) \in Collectors
         /\ OnPassStart(c, capturing) \in Collectors
<1>1. ASSUME NEW k \in Collectors, NEW g \in Int, NEW b \in BOOLEAN
      PROVE  FinalizeReplayPass(k, g, b).col \in Collectors
  <2> DEFINE p == PublishPass(k)
             n == IF g >= 0 THEN g ELSE p.lastGen
  <2>1. p \in Collectors
    BY CollectorTypes
  <2>2. n \in Int
    BY <2>1 DEF Collectors
  <2>3. [p EXCEPT !.lastGen = n] \in Collectors
    <3> HIDE DEF n, p
    <3>1. QED
      BY <2>1, <2>2 DEF Collectors
  <2>4. [p EXCEPT !.lastGen = IF g >= 0 THEN g ELSE @] = [p EXCEPT !.lastGen = n]
    BY <2>1 DEF Collectors
  <2>5. FinalizeReplayPass(k, g, b).col \in {k, [p EXCEPT !.lastGen = n]}
    BY <2>4 DEF FinalizeReplayPass
  <2>6. QED
    BY <2>3, <2>5
<1>2. (c.captured \/ capturing) \in BOOLEAN
  OBVIOUS
<1>3. RecordPass(c, pass, capturing) \in Collectors
  BY <1>2 DEF RecordPass, Collectors
<1>4. RecordReplay(c, pass) \in Collectors
  BY DEF RecordReplay, Collectors
<1>5. OnPassStart(c, capturing) \in Collectors
  <2> DEFINE kept == FinalizeReplayPass(c, NoGeneration, FALSE)
             before == IF ~c.active \/ capturing THEN c
                       ELSE IF ~c.captured THEN FinalizePass(c)
                       ELSE IF c.external /\ kept.ok THEN kept.col
                       ELSE ResetPassState(c)
             late == before.captured \/ capturing
  <2>1. kept.col \in Collectors
    BY <1>1, NoGenerationType
  <2>2. FinalizePass(c) \in Collectors /\ ResetPassState(c) \in Collectors
    BY CollectorTypes DEF FinalizePass
  <2>3. before \in Collectors
    BY <2>1, <2>2
  <2>4. OnPassStart(c, capturing)
          = IF ~c.enabled THEN c ELSE [before EXCEPT !.active = TRUE, !.captured = @ \/ capturing]
    BY DEF OnPassStart
  <2> HIDE DEF before
  <2>5. late \in BOOLEAN
    OBVIOUS
  <2>6. [before EXCEPT !.active = TRUE, !.captured = @ \/ capturing]
          = [before EXCEPT !.active = TRUE, !.captured = late]
    BY <2>3 DEF Collectors
  <2> HIDE DEF late
  <2>7. [before EXCEPT !.active = TRUE, !.captured = late] \in Collectors
    BY <2>3, <2>5 DEF Collectors
  <2>8. QED
    BY <2>4, <2>6, <2>7
<1>6. QED
  BY <1>1, <1>3, <1>4, <1>5

------------------------------------------------------------------------------
(* The compiled path in its manager. *)

SameLoader(s, t) ==
  /\ s.on = t.on /\ s.cfg = t.cfg /\ s.loader = t.loader /\ s.kind = t.kind
  /\ s.trap = t.trap /\ s.restored = t.restored /\ s.suspended = t.suspended
  /\ s.weights = t.weights /\ s.built = t.built /\ s.live = t.live

TornCompiled(v, w) ==
  /\ v \in Worlds
  /\ v.om = w.om /\ v.col = w.col /\ v.err = w.err /\ v.applied = w.applied
  /\ v.comp = Inactive /\ v.ops = ClearActiveLoader(w.ops)
  /\ SameLoader(v.tm, w.tm)

LEMMA TeardownCompiledStep ==
  ASSUME NEW w \in Worlds
  PROVE  TornCompiled(TeardownCompiled(w), w)
<1> DEFINE s == [w.tm EXCEPT !.armFirst = FALSE]
           t == [s EXCEPT !.source = FALSE]
           v == [w EXCEPT !.comp = Inactive, !.ops = ClearActiveLoader(w.ops), !.tm = t]
<1>1. w.tm \in TensorManagers /\ w.ops \in Slots /\ w.tm.built \in Nat
  BY DEF Worlds, TensorManagers, TensorRecords
<1>2. s \in TensorManagers /\ s.built = w.tm.built
  <2>1. 0 \in {Stale} \cup 0..w.tm.built
    BY <1>1
  <2>2. s \in TensorManagers
    BY <1>1, <2>1, FieldFacts
  <2>3. QED
    BY <1>1, <2>2 DEF TensorManagers, TensorRecords
<1>3. t \in TensorManagers
  <2>1. 0 \in {Stale} \cup 0..s.built
    BY <1>1, <1>2
  <2> HIDE DEF s
  <2>2. QED
    BY <1>2, <2>1, FieldFacts
<1>4. SameLoader(t, w.tm)
  BY <1>1 DEF SameLoader, TensorManagers, TensorRecords
<1>5. TeardownCompiled(w) = v
  BY <1>1 DEF TeardownCompiled, Worlds, TensorManagers, TensorRecords
<1> HIDE DEF t
<1>6. ClearActiveLoader(w.ops) \in Slots /\ Inactive \in CompiledPaths
  BY <1>1, SlotTypes, PathTypes
<1>7. /\ v \in Worlds /\ v.om = w.om /\ v.col = w.col /\ v.err = w.err
      /\ v.applied = w.applied /\ v.comp = Inactive /\ v.ops = ClearActiveLoader(w.ops)
      /\ v.tm = t
  BY <1>3, <1>6 DEF Worlds
<1>8. QED
  BY <1>4, <1>5, <1>7 DEF TornCompiled

(* Activation raises before it changes anything, or starts from nothing. *)
Resolved(v, w, c) ==
  /\ v \in Worlds
  /\ v.om = w.om /\ v.col = w.col /\ v.applied = w.applied
  /\ v.err <=> ~Acceptable(c)
  /\ SameLoader(v.tm, w.tm)
  /\ v.err => v.comp = w.comp /\ v.ops = w.ops /\ v.tm = w.tm
  /\ ~v.err => v.comp = Activation(c) /\ v.ops = ClearActiveLoader(w.ops)

LEMMA ResolveActivationStep ==
  ASSUME NEW w \in Worlds, NEW c \in ConfigType, ~w.err
  PROVE  Resolved(ResolveActivation(w, c), w, c)
<1> DEFINE u == TeardownCompiled(w)
           v == [u EXCEPT !.comp = Activation(c)]
<1>1. TornCompiled(u, w)
  BY TeardownCompiledStep
<1>2. CASE ~Acceptable(c)
  BY <1>2, StepsStay DEF ResolveActivation, Resolved, SameLoader, Raise, Worlds
<1>3. CASE Acceptable(c)
  <2>1. ResolveActivation(w, c) = v
    BY <1>3 DEF ResolveActivation
  <2>2. Activation(c) \in CompiledPaths
    BY PathTypes
  <2> HIDE DEF u
  <2>3. /\ v \in Worlds /\ v.om = u.om /\ v.col = u.col /\ v.err = u.err
        /\ v.applied = u.applied /\ v.comp = Activation(c) /\ v.ops = u.ops /\ v.tm = u.tm
    BY <1>1, <2>2 DEF TornCompiled, Worlds
  <2> HIDE DEF v
  <2>4. QED
    BY <1>1, <1>3, <2>1, <2>3 DEF TornCompiled, Resolved
<1>4. QED
  BY <1>2, <1>3

LEMMA ArmFirstStep ==
  ASSUME NEW w \in Worlds
  PROVE  LET v == ArmNonDestructiveFirstLoader(w)
         IN  /\ v \in Worlds
             /\ v.om = w.om /\ v.col = w.col /\ v.err = w.err /\ v.applied = w.applied
             /\ v.comp = w.comp /\ v.ops = w.ops /\ SameLoader(v.tm, w.tm)
<1> DEFINE flag == w.tm.armFirst \/ (w.comp.active /\ w.comp.replan)
           t == [w.tm EXCEPT !.armFirst = flag]
           v == ArmNonDestructiveFirstLoader(w)
<1>1. w.tm \in TensorManagers /\ w.tm.built \in Nat /\ flag \in BOOLEAN
  BY DEF Worlds, TensorManagers, TensorRecords
<1>2. v = [w EXCEPT !.tm = t]
  BY <1>1 DEF ArmNonDestructiveFirstLoader, Worlds, TensorManagers, TensorRecords
<1> HIDE DEF flag
<1>3. t \in TensorManagers
  <2>1. 0 \in {Stale} \cup 0..w.tm.built
    BY <1>1
  <2>2. QED
    BY <1>1, <2>1, FieldFacts
<1>4. SameLoader(t, w.tm)
  BY <1>1 DEF SameLoader, TensorManagers, TensorRecords
<1> HIDE DEF t
<1>5. QED
  BY <1>2, <1>3, <1>4, Changes

(* The ops are given a loader that preallocates, or none. *)
Fit(t) == t.loader # 0 /\ t.kind = "infer" /\ t.cfg.block

Entered(v, w) ==
  /\ v \in Worlds
  /\ v.om = w.om /\ v.tm = w.tm /\ v.col = w.col /\ v.applied = w.applied
  /\ v.comp.active = w.comp.active /\ v.comp.replan = w.comp.replan
  /\ v.comp.profile = w.comp.profile /\ v.comp.warm = w.comp.warm
  /\ v.err <=> (w.comp.active /\ ~Fit(w.tm))
  /\ v.err => v.comp = w.comp
  /\ IF w.comp.active
       THEN /\ v.ops.loader = (IF Fit(w.tm) THEN w.tm.loader ELSE 0)
            /\ ~Fit(w.tm) => ~v.ops.samples
       ELSE v.comp = w.comp /\ v.ops = w.ops
  /\ v.comp.tail.state \in {w.comp.tail.state, "DONE"}

LEMMA OnEnterInferenceStep ==
  ASSUME NEW w \in Worlds, ~w.err
  PROVE  Entered(OnEnterInference(w), w)
<1> DEFINE v == OnEnterInference(w)
           q == RequireCompiledLoader(w)
<1>1. w.ops \in Slots /\ w.comp \in CompiledPaths /\ w.tm.loader \in Nat
  BY DEF Worlds, TensorManagers, TensorRecords
<1>2. /\ ClearActiveLoader(w.ops) \in Slots /\ ClearActiveLoader(w.ops).loader = 0
      /\ ~ClearActiveLoader(w.ops).samples
      /\ InstallActiveLoader(w.ops, w.tm.loader) \in Slots
      /\ InstallActiveLoader(w.ops, w.tm.loader).loader = w.tm.loader
  <2>1. ClearActiveLoader(w.ops) \in Slots /\ ClearActiveLoader(w.ops).loader = 0
    BY <1>1, SlotTypes
  <2>2. \A o \in Slots, l \in Nat :
          InstallActiveLoader(o, l) \in Slots /\ InstallActiveLoader(o, l).loader = l
    BY SlotTypes
  <2>3. QED
    BY <1>1, <2>1, <2>2, SlotSamples
<1>3. CASE ~w.comp.active
  BY <1>3 DEF OnEnterInference, Entered
<1>4. CASE w.comp.active /\ ~Fit(w.tm)
  <2>1. q = Raise([w EXCEPT !.ops = ClearActiveLoader(w.ops)])
    BY <1>4 DEF RequireCompiledLoader, Fit, Worlds
  <2>2. /\ q \in Worlds /\ q.om = w.om /\ q.tm = w.tm /\ q.col = w.col
        /\ q.applied = w.applied /\ q.comp = w.comp /\ q.err
        /\ q.ops = ClearActiveLoader(w.ops)
    BY <1>2, <2>1 DEF Raise, Worlds
  <2>3. v = q
    BY <1>4, <2>2 DEF OnEnterInference, Then
  <2>4. QED
    BY <1>2, <1>4, <2>2, <2>3 DEF Entered
<1>5. CASE w.comp.active /\ Fit(w.tm)
  <2> DEFINE d == Done(w.comp.tail, "yes")
             k == [w.comp EXCEPT !.tail = d]
             m == [k EXCEPT !.wrapped = TRUE]
  <2>1. q = [w EXCEPT !.ops = InstallActiveLoader(w.ops, w.tm.loader)]
    BY <1>5 DEF RequireCompiledLoader, Fit, Worlds
  <2>2. /\ q \in Worlds /\ q.om = w.om /\ q.tm = w.tm /\ q.col = w.col
        /\ q.applied = w.applied /\ q.comp = w.comp /\ ~q.err
        /\ q.ops = InstallActiveLoader(w.ops, w.tm.loader)
    BY <1>2, <2>1 DEF Worlds
  <2> HIDE DEF q
  <2>3. v = IF ~q.comp.fn THEN q ELSE [q EXCEPT !.comp.tail = Done(@, "yes"),
                                                !.comp.wrapped = TRUE]
    BY <1>5, <2>2 DEF OnEnterInference, Then, q
  <2>4. [q EXCEPT !.comp.tail = Done(@, "yes"), !.comp.wrapped = TRUE] = [q EXCEPT !.comp = m]
    BY <1>1, <2>2 DEF Worlds, CompiledPaths
  <2>5. d \in Tails /\ d.state = "DONE"
    BY <1>1, TailTypes DEF CompiledPaths
  <2> HIDE DEF d
  <2>6. k \in CompiledPaths
    BY <1>1, <2>5, PathTypes
  <2>7. /\ m \in CompiledPaths /\ m.active = w.comp.active /\ m.replan = w.comp.replan
        /\ m.profile = w.comp.profile /\ m.warm = w.comp.warm /\ m.tail = d
    BY <1>1, <2>5 DEF CompiledPaths
  <2> HIDE DEF m
  <2> DEFINE e == [q EXCEPT !.comp = m]
  <2>8. /\ e \in Worlds /\ e.comp = m /\ e.om = w.om /\ e.tm = w.tm
        /\ e.col = w.col /\ e.applied = w.applied /\ ~e.err /\ e.ops = q.ops
    BY <2>2, <2>7 DEF Worlds
  <2>9. v = IF ~q.comp.fn THEN q ELSE e
    BY <2>3, <2>4
  <2> HIDE DEF e, v
  <2>10. CASE ~q.comp.fn
    BY <1>2, <1>5, <2>2, <2>9, <2>10 DEF Entered, v
  <2>11. CASE q.comp.fn
    BY <1>2, <1>5, <2>2, <2>5, <2>7, <2>8, <2>9, <2>11 DEF Entered, v
  <2>12. QED
    BY <2>10, <2>11
<1>6. QED
  BY <1>3, <1>4, <1>5

(* A step that keeps the tensor manager's settings, idles no loader and    *)
(* registers none that was not built.                                      *)
Registered(w) == w.ops.loader <= w.tm.built

Frame(v, w) ==
  /\ v \in Worlds /\ Registered(v)
  /\ v.tm.on = w.tm.on /\ v.tm.cfg = w.tm.cfg /\ v.tm.suspended = w.tm.suspended
  /\ v.tm.restored = w.tm.restored
  /\ v.tm.built >= w.tm.built
  /\ Idle(v.tm) \subseteq Idle(w.tm)
  /\ w.ops.armed => v.ops.armed

(* Registry, tensor manager and parameters agree on a loader. *)
Serves(v) ==
  /\ v.tm.loader # 0 /\ v.tm.loader \in v.tm.live
  /\ v.tm.weights = Views(v.tm, 0)
  /\ v.ops.loader = v.tm.loader

LEMMA FramesChain ==
  ASSUME NEW u \in Worlds, NEW v \in Worlds, NEW w \in Worlds, Frame(v, w), Frame(u, v)
  PROVE  Frame(u, w)
<1>1. u.tm.built \in Int /\ v.tm.built \in Int /\ w.tm.built \in Int
  BY DEF Worlds, TensorManagers, TensorRecords
<1>2. QED
  BY <1>1 DEF Frame

(* A graph that is read over its events was captured with them. *)
Captured(c) == c.enabled /\ c.external => c.captured /\ c.has

(* What the steps of a collector leave of what it has published. *)
Drained(j, k) ==
  /\ j.enabled = k.enabled /\ j.durable \in {k.durable, <<>>}
  /\ Captured(k) => Captured(j)

LEMMA DrainedSteps ==
  ASSUME NEW c \in Collectors
  PROVE  /\ Drained(DrainMeasure(DisarmReplayMeasure(c)), c)
         /\ DrainMeasure(DisarmReplayMeasure(c)).durable = <<>>
         /\ Drained(DisarmReplayMeasure(c), c)
         /\ Drained(ArmReplayMeasure(ResetCollector(DrainMeasure(c))), c)
  BY DEF Drained, Captured, Collectors, DrainMeasure, DisarmReplayMeasure, ArmReplayMeasure,
         ResetCollector, ResetPassState

(* A collector that is off publishes nothing.                              *)
Timed(j, k) ==
  j.enabled = k.enabled /\ (j.durable # <<>> => k.enabled \/ k.durable # <<>>)

LEMMA TimedSteps ==
  ASSUME NEW c \in Collectors, NEW gen \in Int, NEW pass \in Nat, NEW capturing \in BOOLEAN
  PROVE  /\ Timed(FinalizeReplayPass(c, gen, capturing).col, c)
         /\ Timed(RecordReplay(c, pass), c)
         /\ Timed(RecordPass(c, pass, capturing), c)
         /\ Timed(OnPassStart(c, capturing), c)
<1>1. \A d \in Collectors : /\ ResetPassState(d).enabled = d.enabled
                             /\ ResetPassState(d).durable = d.durable
                             /\ PublishPass(d).enabled = d.enabled
  BY DEF Collectors, ResetPassState, PublishPass
<1>2. \A g \in Int, k \in BOOLEAN : FinalizeReplayPass(c, g, k).col.enabled = c.enabled
  BY DEF Collectors, FinalizeReplayPass, PublishPass
<1>3. \A g \in Int, k \in BOOLEAN : Timed(FinalizeReplayPass(c, g, k).col, c)
  BY <1>2 DEF FinalizeReplayPass, Timed
<1>4. Timed(RecordReplay(c, pass), c) /\ Timed(RecordPass(c, pass, capturing), c)
  BY DEF Timed, Collectors, RecordReplay, RecordPass
<1>5. Timed(OnPassStart(c, capturing), c)
  <2> DEFINE kept == FinalizeReplayPass(c, NoGeneration, FALSE)
             before == IF ~c.active \/ capturing THEN c
                       ELSE IF ~c.captured THEN FinalizePass(c)
                       ELSE IF c.external /\ kept.ok THEN kept.col
                       ELSE ResetPassState(c)
  <2>1. kept.col \in Collectors /\ kept.col.enabled = c.enabled
    BY <1>2, PassTypes, NoGenerationType
  <2>2. ResetPassState(c) \in Collectors /\ FinalizePass(c) \in Collectors
    BY CollectorTypes DEF FinalizePass
  <2>3. FinalizePass(c).enabled = c.enabled
    BY <1>1, <2>2 DEF FinalizePass
  <2> HIDE DEF kept
  <2>4. before \in Collectors /\ before.enabled = c.enabled
    BY <1>1, <2>1, <2>2, <2>3
  <2>5. OnPassStart(c, capturing)
          = IF ~c.enabled THEN c
            ELSE [before EXCEPT !.active = TRUE, !.captured = @ \/ capturing]
    BY DEF OnPassStart, kept
  <2> HIDE DEF before
  <2>6. QED
    BY <2>4, <2>5 DEF Timed, Collectors
<1>6. QED
  BY <1>3, <1>4, <1>5

------------------------------------------------------------------------------
(* What the tensor manager, the registry and the parameters keep.          *)

(* Whatever was called: a tensor manager without blocks leaves the         *)
(* parameters alone, apart from the views of a profile, and times nothing; *)
(* only view mode profiles by a controller.                                *)
Grounded(w) ==
  /\ ~w.tm.cfg.block => w.tm.weights = 0 \/ w.tm.kind = "controller"
  /\ w.col.enabled \/ w.col.durable # <<>> => w.tm.on /\ w.tm.cfg.block
  /\ w.tm.kind = "controller" => w.tm.cfg.mode = "view"

Rooted(v, w) == w.tm.on /\ Grounded(w) => Grounded(v)

(* The parameters own their data, or are views of the loader in use.       *)
OwnView(w) == w.tm.weights \in {0, w.tm.loader}

(* A compiled session on blocks has had a loader in the registry; one      *)
(* without blocks never has, and records nothing.                          *)
Staged(w) ==
  /\ Grounded(w) /\ w.tm.kind # "controller"
  /\ IF w.tm.cfg.block THEN w.ops.armed ELSE w.ops.loader = 0 /\ ~w.ops.samples

(* Measuring and replanning carry these over.                              *)
Holds(v, w) ==
  w.tm.on =>
    /\ Grounded(w) => Grounded(v)
    /\ w.tm.kind # "controller" => v.tm.kind # "controller"
    /\ Grounded(w) /\ w.tm.kind # "controller" /\ OwnView(w) => OwnView(v)

(* The loader is the same and what was captured over it stays readable, or *)
(* it is one that no graph was captured over.                              *)
Follows(v, w) ==
  /\ v.tm.built >= w.tm.built
  /\ \/ v.tm.loader = 0 \/ v.tm.loader > w.tm.built
     \/ v.tm.loader = w.tm.loader /\ (Captured(w.col) => Captured(v.col))

Carries(v, w) ==
  Holds(v, w) /\ Follows(v, w) /\ (w.tm.on /\ Staged(w) => Staged(v))

LEMMA FollowsChain ==
  ASSUME NEW u \in Worlds, NEW v \in Worlds, NEW w \in Worlds, Follows(v, w), Follows(u, v)
  PROVE  Follows(u, w)
<1>1. /\ u.tm.built \in Nat /\ v.tm.built \in Nat /\ w.tm.built \in Nat
      /\ u.tm.loader \in Nat /\ v.tm.loader \in Nat /\ w.tm.loader \in Nat
  BY DEF Worlds, TensorManagers, TensorRecords
<1>2. QED
  BY <1>1 DEF Follows

LEMMA CarriesChain ==
  ASSUME NEW u \in Worlds, NEW v \in Worlds, NEW w \in Worlds,
         Carries(v, w), Carries(u, v), v.tm.on = w.tm.on
  PROVE  Carries(u, w)
<1>1. Follows(u, w)
  BY FollowsChain DEF Carries
<1>2. QED
  BY <1>1 DEF Carries, Holds

LEMMA CarriesItself ==
  ASSUME NEW w \in Worlds
  PROVE  Carries(w, w)
<1>1. w.tm.built \in Nat
  BY DEF Worlds, TensorManagers, TensorRecords
<1>2. QED
  BY <1>1 DEF Carries, Holds, Follows

LEMMA CarriesSame ==
  ASSUME NEW v \in Worlds, NEW w \in Worlds, v.tm = w.tm, Drained(v.col, w.col),
         v.ops.loader \in {0, w.ops.loader}, w.ops.armed => v.ops.armed,
         v.ops.samples => w.ops.samples
  PROVE  Carries(v, w)
<1>1. w.tm.built \in Nat
  BY DEF Worlds, TensorManagers, TensorRecords
<1>2. Follows(v, w)
  BY <1>1 DEF Follows, Drained
<1>3. QED
  BY <1>2 DEF Carries, Holds, Drained, Grounded, OwnView, Staged

Replanned(v, w) ==
  /\ Frame(v, w) /\ v.om = w.om /\ v.comp = w.comp
  /\ \/ v = w
     \/ v.err
     \/ ~v.err /\ v.applied /\ Serves(v)

LEMMA ReplanStep ==
  ASSUME NEW w \in Worlds, NEW durations, NEW f, ~w.err, Registered(w)
  PROVE  Replanned(ReplanFromCompiledDurations(w, durations, f), w)
<1> DEFINE v == ReplanFromCompiledDurations(w, durations, f)
           r == RebuildFromSources(w, f)
           n == ReinstallCompiledLoader(r)
           d == [n EXCEPT !.applied = TRUE]
           e == [r EXCEPT !.applied = TRUE]
<1>1. w.ops \in Slots /\ w.tm.built \in Nat
  BY DEF Worlds, TensorManagers, TensorRecords
<1>2. RebuiltOver(r, w, f)
  BY RebuildStep
<1>3. v = IF CanReplan(w, durations, f) THEN (IF r.err THEN e ELSE d) ELSE w
  BY DEF ReplanFromCompiledDurations, Then
<1> HIDE DEF r, v
<1>4. /\ r \in Worlds /\ r.om = w.om /\ r.comp = w.comp /\ r.ops = w.ops
      /\ r.tm.on = w.tm.on /\ r.tm.cfg = w.tm.cfg /\ r.tm.suspended = w.tm.suspended
      /\ r.tm.restored = w.tm.restored /\ r.tm.built >= w.tm.built
      /\ Idle(r.tm) \subseteq Idle(w.tm) /\ r.tm.built \in Nat /\ r.tm.loader \in Nat
      /\ w.ops.loader \in Nat
  BY <1>1, <1>2 DEF RebuiltOver, TmStep, Worlds, TensorManagers, TensorRecords, Slots
<1>5. CASE ~CanReplan(w, durations, f)
  <2>1. v = w
    BY <1>3, <1>5
  <2>2. Frame(w, w)
    BY <1>1 DEF Frame
  <2>3. QED
    BY <2>1, <2>2 DEF Replanned, v
<1>6. CASE CanReplan(w, durations, f) /\ r.err
  <2>1. /\ e \in Worlds /\ e.om = r.om /\ e.comp = r.comp /\ e.ops = r.ops /\ e.tm = r.tm
        /\ e.err
    BY <1>4, <1>6 DEF Worlds
  <2>2. v = e
    BY <1>3, <1>6
  <2> HIDE DEF e
  <2>3. QED
    BY <1>1, <1>4, <2>1, <2>2 DEF Replanned, Frame, Registered, v
<1>7. CASE CanReplan(w, durations, f) /\ ~r.err
  <2>1. v = d
    BY <1>3, <1>7
  <2>2. NewLoader(r, w) /\ r.tm.weights = Views(r.tm, 0)
    BY <1>2, <1>7 DEF RebuiltOver
  <2>3. r.tm.loader # 0 /\ r.tm.loader <= r.tm.built /\ r.tm.loader \in r.tm.live
    BY <1>1, <1>4, <2>2 DEF NewLoader
  <2> DEFINE o == InstallActiveLoader(ClearActiveLoader(r.ops), r.tm.loader)
  <2>4. o \in Slots /\ o.loader = r.tm.loader /\ o.armed
    <3>1. ClearActiveLoader(r.ops) \in Slots
      BY <1>1, <1>4, SlotTypes
    <3>2. \A s \in Slots, l \in Nat :
            InstallActiveLoader(s, l) \in Slots /\ InstallActiveLoader(s, l).loader = l
      BY SlotTypes
    <3>3. o \in Slots /\ o.loader = r.tm.loader
      BY <1>4, <3>1, <3>2
    <3>4. QED
      BY <2>3, <3>3 DEF Slots
  <2>5. n = [r EXCEPT !.ops = o]
    BY <1>4, <2>3 DEF ReinstallCompiledLoader, Worlds
  <2> HIDE DEF o
  <2>6. /\ n \in Worlds /\ n.om = r.om /\ n.comp = r.comp /\ n.ops = o /\ n.tm = r.tm
        /\ n.err = r.err
    BY <1>4, <2>4, <2>5 DEF Worlds
  <2> HIDE DEF n
  <2>7. /\ d \in Worlds /\ d.om = r.om /\ d.comp = r.comp /\ d.ops = o /\ d.tm = r.tm
        /\ d.err = r.err /\ d.applied
    BY <2>6 DEF Worlds
  <2> HIDE DEF d
  <2>8. Serves(d)
    BY <2>2, <2>3, <2>4, <2>7 DEF Serves
  <2>9. Frame(d, w)
    BY <1>4, <2>3, <2>4, <2>7 DEF Frame, Registered
  <2>10. QED
    BY <1>4, <1>7, <2>1, <2>7, <2>8, <2>9 DEF Replanned, v
<1>8. QED
  BY <1>5, <1>6, <1>7

(* Durations are there only where there are blocks.                        *)
LEMMA ReplanCarries ==
  ASSUME NEW w \in Worlds, NEW durations, NEW f, ~w.err, Registered(w)
  PROVE  LET v == ReplanFromCompiledDurations(w, durations, f)
         IN  /\ Holds(v, w) /\ Follows(v, w)
             /\ w.tm.on /\ Staged(w) /\ (durations => w.tm.cfg.block) => Staged(v)
<1> DEFINE v == ReplanFromCompiledDurations(w, durations, f)
           r == RebuildFromSources(w, f)
           n == ReinstallCompiledLoader(r)
           d == [n EXCEPT !.applied = TRUE]
           e == [r EXCEPT !.applied = TRUE]
<1>1. RebuiltOver(r, w, f)
  BY RebuildStep
<1>2. v = IF CanReplan(w, durations, f) THEN (IF r.err THEN e ELSE d) ELSE w
  BY DEF ReplanFromCompiledDurations, Then
<1>3. Frame(v, w)
  BY ReplanStep DEF Replanned
<1> HIDE DEF r, v
<1>4. r \in Worlds /\ r.tm.on = w.tm.on /\ r.tm.cfg = w.tm.cfg /\ r.ops = w.ops
  BY <1>1 DEF RebuiltOver, TmStep
<1>5. CASE ~CanReplan(w, durations, f)
  BY <1>2, <1>5, CarriesItself DEF Carries, v
<1>6. CASE CanReplan(w, durations, f) /\ r.err
  <2>1. v = e /\ e.tm = r.tm /\ e.col = r.col /\ e.ops = r.ops
    BY <1>2, <1>4, <1>6 DEF Worlds
  <2>2. /\ r.tm.weights = 0 /\ r.tm.kind \in {w.tm.kind, "none"} /\ r.col = w.col
        /\ r.tm.loader \in {0, w.tm.loader}
    BY <1>1, <1>6 DEF RebuiltOver
  <2> HIDE DEF e
  <2>3. Holds(v, w) /\ (Staged(w) => Staged(v))
    BY <1>4, <2>1, <2>2 DEF Holds, Grounded, OwnView, Staged, v
  <2>4. Follows(v, w)
    BY <1>3, <2>1, <2>2 DEF Frame, Follows, v
  <2>5. QED
    BY <2>3, <2>4 DEF v
<1>7. CASE CanReplan(w, durations, f) /\ ~r.err
  <2>1. v = d
    BY <1>2, <1>7
  <2>2. NewLoader(r, w) /\ r.tm.weights = Views(r.tm, 0)
    BY <1>1, <1>7 DEF RebuiltOver
  <2>3. n.tm = r.tm /\ n.col = r.col /\ {"tm", "col"} \subseteq DOMAIN n
    BY <1>4 DEF ReinstallCompiledLoader, Worlds, Raise
  <2> HIDE DEF n
  <2>4. d.tm = r.tm /\ d.col = r.col
    BY <2>3
  <2> HIDE DEF d
  <2>5. v.tm = r.tm /\ v.col = r.col
    BY <2>1, <2>4
  <2>6. r.col.durable = w.col.durable /\ r.tm.kind = "infer"
        /\ r.col.enabled = (w.tm.cfg.block /\ w.tm.cfg.timing # "off")
        /\ r.tm.weights = IF w.tm.cfg.block THEN r.tm.loader ELSE 0
    BY <1>4, <2>2 DEF NewLoader, Views
  <2>7. durations
    BY <1>7 DEF CanReplan
  <2>8. w.tm.on => (Grounded(w) => Grounded(v))
    BY <1>4, <2>5, <2>6 DEF Grounded
  <2>9. OwnView(v) /\ v.tm.kind # "controller"
    BY <1>4, <2>5, <2>6 DEF OwnView
  <2>10. w.tm.on /\ Staged(w) /\ (durations => w.tm.cfg.block) => Staged(v)
    BY <1>3, <1>4, <2>5, <2>7, <2>8, <2>9 DEF Staged, Frame
  <2>11. Follows(v, w)
    <3>1. w.tm.built \in Nat /\ r.tm.built \in Nat
      BY <1>4 DEF Worlds, TensorManagers, TensorRecords
    <3>2. QED
      BY <2>2, <2>5, <3>1 DEF Follows, NewLoader
  <2>12. QED
    BY <2>8, <2>9, <2>10, <2>11 DEF Holds, v
<1>8. QED
  BY <1>5, <1>6, <1>7

(* Both ends of a replan drain what was measured, whatever comes of it. *)
Finished(v, w) ==
  /\ Frame(v, w) /\ Carries(v, w) /\ v.comp = w.comp
  /\ v.om \in {w.om, [w.om EXCEPT !.manual = FALSE]}
  /\ \/ v.err
     \/ ~v.err /\ v.tm = w.tm /\ v.ops.loader = w.ops.loader
     \/ ~v.err /\ v.applied /\ Serves(v)

LEMMA FinishReplanStep ==
  ASSUME NEW w \in Worlds, NEW f, ~w.err, Registered(w)
  PROVE  Finished(FinishReplan(w, f), w) /\ FinishReplan(w, f).om = w.om
<1> DEFINE u == [w EXCEPT !.ops = FinishProfiling(w.ops)]
           v == FinishReplan(w, f)
<1>1. w.ops \in Slots
  BY DEF Worlds
<1>2. FinishProfiling(w.ops) \in Slots /\ FinishProfiling(w.ops).loader = w.ops.loader
      /\ FinishProfiling(w.ops).armed = w.ops.armed /\ ~FinishProfiling(w.ops).samples
  BY <1>1, SlotTypes, SlotSamples
<1>3. /\ u \in Worlds /\ u.om = w.om /\ u.comp = w.comp /\ u.tm = w.tm
      /\ u.ops.loader = w.ops.loader /\ u.ops.armed = w.ops.armed /\ u.err = w.err
      /\ u.col = w.col /\ ~u.ops.samples
  BY <1>2 DEF Worlds
<1>4. v = ReplanFromCompiledDurations(u, w.ops.samples, f)
  BY DEF FinishReplan
<1> HIDE DEF u
<1>5. Replanned(v, u)
  BY <1>3, <1>4, ReplanStep DEF Registered
<1>6. Frame(v, w)
  BY <1>3, <1>5 DEF Replanned, Frame
<1>7. Carries(u, w)
  BY <1>3, CarriesSame DEF Drained
<1>8. ~w.tm.cfg.block /\ Staged(w) => ~w.ops.samples
  BY DEF Staged
<1>9. Holds(v, u) /\ Follows(v, u) /\ (u.tm.on /\ Staged(u) /\ (w.ops.samples => u.tm.cfg.block) => Staged(v))
  BY <1>3, <1>4, ReplanCarries DEF Registered
<1>12. Follows(v, w)
  BY <1>3, <1>5, <1>7, <1>9, FollowsChain DEF Carries, Replanned, Frame
<1>10. Carries(v, w)
  BY <1>3, <1>7, <1>8, <1>9, <1>12 DEF Carries, Holds
<1>11. QED
  BY <1>3, <1>5, <1>6, <1>10 DEF Replanned, Finished

LEMMA FinishManualStep ==
  ASSUME NEW w \in Worlds, NEW f, ~w.err, Registered(w)
  PROVE  /\ Finished(FinishManualUpdateReplan(w, f), w)
         /\ FinishManualUpdateReplan(w, f).om = [w.om EXCEPT !.manual = FALSE]
<1> DEFINE o == [w.om EXCEPT !.manual = FALSE]
           k == DrainMeasure(DisarmReplayMeasure(w.col))
           u == [w EXCEPT !.om = o, !.col = k]
           v == FinishManualUpdateReplan(w, f)
<1>1. o \in Managers /\ k \in Collectors
  BY CollectorTypes DEF Worlds, Managers
<1>2. [w EXCEPT !.om.manual = FALSE, !.col = DrainMeasure(DisarmReplayMeasure(@))] = u
  BY DEF Worlds
<1>3. v = ReplanFromCompiledDurations(u, w.col.durable # <<>>, f)
  BY <1>2 DEF FinishManualUpdateReplan
<1> HIDE DEF k, o
<1>4. /\ u \in Worlds /\ u.om = o /\ u.comp = w.comp /\ u.tm = w.tm
      /\ u.ops = w.ops /\ u.err = w.err /\ u.col = k
  BY <1>1 DEF Worlds
<1> HIDE DEF u
<1>5. Replanned(v, u)
  BY <1>3, <1>4, ReplanStep DEF Registered
<1>6. Frame(v, w)
  BY <1>4, <1>5 DEF Replanned, Frame
<1>7. Carries(u, w)
  BY <1>1, <1>4, DrainedSteps, CarriesSame DEF k, Worlds
<1>8. Staged(w) /\ w.col.durable # <<>> => w.tm.cfg.block
  BY DEF Staged, Grounded
<1>9. Holds(v, u) /\ Follows(v, u) /\ (u.tm.on /\ Staged(u) /\ (w.col.durable # <<>> => u.tm.cfg.block) => Staged(v))
  BY <1>3, <1>4, ReplanCarries DEF Registered
<1>12. Follows(v, w)
  BY <1>4, <1>5, <1>7, <1>9, FollowsChain DEF Carries, Replanned, Frame
<1>10. Carries(v, w)
  BY <1>4, <1>7, <1>8, <1>9, <1>12 DEF Carries, Holds
<1>11. QED
  BY <1>4, <1>5, <1>6, <1>10 DEF Replanned, Finished, o

(* A tail that completes is DONE or FAILED, and a failed one takes its     *)
(* loader out of the registry.                                             *)
PathKept(j, k) ==
  /\ j.active = k.active /\ j.fn = k.fn /\ j.profile = k.profile
  /\ j.replan = k.replan /\ j.warm = k.warm /\ j.wrapped = k.wrapped

TailEnd(e) ==
  IF e.err
    THEN [e EXCEPT !.comp.tail = Failed(@), !.ops = ClearActiveLoader(@)]
    ELSE [e EXCEPT !.comp.tail = Done(@, IF e.applied THEN "yes" ELSE "no")]

Ended(v, w) ==
  /\ Frame(v, w) /\ Carries(v, w) /\ PathKept(v.comp, w.comp)
  /\ v.om \in {w.om, [w.om EXCEPT !.manual = FALSE]}
  /\ IF v.err
       THEN v.comp.tail.state = "FAILED" /\ v.ops.loader = 0
       ELSE /\ v.comp.tail.state = "DONE"
            /\ \/ v.tm = w.tm /\ v.ops.loader = w.ops.loader
               \/ Serves(v)

LEMMA TailEndStep ==
  ASSUME NEW w \in Worlds, NEW e, Finished(e, w)
  PROVE  Ended(TailEnd(e), w) /\ TailEnd(e).om = e.om
<1> DEFINE v == TailEnd(e)
           t == IF e.err THEN Failed(e.comp.tail)
                ELSE Done(e.comp.tail, IF e.applied THEN "yes" ELSE "no")
           k == [e.comp EXCEPT !.tail = t]
           o == IF e.err THEN ClearActiveLoader(e.ops) ELSE e.ops
           u == [e EXCEPT !.comp = k, !.ops = o]
<1>1. /\ e \in Worlds /\ e.comp \in CompiledPaths /\ e.comp.tail \in Tails
      /\ e.ops \in Slots /\ e.tm.built \in Nat
  BY DEF Finished, Frame, Worlds, CompiledPaths, TensorManagers, TensorRecords
<1>2. t \in Tails /\ t.state = IF e.err THEN "FAILED" ELSE "DONE"
  BY <1>1, TailTypes
<1>3. v = u
  BY <1>1 DEF TailEnd, Worlds, CompiledPaths
<1> HIDE DEF t
<1>4. k \in CompiledPaths /\ k.tail = t /\ PathKept(k, e.comp)
  BY <1>1, <1>2 DEF CompiledPaths, PathKept
<1> HIDE DEF k
<1>5. /\ o \in Slots /\ o.armed = e.ops.armed /\ o.loader = IF e.err THEN 0 ELSE e.ops.loader
      /\ o.samples => e.ops.samples
  BY <1>1, SlotTypes, SlotSamples
<1> HIDE DEF o
<1>6. /\ u \in Worlds /\ u.om = e.om /\ u.tm = e.tm /\ u.comp = k /\ u.ops = o
      /\ u.err = e.err /\ u.col = e.col
  BY <1>1, <1>4, <1>5 DEF Worlds
<1> HIDE DEF u, v
<1>7. Frame(v, w)
  BY <1>1, <1>3, <1>5, <1>6 DEF Finished, Frame, Registered
<1>8. PathKept(v.comp, w.comp) /\ v.om \in {w.om, [w.om EXCEPT !.manual = FALSE]}
  BY <1>3, <1>4, <1>6 DEF Finished
<1>9. v.err => v.comp.tail.state = "FAILED" /\ v.ops.loader = 0
  BY <1>2, <1>3, <1>4, <1>5, <1>6
<1>10. ~v.err => /\ v.comp.tail.state = "DONE"
                 /\ \/ v.tm = w.tm /\ v.ops.loader = w.ops.loader
                    \/ Serves(v)
  BY <1>2, <1>3, <1>4, <1>5, <1>6 DEF Finished, Serves
<1>11. Carries(v, w)
  <2>1. Carries(v, e)
    BY <1>1, <1>3, <1>5, <1>6, CarriesSame DEF Drained
  <2>2. QED
    BY <1>1, <1>6, <1>3, <2>1, CarriesChain DEF Finished, Frame
<1>12. QED
  BY <1>3, <1>6, <1>7, <1>8, <1>9, <1>10, <1>11 DEF Ended, v

PassiveEnd(w, f) == CompleteReplanTail(w, LAMBDA v : FinishReplan(v, f))
ManualEnd(w, f)  == CompleteReplanTail(w, LAMBDA v : FinishManualUpdateReplan(v, f))

LEMMA EndSteps ==
  ASSUME NEW w \in Worlds, NEW f, ~w.err, Registered(w)
  PROVE  /\ Ended(PassiveEnd(w, f), w) /\ PassiveEnd(w, f).om = w.om
         /\ Ended(ManualEnd(w, f), w) /\ ManualEnd(w, f).om = [w.om EXCEPT !.manual = FALSE]
<1> DEFINE u == [w EXCEPT !.applied = FALSE]
<1>1. /\ u \in Worlds /\ u.om = w.om /\ u.tm = w.tm /\ u.comp = w.comp /\ u.ops = w.ops
      /\ ~u.err /\ u.col = w.col
  BY DEF Worlds
<1>2. PassiveEnd(w, f) = TailEnd(FinishReplan(u, f))
  BY DEF PassiveEnd, CompleteReplanTail, TailEnd
<1>3. ManualEnd(w, f) = TailEnd(FinishManualUpdateReplan(u, f))
  BY DEF ManualEnd, CompleteReplanTail, TailEnd
<1> HIDE DEF u
<1>4. Registered(u)
  BY <1>1 DEF Registered
<1>5. ASSUME NEW v, Ended(v, u)
      PROVE  Ended(v, w)
  <2>1. Carries(u, w)
    BY <1>1, CarriesSame DEF Drained
  <2>2. Carries(v, w)
    BY <1>1, <1>5, <2>1, CarriesChain DEF Ended, Frame
  <2>3. QED
    BY <1>1, <1>5, <2>2 DEF Ended, Frame
<1>6. /\ Finished(FinishReplan(u, f), u) /\ FinishReplan(u, f).om = w.om
      /\ Finished(FinishManualUpdateReplan(u, f), u)
      /\ FinishManualUpdateReplan(u, f).om = [w.om EXCEPT !.manual = FALSE]
  BY <1>1, <1>4, FinishReplanStep, FinishManualStep
<1>7. Ended(PassiveEnd(w, f), w) /\ PassiveEnd(w, f).om = w.om
  BY <1>1, <1>2, <1>5, <1>6, TailEndStep
<1>8. Ended(ManualEnd(w, f), w) /\ ManualEnd(w, f).om = [w.om EXCEPT !.manual = FALSE]
  BY <1>1, <1>3, <1>5, <1>6, TailEndStep
<1>9. QED
  BY <1>7, <1>8

(* One forward of the tail: it raises, moves on, or ends. *)
Ticked(v, w) ==
  /\ Frame(v, w) /\ Carries(v, w) /\ PathKept(v.comp, w.comp)
  /\ v.om \in {w.om, [w.om EXCEPT !.manual = FALSE]}
  /\ w.comp.tail.state = "FAILED" => v = Raise(w)
  /\ w.comp.tail.state \in {"IDLE", "DONE"} => v = w
  /\ IF v.err
       THEN v.comp.tail.state = "FAILED" /\ (v.ops.loader = 0 \/ v = Raise(w))
       ELSE /\ v.comp.tail.state # "FAILED"
            /\ \/ v.tm = w.tm /\ v.ops.loader = w.ops.loader
               \/ Serves(v)

(* The tail in front of its end. *)
TickedTail(w) ==
  LET tick == Tick(w.comp.tail, Measures(w))
  IN  [w EXCEPT !.comp.tail = tick.tail,
                !.ops = IF tick.record THEN EnableProfiling(@) ELSE @]

TailMoved(n, w) ==
  /\ n \in Worlds /\ n.om = w.om /\ n.tm = w.tm /\ n.err = w.err
  /\ n.col = w.col /\ n.applied = w.applied
  /\ Frame(n, w) /\ Carries(n, w) /\ PathKept(n.comp, w.comp) /\ n.ops.loader = w.ops.loader
  /\ n.comp.tail = Tick(w.comp.tail, Measures(w)).tail
  /\ n.comp.tail.state \in {"WARMING", "MEASURING"}

LEMMA TickedTailStep ==
  ASSUME NEW w \in Worlds, Registered(w), w.comp.tail.state \in {"WARMING", "MEASURING"}
  PROVE  TailMoved(TickedTail(w), w)
<1> DEFINE n == TickedTail(w)
           tick == Tick(w.comp.tail, Measures(w))
           k == [w.comp EXCEPT !.tail = tick.tail]
           o == IF tick.record THEN EnableProfiling(w.ops) ELSE w.ops
           u == [w EXCEPT !.comp = k, !.ops = o]
<1>1. /\ w.comp \in CompiledPaths /\ w.comp.tail \in Tails /\ w.ops \in Slots
      /\ Measures(w) \in Nat /\ w.tm.built \in Nat
  BY DEF Worlds, CompiledPaths, Managers, ConfigType, Measures, TensorManagers, TensorRecords
<1>2. tick.tail \in Tails /\ tick.tail.state \in {"WARMING", "MEASURING"}
  BY <1>1, TickTypes
<1>3. n = u
  BY DEF TickedTail, Worlds, CompiledPaths
<1> HIDE DEF tick
<1>4. k \in CompiledPaths /\ k.tail = tick.tail /\ PathKept(k, w.comp)
  BY <1>1, <1>2 DEF CompiledPaths, PathKept
<1>5. /\ o \in Slots /\ o.loader = w.ops.loader /\ o.armed = w.ops.armed
      /\ o.samples => w.ops.samples
  BY <1>1, SlotTypes, SlotSamples
<1> HIDE DEF k, o
<1>6. /\ u \in Worlds /\ u.om = w.om /\ u.tm = w.tm /\ u.err = w.err
      /\ u.col = w.col /\ u.applied = w.applied /\ u.comp = k /\ u.ops = o
  BY <1>4, <1>5 DEF Worlds
<1> HIDE DEF u
<1>7. Frame(n, w)
  BY <1>1, <1>3, <1>5, <1>6 DEF Frame, Registered
<1>8. Carries(n, w)
  BY <1>3, <1>5, <1>6, CarriesSame DEF Drained
<1>9. QED
  BY <1>2, <1>3, <1>4, <1>5, <1>6, <1>7, <1>8 DEF tick, TailMoved


PassiveTick(w, f) == AdvanceTail(w, LAMBDA v : FinishReplan(v, f))
ManualTick(w, f)  == AdvanceTail(w, LAMBDA v : FinishManualUpdateReplan(v, f))

LEMMA TickSteps ==
  ASSUME NEW w \in Worlds, NEW f, ~w.err, Registered(w)
  PROVE  /\ Ticked(PassiveTick(w, f), w) /\ PassiveTick(w, f).om = w.om
         /\ Ticked(ManualTick(w, f), w)
<1> DEFINE t == w.comp.tail
           n == TickedTail(w)
           complete == Tick(t, Measures(w)).complete
           rest(v) == CASE t.state = "FAILED" -> Raise(w)
                        [] t.state \in {"IDLE", "DONE"} -> w
                        [] t.state \in {"WARMING", "MEASURING"} ->
                             IF complete THEN v ELSE n
<1>1. w.tm.built \in Nat /\ t.state \in TailStates /\ w.om.manual \in BOOLEAN
  BY DEF Worlds, CompiledPaths, Tails, TensorManagers, TensorRecords, Managers
<1>2. PassiveTick(w, f) = rest(PassiveEnd(n, f))
  BY DEF PassiveTick, AdvanceTail, PassiveEnd, TickedTail
<1>3. ManualTick(w, f) = rest(ManualEnd(n, f))
  BY DEF ManualTick, AdvanceTail, ManualEnd, TickedTail
<1>4. CASE t.state = "FAILED"
  <2>1. PassiveTick(w, f) = Raise(w) /\ ManualTick(w, f) = Raise(w)
    BY <1>2, <1>3, <1>4
  <2>2. Frame(Raise(w), w) /\ Carries(Raise(w), w) /\ PathKept(Raise(w).comp, w.comp)
    BY <1>1, StepsStay, CarriesSame DEF Frame, PathKept, Registered, Drained
  <2>3. QED
    BY <1>4, <2>1, <2>2, StepsStay DEF Ticked
<1>5. CASE t.state \in {"IDLE", "DONE"}
  <2>1. PassiveTick(w, f) = w /\ ManualTick(w, f) = w
    BY <1>2, <1>3, <1>5
  <2>2. Frame(w, w) /\ Carries(w, w) /\ PathKept(w.comp, w.comp)
    BY <1>1, CarriesItself DEF Frame, PathKept, Registered
  <2>3. QED
    BY <1>5, <2>1, <2>2 DEF Ticked
<1>6. CASE t.state \in {"WARMING", "MEASURING"}
  <2>1. TailMoved(n, w)
    BY <1>6, TickedTailStep
  <2>2. /\ PassiveTick(w, f) = IF complete THEN PassiveEnd(n, f) ELSE n
        /\ ManualTick(w, f) = IF complete THEN ManualEnd(n, f) ELSE n
    BY <1>2, <1>3, <1>6
  <2> HIDE DEF complete, n
  <2>3. n \in Worlds /\ ~n.err /\ Registered(n) /\ n.om = w.om /\ Frame(n, w)
        /\ n.tm.on = w.tm.on /\ Carries(n, w)
    BY <2>1 DEF TailMoved, Frame
  <2>4. Ticked(n, w)
    BY <1>6, <2>1, <2>3 DEF TailMoved, Ticked
  <2>5. ASSUME NEW v, Ended(v, n)
        PROVE  Ticked(v, w)
    <3>1. v \in Worlds /\ Frame(v, n)
      BY <2>5 DEF Ended, Frame
    <3>2. Frame(v, w)
      BY <2>3, <3>1, FramesChain
    <3>3. PathKept(v.comp, w.comp)
      BY <2>1, <2>5 DEF Ended, TailMoved, PathKept
    <3>4. Carries(v, w)
      BY <2>3, <2>5, <3>1, CarriesChain DEF Ended
    <3>5. QED
      BY <1>6, <2>1, <2>3, <2>5, <3>2, <3>3, <3>4 DEF Ended, TailMoved, Ticked
  <2>6. /\ Ended(PassiveEnd(n, f), n) /\ PassiveEnd(n, f).om = n.om
        /\ Ended(ManualEnd(n, f), n)
    BY <2>3, EndSteps
  <2>7. QED
    BY <2>2, <2>3, <2>4, <2>5, <2>6
<1>7. QED
  BY <1>1, <1>4, <1>5, <1>6 DEF TailStates

(* A tail that is armed starts, or ends at once. *)
Requested(v, w) ==
  /\ Frame(v, w) /\ Carries(v, w) /\ PathKept(v.comp, w.comp)
  /\ ~w.comp.active => v = w
  /\ \E m \in BOOLEAN : v.om = [w.om EXCEPT !.manual = m]
  /\ IF v.err
       THEN v.comp.tail.state = "FAILED" /\ v.ops.loader = 0
       ELSE /\ v.comp.tail.state # "FAILED" \/ v = w
            /\ \/ v.tm = w.tm /\ v.ops.loader = w.ops.loader
               \/ Serves(v)

ArmedTail(w, credited, profiling) ==
  LET t == Arm(credited, profiling)
  IN  [w EXCEPT !.comp.tail = t,
                !.ops = IF t.state = "MEASURING" /\ profiling THEN EnableProfiling(@) ELSE @]

LEMMA ArmedTailStep ==
  ASSUME NEW w \in Worlds, Registered(w), NEW n \in {0, WarmupForwards}, NEW p \in BOOLEAN
  PROVE  /\ ArmedTail(w, n, p) \in Worlds /\ ArmedTail(w, n, p).om = w.om
         /\ ArmedTail(w, n, p).tm = w.tm /\ ArmedTail(w, n, p).err = w.err
         /\ ArmedTail(w, n, p).col = w.col
         /\ Frame(ArmedTail(w, n, p), w) /\ Carries(ArmedTail(w, n, p), w)
         /\ PathKept(ArmedTail(w, n, p).comp, w.comp)
         /\ ArmedTail(w, n, p).ops.loader = w.ops.loader
         /\ ArmedTail(w, n, p).comp.tail = Arm(n, p)
<1> DEFINE v == ArmedTail(w, n, p)
           t == Arm(n, p)
           k == [w.comp EXCEPT !.tail = t]
           o == IF t.state = "MEASURING" /\ p THEN EnableProfiling(w.ops) ELSE w.ops
           u == [w EXCEPT !.comp = k, !.ops = o]
<1>1. w.comp \in CompiledPaths /\ w.ops \in Slots /\ w.tm.built \in Nat
  BY DEF Worlds, TensorManagers, TensorRecords
<1>2. t \in Tails
  BY TailTypes
<1>3. v = u
  BY DEF ArmedTail, Worlds, CompiledPaths
<1> HIDE DEF t
<1>4. k \in CompiledPaths /\ k.tail = t /\ PathKept(k, w.comp)
  BY <1>1, <1>2 DEF CompiledPaths, PathKept
<1>5. /\ o \in Slots /\ o.loader = w.ops.loader /\ o.armed = w.ops.armed
      /\ o.samples => w.ops.samples
  BY <1>1, SlotTypes, SlotSamples
<1> HIDE DEF k, o
<1>6. /\ u \in Worlds /\ u.om = w.om /\ u.tm = w.tm /\ u.err = w.err
      /\ u.col = w.col /\ u.comp = k /\ u.ops = o
  BY <1>4, <1>5 DEF Worlds
<1> HIDE DEF u
<1>7. Frame(v, w)
  BY <1>1, <1>3, <1>5, <1>6 DEF Frame, Registered
<1>8. Carries(v, w)
  BY <1>3, <1>5, <1>6, CarriesSame DEF Drained
<1>9. QED
  BY <1>3, <1>4, <1>5, <1>6, <1>7, <1>8 DEF t

LEMMA RequestPassiveStep ==
  ASSUME NEW w \in Worlds, ~w.err, Registered(w)
  PROVE  Requested(RequestPassiveReplan(w), w) /\ RequestPassiveReplan(w).om = w.om
<1> DEFINE v == RequestPassiveReplan(w)
           a == ArmedTail(w, 0, TRUE)
<1>1. w.tm.built \in Nat /\ w.om \in Managers
  BY DEF Worlds, TensorManagers, TensorRecords
<1>2. w.om = [w.om EXCEPT !.manual = w.om.manual] /\ w.om.manual \in BOOLEAN
  BY <1>1 DEF Managers
<1>3. /\ a \in Worlds /\ a.om = w.om /\ a.tm = w.tm /\ a.err = w.err
      /\ Frame(a, w) /\ Carries(a, w) /\ PathKept(a.comp, w.comp) /\ a.ops.loader = w.ops.loader
      /\ a.comp.tail = Arm(0, TRUE)
  BY ArmedTailStep
<1>4. Arm(0, TRUE).state # "FAILED"
  BY TailTypes
<1>5. v \in {w, a, PassiveEnd(a, "none")} /\ (~w.comp.active => v = w)
  BY DEF RequestPassiveReplan, ArmReplanTail, ArmedTail, PassiveEnd
<1> HIDE DEF a
<1>6. Registered(a) /\ ~a.err
  BY <1>3 DEF Frame
<1>7. Ended(PassiveEnd(a, "none"), a) /\ PassiveEnd(a, "none").om = a.om
  BY <1>3, <1>6, EndSteps
<1>8. CASE v = w
  BY <1>1, <1>2, <1>8, CarriesItself DEF Requested, Frame, PathKept
<1>9. CASE v = a
  BY <1>2, <1>3, <1>4, <1>5, <1>6, <1>9 DEF Requested
<1>10. CASE v = PassiveEnd(a, "none")
  <2> HIDE DEF v
  <2>1. v \in Worlds /\ Frame(v, a)
    BY <1>7, <1>10 DEF Ended, Frame
  <2>2. Frame(v, w)
    BY <1>3, <2>1, FramesChain
  <2>3. PathKept(v.comp, w.comp)
    BY <1>3, <1>7, <1>10 DEF Ended, PathKept
  <2>4. Carries(v, w)
    BY <1>3, <1>7, <1>10, <2>1, CarriesChain DEF Ended, Frame
  <2>5. QED
    BY <1>2, <1>3, <1>5, <1>7, <1>10, <2>2, <2>3, <2>4 DEF Requested, Ended, v
<1>11. QED
  BY <1>5, <1>8, <1>9, <1>10


LEMMA BeginManualStep ==
  ASSUME NEW w \in Worlds, ~w.err, Registered(w)
  PROVE  Requested(BeginManualUpdateReplan(w), w)
<1> DEFINE v == BeginManualUpdateReplan(w)
           o == [w.om EXCEPT !.manual = TRUE]
           k == ArmReplayMeasure(ResetCollector(DrainMeasure(w.col)))
           u == [w EXCEPT !.om = o, !.col = k]
           a == ArmedTail(u, WarmupForwards, FALSE)
<1>1. /\ w.tm.built \in Nat /\ w.om \in Managers /\ w.col \in Collectors
      /\ w.om.manual \in BOOLEAN /\ w.om = [w.om EXCEPT !.manual = w.om.manual]
  BY DEF Worlds, TensorManagers, TensorRecords, Managers
<1>2. k \in Collectors /\ Drained(k, w.col)
  BY <1>1, CollectorTypes, DrainedSteps
<1>3. o \in Managers
  BY <1>1 DEF Managers
<1>4. [w EXCEPT !.col = ArmReplayMeasure(ResetCollector(DrainMeasure(@))), !.om.manual = TRUE] = u
  BY DEF Worlds
<1>5. v \in {w, a, ManualEnd(a, "none")} /\ (~w.comp.active => v = w)
  <2> DEFINE x == [w EXCEPT !.col = ArmReplayMeasure(ResetCollector(DrainMeasure(@))),
                            !.om.manual = TRUE]
             b == ArmedTail(x, WarmupForwards, FALSE)
  <2>1. v \in {w, b, ManualEnd(b, "none")} /\ (~w.comp.active => v = w)
    BY DEF BeginManualUpdateReplan, ArmReplanTail, ArmedTail, ManualEnd
  <2>2. b = a
    BY <1>4
  <2> HIDE DEF a, b
  <2>3. QED
    BY <2>1, <2>2
<1> HIDE DEF k, o
<1>6. /\ u \in Worlds /\ u.om = o /\ u.tm = w.tm /\ u.comp = w.comp /\ u.ops = w.ops
      /\ u.err = w.err /\ u.col = k
  BY <1>2, <1>3 DEF Worlds
<1> HIDE DEF u
<1>7. Registered(u) /\ Carries(u, w)
  BY <1>2, <1>6, CarriesSame DEF Registered
<1>8. /\ a \in Worlds /\ a.om = u.om /\ a.tm = u.tm /\ a.err = u.err
      /\ Frame(a, u) /\ Carries(a, u) /\ PathKept(a.comp, u.comp) /\ a.ops.loader = u.ops.loader
      /\ a.comp.tail = Arm(WarmupForwards, FALSE)
  BY <1>6, <1>7, ArmedTailStep
<1>9. Arm(WarmupForwards, FALSE).state # "FAILED"
  BY TailTypes
<1> HIDE DEF a
<1>10. /\ Registered(a) /\ ~a.err /\ Frame(a, w) /\ PathKept(a.comp, w.comp)
       /\ Carries(a, w)
  BY <1>6, <1>7, <1>8, CarriesChain DEF Frame
<1>11. Ended(ManualEnd(a, "none"), a) /\ ManualEnd(a, "none").om = [a.om EXCEPT !.manual = FALSE]
  BY <1>8, <1>10, EndSteps
<1>12. CASE v = w
  BY <1>1, <1>12, CarriesItself DEF Requested, Frame, PathKept
<1>13. CASE v = a
  <2>1. \E m \in BOOLEAN : v.om = [w.om EXCEPT !.manual = m]
    BY <1>6, <1>8, <1>13 DEF o
  <2>2. QED
    BY <1>5, <1>6, <1>8, <1>9, <1>10, <1>13, <2>1 DEF Requested
<1>14. CASE v = ManualEnd(a, "none")
  <2> HIDE DEF v
  <2>1. v \in Worlds /\ Frame(v, a)
    BY <1>11, <1>14 DEF Ended, Frame
  <2>2. Frame(v, w)
    BY <1>8, <1>10, <2>1, FramesChain
  <2>3. PathKept(v.comp, w.comp)
    BY <1>10, <1>11, <1>14 DEF Ended, PathKept
  <2>4. v.om = [w.om EXCEPT !.manual = FALSE]
    <3>1. [o EXCEPT !.manual = FALSE] = [w.om EXCEPT !.manual = FALSE]
      BY <1>1 DEF o, Managers
    <3>2. QED
      BY <1>6, <1>8, <1>11, <1>14, <3>1
  <2>5. Carries(v, w)
    BY <1>6, <1>8, <1>10, <1>11, <1>14, <2>1, CarriesChain DEF Ended, Frame
  <2>6. QED
    BY <1>5, <1>6, <1>8, <1>11, <1>14, <2>2, <2>3, <2>4, <2>5 DEF Requested, Ended, v
<1>15. QED
  BY <1>5, <1>12, <1>13, <1>14

------------------------------------------------------------------------------
(* The transitions. *)

HookFollows(o) == o.hooks \subseteq {o.handle}

Swapped(p, o, model, phase) ==
  /\ p.phase = phase /\ p.iter = 0 /\ p.model = model
  /\ p.hooks = {Hooked(p)} /\ p.handle = Hooked(p)
  /\ p.cfg = o.cfg /\ p.honored = o.honored /\ p.session = o.session
  /\ p.proxy = o.proxy /\ p.forwards = o.forwards /\ p.manual = o.manual
  /\ p.blocked = o.blocked /\ p.takeover = o.takeover

OmStep(v, w) ==
  /\ v \in Worlds /\ v.tm = w.tm /\ v.comp = w.comp /\ v.ops = w.ops
  /\ v.col = w.col /\ v.err = w.err /\ v.applied = w.applied

LEMMA OmChanges ==
  ASSUME NEW w \in Worlds, NEW o \in Managers
  PROVE  OmStep([w EXCEPT !.om = o], w) /\ [w EXCEPT !.om = o].om = o
BY DEF Worlds, OmStep

LEMMA HookStep ==
  ASSUME NEW o \in Managers, HookFollows(o)
  PROVE  LET p == InstallStateUpdateHook(o)
         IN  /\ p \in Managers /\ p.hooks = {Hooked(p)} /\ p.handle = Hooked(p)
             /\ p = [o EXCEPT !.serial = p.serial, !.hooks = p.hooks, !.handle = p.handle]
<1> DEFINE p == InstallStateUpdateHook(o)
           n == 1 - o.serial
           next == [o EXCEPT !.serial = n]
           h == <<o.model, n>>
<1>1. n \in {0, 1} /\ o.model \in Models
  BY DEF Managers
<1>2. h \in HookType
  BY <1>1 DEF HookType
<1>3. next \in Managers /\ Hooked(next) = h
  BY <1>1 DEF Managers, Hooked
<1>4. InstallStateUpdateHook(o) = [[o EXCEPT !.serial = n] EXCEPT
                                     !.hooks = (@ \ {o.handle}) \cup {Hooked(next)},
                                     !.handle = Hooked(next)]
  BY DEF InstallStateUpdateHook, Managers
<1>5. (next.hooks \ {o.handle}) \cup {h} = {h}
  BY DEF HookFollows, Managers
<1>6. p = [next EXCEPT !.hooks = {h}, !.handle = h]
  BY <1>3, <1>4, <1>5 DEF Managers
<1> HIDE DEF h, n
<1>7. {h} \in SUBSET HookType
  BY <1>2
<1>8. p \in Managers /\ p.hooks = {h} /\ p.handle = h /\ p.model = o.model /\ p.serial = n
  <2> HIDE DEF next
  <2>1. p \in Managers /\ p.hooks = {h} /\ p.handle = h /\ p.model = next.model
        /\ p.serial = next.serial
    BY <1>2, <1>3, <1>6, <1>7 DEF Managers
  <2>2. next.model = o.model /\ next.serial = n
    BY <1>1 DEF next, Managers
  <2>3. QED
    BY <2>1, <2>2
<1>9. Hooked(p) = h
  BY <1>8 DEF Hooked, h
<1>10. p = [o EXCEPT !.serial = p.serial, !.hooks = p.hooks, !.handle = p.handle]
  BY <1>6, <1>8 DEF Managers
<1>11. QED
  BY <1>8, <1>9, <1>10

LEMMA SwapStep ==
  ASSUME NEW w \in Worlds, NEW model \in Models, NEW phase \in Phases, NEW f, ~w.err,
         HookFollows(w.om)
  PROVE  LET v == SwapToNewModel(w, model, phase, f)
         IN  IF f = "swap" THEN v = Raise(w)
             ELSE OmStep(v, w) /\ Swapped(v.om, w.om, model, phase)
<1> DEFINE v == SwapToNewModel(w, model, phase, f)
           n == [w.om EXCEPT !.model = model]
           p == InstallStateUpdateHook(n)
           q == [p EXCEPT !.phase = phase, !.iter = 0]
<1>1. n \in Managers /\ HookFollows(n)
  BY DEF Worlds, Managers, HookFollows
<1>2. f # "swap" => v = [w EXCEPT !.om = q]
  BY DEF SwapToNewModel
<1>3. f = "swap" => v = Raise(w)
  BY DEF SwapToNewModel
<1>4. /\ p \in Managers /\ p.hooks = {Hooked(p)} /\ p.handle = Hooked(p)
      /\ p = [n EXCEPT !.serial = p.serial, !.hooks = p.hooks, !.handle = p.handle]
  BY <1>1, HookStep
<1>5. /\ p.model = model /\ p.cfg = w.om.cfg /\ p.honored = w.om.honored
      /\ p.session = w.om.session /\ p.proxy = w.om.proxy /\ p.forwards = w.om.forwards
      /\ p.manual = w.om.manual /\ p.blocked = w.om.blocked /\ p.takeover = w.om.takeover
  BY <1>4 DEF Worlds, Managers
<1> HIDE DEF p
<1>6. q \in Managers /\ Hooked(q) = Hooked(p)
  BY <1>4 DEF Managers, Hooked
<1>7. Swapped(q, w.om, model, phase)
  BY <1>4, <1>5, <1>6 DEF Swapped, Managers
<1> HIDE DEF q
<1>8. f # "swap" => OmStep(v, w) /\ v.om = q
  BY <1>2, <1>6, OmChanges
<1>9. QED
  BY <1>3, <1>7, <1>8


(* The settings of the tensor manager outlive its loaders. *)
SameSettings(t, s) ==
  /\ t.on = s.on /\ t.cfg = s.cfg /\ t.suspended = s.suspended /\ t.built >= s.built

ToProfile(v, w, f) ==
  /\ v \in Worlds /\ Rooted(v, w) /\ v.ops = w.ops /\ v.col = w.col /\ v.applied = w.applied
  /\ SameSettings(v.tm, w.tm) /\ v.tm.restored = w.tm.restored
  /\ v.err <=> f \in {"profile", "swap"}
  /\ ProfileTm(v.tm, w.tm, f = "profile")
  /\ IF v.err
       THEN v.om = w.om /\ v.comp = w.comp
       ELSE /\ \E model \in Models : Swapped(v.om, w.om, model, "PROFILING")
            /\ v.comp = OnEnterProfile(w.comp)

LEMMA TransitionToProfileStep ==
  ASSUME NEW w \in Worlds, NEW f, ~w.err, HookFollows(w.om)
  PROVE  ToProfile(TransitionToProfile(w, f), w, f)
<1> DEFINE v == TransitionToProfile(w, f)
           u == InitializeProfile(w, f)
           model == IF u.tm.restored THEN u.om.model ELSE ProfileModel(u)
           s == SwapToNewModel(u, model, "PROFILING", f)
           e == [s EXCEPT !.comp = OnEnterProfile(s.comp)]
<1>1. Profiled(u, w, f)
  BY InitializeProfileStep
<1>2. v = IF u.err THEN u ELSE IF s.err THEN s ELSE e
  BY DEF TransitionToProfile, Then
<1> HIDE DEF u
<1>3. /\ u \in Worlds /\ u.om = w.om /\ u.comp = w.comp /\ u.ops = w.ops /\ u.col = w.col
      /\ u.applied = w.applied /\ SameSettings(u.tm, w.tm) /\ u.tm.restored = w.tm.restored
      /\ (u.err <=> f = "profile") /\ ProfileTm(u.tm, w.tm, f = "profile")
  BY <1>1 DEF Profiled, SameSettings
<1>0. ASSUME NEW x, x.tm = u.tm, x.col = u.col
      PROVE  Rooted(x, w)
  BY <1>3, <1>0 DEF Rooted, Grounded, ProfileTm, SameSettings
<1>4. model \in Models /\ "PROFILING" \in Phases
  BY <1>3 DEF ProfileModel, Models, Worlds, Managers, Phases
<1> HIDE DEF model
<1>5. CASE u.err
  <2>1. v = u
    BY <1>2, <1>5
  <2>2. QED
    BY <1>0, <1>3, <1>5, <2>1 DEF ToProfile
<1>6. CASE ~u.err /\ f = "swap"
  <2>1. s = Raise(u)
    BY <1>6 DEF SwapToNewModel
  <2>2. v = s
    BY <1>2, <1>3, <1>6, <2>1, StepsStay
  <2>3. /\ s \in Worlds /\ s.om = u.om /\ s.comp = u.comp /\ s.ops = u.ops
        /\ s.col = u.col /\ s.applied = u.applied /\ s.tm = u.tm /\ s.err
    BY <1>3, <2>1, StepsStay DEF Raise, Worlds
  <2> HIDE DEF s, v
  <2>4. QED
    BY <1>0, <1>3, <1>6, <2>2, <2>3 DEF ToProfile, v
<1>7. CASE ~u.err /\ f # "swap"
  <2>1. OmStep(s, u) /\ Swapped(s.om, u.om, model, "PROFILING")
    BY <1>3, <1>4, <1>7, SwapStep
  <2> HIDE DEF s
  <2>2. /\ s \in Worlds /\ ~s.err /\ s.comp = w.comp /\ s.comp \in CompiledPaths
    BY <1>3, <1>7, <2>1 DEF OmStep, Worlds
  <2>3. OnEnterProfile(s.comp) \in CompiledPaths
    BY <2>2, PathTypes
  <2>4. /\ e \in Worlds /\ e.om = s.om /\ e.tm = s.tm /\ e.ops = s.ops /\ e.col = s.col
        /\ e.applied = s.applied /\ e.comp = OnEnterProfile(w.comp) /\ ~e.err
    BY <2>2, <2>3 DEF Worlds
  <2>5. v = e
    BY <1>2, <1>7, <2>2
  <2> HIDE DEF e, v
  <2>6. QED
    BY <1>0, <1>3, <1>4, <1>7, <2>1, <2>4, <2>5 DEF ToProfile, OmStep, v
<1>8. QED
  BY <1>3, <1>5, <1>6, <1>7

(* A loader that was there before stays fit or not; a new one is as the    *)
(* configuration says.                                                     *)
FitAfter(w) ==
  /\ w.tm.cfg.block
  /\ w.tm.restored => w.tm.loader # 0 /\ w.tm.kind = "infer"

(* Inference is reached, with or without a loader for the ops, or what     *)
(* failed left the manager where it was.                                   *)
ToInference(v, w, f) ==
  /\ v \in Worlds /\ Rooted(v, w) /\ Registered(v) /\ v.applied = w.applied
  /\ SameSettings(v.tm, w.tm) /\ ~v.tm.restored
  /\ Idle(v.tm) \subseteq Idle(w.tm)
  /\ InferenceTm(v, w, InferenceFails(w, f))
  /\ IF InferenceFails(w, f) \/ f = "swap"
       THEN v.err /\ v.om = w.om /\ v.comp = w.comp /\ v.ops = w.ops
       ELSE /\ \E o \in Managers :
                 /\ Swapped(o, w.om, UserModel(w), "INFERENCE")
                 /\ v.om = IF w.comp.active THEN [o EXCEPT !.forwards = "compiled"] ELSE o
            /\ v.err <=> (w.comp.active /\ ~FitAfter(w))
            /\ v.comp.active = w.comp.active /\ v.comp.replan = w.comp.replan
            /\ v.comp.profile = w.comp.profile /\ v.comp.warm = w.comp.warm
            /\ v.err => v.comp = w.comp
            /\ IF w.comp.active
                 THEN /\ v.ops.loader = (IF FitAfter(w) THEN v.tm.loader ELSE 0)
                      /\ ~FitAfter(w) => ~v.ops.samples
                 ELSE v.comp = w.comp /\ v.ops = w.ops
            /\ v.comp.tail.state \in {w.comp.tail.state, "DONE"}

LEMMA TransitionToInferenceStep ==
  ASSUME NEW w \in Worlds, NEW f, ~w.err, HookFollows(w.om), Registered(w)
  PROVE  ToInference(TransitionToInference(w, f), w, f)
<1> DEFINE v == TransitionToInference(w, f)
           u == InitializeInference(w, f)
           s == SwapToNewModel(u, UserModel(u), "INFERENCE", f)
           i == InstallCompiledForwards(s)
           e == OnEnterInference(i)
           o == [s.om EXCEPT !.forwards = "compiled"]
<1>1. InferenceMade(u, w, f)
  BY InitializeInferenceStep
<1>2. v = IF u.err THEN u ELSE IF s.err THEN s ELSE IF i.err THEN i ELSE e
  BY DEF TransitionToInference, Then
<1> HIDE DEF u, v
<1>3. /\ u \in Worlds /\ u.om = w.om /\ u.comp = w.comp /\ u.ops = w.ops
      /\ u.applied = w.applied /\ SameSettings(u.tm, w.tm) /\ ~u.tm.restored
      /\ Idle(u.tm) \subseteq Idle(w.tm)
      /\ (u.err <=> InferenceFails(w, f)) /\ InferenceTm(u, w, InferenceFails(w, f))
      /\ UserModel(u) = UserModel(w)
  BY <1>1 DEF InferenceMade, TmStep, SameSettings, UserModel
<1>4. UserModel(u) \in Models /\ "INFERENCE" \in Phases
  BY <1>3 DEF UserModel, Models, Worlds, Managers, Phases
<1>5. Registered(u) /\ w.tm.built \in Nat /\ u.tm.built \in Nat /\ w.ops.loader \in Nat
  BY <1>3 DEF Registered, SameSettings, Worlds, TensorManagers, TensorRecords, Slots
<1>0. ASSUME NEW x, x.tm = u.tm, x.col = u.col
      PROVE  Rooted(x, w)
  BY <1>0, <1>3 DEF Rooted, Grounded, InferenceTm, NewLoader, OwnWeights, Views, SameSettings
<1>6. CASE u.err
  <2>1. v = u
    BY <1>2, <1>6
  <2>2. QED
    BY <1>0, <1>3, <1>5, <1>6, <2>1 DEF ToInference, InferenceTm, NewLoader, v
<1>7. CASE ~u.err /\ f = "swap"
  <2>1. s = Raise(u)
    BY <1>7 DEF SwapToNewModel
  <2>2. v = s
    BY <1>2, <1>3, <1>7, <2>1, StepsStay
  <2>3. /\ s \in Worlds /\ s.om = u.om /\ s.comp = u.comp /\ s.ops = u.ops
        /\ s.col = u.col /\ s.applied = u.applied /\ s.tm = u.tm /\ s.err
    BY <1>3, <2>1, StepsStay DEF Raise, Worlds
  <2> HIDE DEF s
  <2>4. InferenceTm(v, w, InferenceFails(w, f))
    BY <1>3, <2>2, <2>3 DEF InferenceTm, NewLoader
  <2>5. QED
    BY <1>0, <1>3, <1>5, <1>7, <2>2, <2>3, <2>4 DEF ToInference, Registered, v
<1>8. CASE ~u.err /\ f # "swap"
  <2>1. OmStep(s, u) /\ Swapped(s.om, u.om, UserModel(u), "INFERENCE")
    BY <1>3, <1>4, <1>8, SwapStep
  <2> HIDE DEF s
  <2>2. s \in Worlds /\ ~s.err /\ s.om \in Managers
    BY <1>3, <1>8, <2>1 DEF OmStep, Worlds
  <2>3. o \in Managers
    BY <2>2 DEF Managers
  <2>4. i = IF s.comp.active THEN [s EXCEPT !.om = o] ELSE s
    BY <2>2 DEF InstallCompiledForwards, Worlds
  <2>5. OmStep(i, s) /\ i.om = IF s.comp.active THEN o ELSE s.om
    <3> HIDE DEF o
    <3>1. s.comp.active => OmStep(i, s) /\ i.om = o
      BY <2>2, <2>3, <2>4, OmChanges
    <3>2. ~s.comp.active => OmStep(i, s) /\ i.om = s.om
      BY <2>2, <2>4 DEF OmStep
    <3>3. QED
      BY <3>1, <3>2
  <2> HIDE DEF i
  <2>6. i \in Worlds /\ ~i.err
    BY <2>2, <2>5 DEF OmStep
  <2>7. Entered(e, i)
    BY <2>6, OnEnterInferenceStep
  <2>8. v = e
    BY <1>2, <1>8, <2>2, <2>6
  <2> HIDE DEF e
  <2>9. /\ v \in Worlds /\ v.tm = u.tm /\ v.col = u.col /\ v.applied = w.applied
        /\ v.om = i.om /\ i.tm = u.tm /\ i.comp = w.comp /\ i.ops = w.ops
    BY <1>3, <2>1, <2>5, <2>7, <2>8 DEF OmStep, Entered
  <2>10. InferenceTm(v, w, InferenceFails(w, f))
    BY <1>3, <2>9 DEF InferenceTm, NewLoader
  <2>11. Fit(i.tm) <=> FitAfter(w)
    BY <1>3, <1>5, <1>8, <2>9 DEF InferenceTm, NewLoader, Fit, FitAfter, SameSettings
  <2>12. \E p \in Managers :
            /\ Swapped(p, w.om, UserModel(w), "INFERENCE")
            /\ v.om = IF w.comp.active THEN [p EXCEPT !.forwards = "compiled"] ELSE p
    BY <1>3, <2>1, <2>2, <2>5, <2>9 DEF OmStep
  <2>13. v.ops.loader <= v.tm.built
    <3>1. v.tm.loader <= v.tm.built /\ 0 <= v.tm.built
      BY <2>9 DEF Worlds, TensorManagers, TensorRecords, InBounds
    <3>2. QED
      BY <1>3, <1>5, <2>7, <2>8, <2>9, <3>1 DEF Entered, Registered
  <2>14. QED
    BY <1>0, <1>3, <1>8, <2>7, <2>8, <2>9, <2>10, <2>11, <2>12, <2>13
    DEF ToInference, Entered, Registered, v
<1>9. QED
  BY <1>6, <1>7, <1>8


(* A manager in inference has a loader that is alive and fills the blocks  *)
(* the parameters are views of; a compiled session runs through it.        *)
Infers(v) ==
  /\ v.tm.loader # 0 /\ v.tm.loader \in v.tm.live /\ v.tm.kind = "infer"
  /\ v.tm.weights = Views(v.tm, 0)
  /\ v.comp.active => v.om.forwards = "compiled" /\ v.ops.loader = v.tm.loader

(* Only a session on blocks is compiled; another one keeps its forwards.   *)
Enters(v, w) ==
  /\ v.comp.active = w.comp.active
  /\ v.comp.active => v.tm.cfg.block
  /\ ~v.comp.active => v.comp = w.comp /\ v.om.forwards = w.om.forwards

Discovers(v, w) ==
  /\ v.om.phase = "DISCOVERY"
  /\ v.om.honored = IF w.om.cfg.skip THEN "no" ELSE "yes"
  /\ v.comp = w.comp /\ v.ops = w.ops
  /\ v.tm.loader = 0 /\ v.tm.kind = "warmup" /\ v.tm.trap = "warmup"
  /\ v.tm.weights = 0 /\ v.tm.live = w.tm.live
  /\ v.om.forwards = w.om.forwards

Profiles(v, w) ==
  /\ v.om.phase = "PROFILING" /\ w.om.cfg.skip /\ v.om.honored = "yes"
  /\ v.comp = OnEnterProfile(w.comp) /\ v.ops = w.ops
  /\ v.tm.trap = "profile" /\ v.tm.loader # 0 /\ v.tm.loader \in v.tm.live
  /\ v.tm.kind = IF v.tm.cfg.mode = "view" THEN "controller" ELSE "tensors"
  /\ v.tm.weights = IF v.tm.cfg.mode = "view" THEN v.tm.loader ELSE 0
  /\ v.om.forwards = w.om.forwards

ToWarmup(v, w) ==
  /\ v \in Worlds /\ Registered(v) /\ SameSettings(v.tm, w.tm) /\ Rooted(v, w)
  /\ Idle(v.tm) \subseteq w.tm.live
  /\ v.om.blocked = w.om.blocked /\ v.om.session = w.om.session
  /\ v.om.cfg = w.om.cfg /\ v.om.manual = w.om.manual
  /\ v.om.takeover = w.om.takeover
  /\ HookFollows(v.om)
  /\ \/ v.om.phase = w.om.phase /\ v.om.hooks = w.om.hooks
     \/ v.om.phase # "NOT_INITIALIZED"
  /\ ~v.err =>
       /\ v.om.hooks = {Hooked(v.om)} /\ v.om.iter = 0 /\ ~v.tm.restored
       /\ IF w.tm.restored
            THEN /\ v.om.phase = "INFERENCE" /\ Infers(v) /\ Enters(v, w)
                 /\ v.tm.loader > w.tm.built
            ELSE Discovers(v, w) \/ Profiles(v, w)

LEMMA HonoredStep ==
  ASSUME NEW w \in Worlds, NEW h \in {"unknown", "yes", "no"}
  PROVE  LET o == [w.om EXCEPT !.honored = h]
             v == [w EXCEPT !.om.honored = h]
         IN  o \in Managers /\ OmStep(v, w) /\ v.om = o
<1> DEFINE o == [w.om EXCEPT !.honored = h]
<1>1. o \in Managers
  BY DEF Worlds, Managers
<1>2. [w EXCEPT !.om.honored = h] = [w EXCEPT !.om = o]
  BY DEF Worlds
<1> HIDE DEF o
<1>3. QED
  BY <1>1, <1>2, OmChanges DEF o

LEMMA RestoredWarmup ==
  ASSUME NEW w \in Worlds, NEW f, ~w.err, HookFollows(w.om), Registered(w), w.tm.restored
  PROVE  ToWarmup(TransitionToWarmup(w, f), w)
<1> DEFINE v == TransitionToWarmup(w, f)
           a == SetModel(w)
           b == InitializeWarmup(a, f)
           c == [b EXCEPT !.om.honored = "yes"]
           d == TransitionToInference(c, f)
<1>1. Kept(a, w) /\ a.tm.weights = 0
  BY SetModelStep
<1>2. /\ a \in Worlds /\ ~a.err /\ a.om = w.om /\ a.comp = w.comp /\ a.ops = w.ops
      /\ a.tm.restored /\ a.tm.live = w.tm.live /\ a.tm.built = w.tm.built
      /\ a.tm.on = w.tm.on /\ a.tm.cfg = w.tm.cfg /\ a.tm.suspended = w.tm.suspended
  BY <1>1 DEF Kept, TmStep
<1>3. v = IF b.err THEN b ELSE IF c.err THEN c ELSE d
  BY <1>2 DEF TransitionToWarmup, Then, SetModel
<1> HIDE DEF a
<1>4. WarmedUp(b, a, f)
  BY <1>2, InitializeWarmupStep
<1> HIDE DEF b
<1>5. /\ b \in Worlds /\ b.om = w.om /\ b.comp = w.comp /\ b.ops = w.ops
      /\ SameSettings(b.tm, w.tm) /\ b.tm.restored /\ Idle(b.tm) \subseteq w.tm.live
  BY <1>2, <1>4 DEF WarmedUp, SameSettings
<1>6. ~b.err => /\ b.tm.loader # 0 /\ b.tm.loader \in b.tm.live /\ b.tm.kind = "infer"
                /\ b.tm.weights = Views(b.tm, 0) /\ b.tm.loader > w.tm.built
  <2>1. a.tm.built \in Nat
    BY <1>2 DEF Worlds, TensorManagers, TensorRecords
  <2>2. QED
    BY <1>1, <1>2, <1>4, <2>1 DEF WarmedUp, NewLoader, Views
<1>0. Rooted(b, w)
  <2>1. a.col = w.col /\ a.tm.cfg = w.tm.cfg /\ b.tm.cfg = w.tm.cfg /\ b.tm.on = w.tm.on
    BY <1>1, <1>2, <1>5 DEF Kept, SameSettings
  <2>2. CASE b.err
    <3>1. b.col = w.col /\ b.tm.kind = "none" /\ b.tm.weights = 0
      BY <1>1, <1>2, <1>4, <2>1, <2>2 DEF WarmedUp
    <3>2. QED
      BY <2>1, <3>1 DEF Rooted, Grounded
  <2>3. CASE ~b.err
    <3>1. /\ b.tm.kind = "infer" /\ (~w.tm.cfg.block => b.tm.weights = 0)
          /\ b.col.durable = w.col.durable /\ (b.col.enabled => w.tm.cfg.block)
      BY <1>1, <1>2, <1>4, <2>1, <2>3 DEF WarmedUp, NewLoader
    <3>2. QED
      BY <2>1, <3>1 DEF Rooted, Grounded
  <2>4. QED
    BY <2>2, <2>3
<1>7. w.tm.built \in Nat /\ b.tm.built \in Nat /\ w.ops.loader \in Nat
  BY <1>5 DEF Worlds, TensorManagers, TensorRecords, Slots
<1>8. CASE b.err
  <2>1. v = b
    BY <1>3, <1>8
  <2> HIDE DEF v
  <2>2. Registered(b)
    BY <1>5, <1>7 DEF Registered, SameSettings
  <2>3. QED
    BY <1>0, <1>5, <1>8, <2>1, <2>2 DEF ToWarmup, v
<1>9. CASE ~b.err
  <2>1. OmStep(c, b) /\ c.om = [b.om EXCEPT !.honored = "yes"]
    BY <1>5, HonoredStep
  <2>2. /\ c \in Worlds /\ ~c.err /\ c.tm = b.tm /\ c.comp = w.comp /\ c.ops = w.ops
        /\ HookFollows(c.om) /\ Registered(c) /\ c.om.hooks = w.om.hooks
        /\ c.om.phase = w.om.phase /\ c.om.blocked = w.om.blocked
        /\ c.om.session = w.om.session /\ c.om.cfg = w.om.cfg
        /\ c.om.manual = w.om.manual /\ c.om.takeover = w.om.takeover
        /\ c.om.forwards = w.om.forwards /\ c.col = b.col
    BY <1>5, <1>7, <1>9, <2>1
    DEF OmStep, HookFollows, Registered, SameSettings, Worlds, Managers
  <2>3. v = d
    BY <1>3, <1>9, <2>2
  <2> HIDE DEF c
  <2>4. ToInference(d, c, f)
    BY <2>2, TransitionToInferenceStep
  <2> HIDE DEF d
  <2>5. /\ d \in Worlds /\ Registered(d) /\ SameSettings(d.tm, w.tm) /\ ~d.tm.restored
        /\ Idle(d.tm) \subseteq w.tm.live
        /\ d.tm.loader = b.tm.loader /\ d.tm.kind = b.tm.kind /\ d.tm.live = b.tm.live
        /\ d.tm.weights = b.tm.weights
    <3>1. d.tm.built \in Nat
      BY <2>4 DEF ToInference, Worlds, TensorManagers, TensorRecords
    <3>2. QED
      BY <1>5, <1>7, <2>2, <2>4, <3>1 DEF ToInference, InferenceTm, SameSettings
  <2>0. Rooted(d, w)
    <3>1. b.tm.on = w.tm.on /\ b.tm.cfg = w.tm.cfg
      BY <1>5 DEF SameSettings
    <3>2. Rooted(c, w)
      BY <1>0, <2>2 DEF Rooted, Grounded
    <3>3. QED
      BY <2>2, <2>4, <3>1, <3>2 DEF ToInference, Rooted
  <2>6. CASE f = "swap"
    <3>1. d.err /\ d.om = c.om
      BY <2>4, <2>6 DEF ToInference
    <3>2. QED
      BY <2>0, <2>2, <2>3, <2>5, <3>1 DEF ToWarmup
  <2>7. CASE f # "swap"
    <3>1. PICK o \in Managers :
             /\ Swapped(o, c.om, UserModel(c), "INFERENCE")
             /\ d.om = IF c.comp.active THEN [o EXCEPT !.forwards = "compiled"] ELSE o
      BY <1>5, <2>2, <2>4, <2>7 DEF ToInference, InferenceFails
    <3>2. /\ d.om.phase = "INFERENCE" /\ d.om.hooks = {Hooked(d.om)}
          /\ d.om.handle = Hooked(d.om) /\ d.om.iter = 0
          /\ d.om.blocked = w.om.blocked /\ d.om.session = w.om.session
          /\ d.om.cfg = w.om.cfg /\ d.om.manual = w.om.manual
          /\ d.om.takeover = w.om.takeover
          /\ IF c.comp.active THEN d.om.forwards = "compiled"
                              ELSE d.om.forwards = w.om.forwards
      BY <2>2, <3>1 DEF Swapped, Hooked, Managers
    <3>3. HookFollows(d.om)
      BY <3>2 DEF HookFollows
    <3>4. ~d.err => Infers(d)
      <4>1. ASSUME ~d.err, d.comp.active
            PROVE  d.ops.loader = d.tm.loader
        BY <1>5, <2>2, <2>4, <2>7, <4>1
        DEF ToInference, InferenceFails
      <4>2. d.comp.active = c.comp.active
        BY <2>2, <2>4, <2>7, <1>5 DEF ToInference, InferenceFails
      <4>3. d.tm.weights = Views(d.tm, 0)
        BY <1>6, <1>9, <2>5, <1>5 DEF Views, SameSettings
      <4>4. QED
        BY <1>6, <1>9, <2>5, <3>2, <4>1, <4>2, <4>3 DEF Infers
    <3>5. ~d.err => Enters(d, w)
      <4>1. /\ d.comp.active = c.comp.active
            /\ ~d.err /\ c.comp.active => FitAfter(c)
            /\ ~c.comp.active => d.comp = c.comp
        BY <1>5, <2>2, <2>4, <2>7 DEF ToInference, InferenceFails
      <4>2. FitAfter(c) => d.tm.cfg.block
        BY <1>5, <2>2, <2>5 DEF FitAfter, SameSettings
      <4>3. QED
        BY <2>2, <3>2, <4>1, <4>2 DEF Enters
    <3>6. QED
      BY <1>5, <1>6, <1>9, <2>0, <2>2, <2>3, <2>5, <3>2, <3>3, <3>4, <3>5 DEF ToWarmup
  <2>8. QED
    BY <2>6, <2>7
<1>10. QED
  BY <1>8, <1>9

LEMMA PlainWarmup ==
  ASSUME NEW w \in Worlds, NEW f, ~w.err, HookFollows(w.om), Registered(w), ~w.tm.restored
  PROVE  ToWarmup(TransitionToWarmup(w, f), w)
<1> DEFINE v == TransitionToWarmup(w, f)
           a == SetModel(w)
           b == InitializeWarmup(a, f)
           s == SwapToNewModel(b, UserModel(b), "DISCOVERY", f)
           y == [s EXCEPT !.om.honored = "yes"]
           n == [s EXCEPT !.om.honored = "no"]
           d == TransitionToProfile(y, f)
<1>1. Kept(a, w) /\ a.tm.weights = 0
  BY SetModelStep
<1>2. /\ a \in Worlds /\ ~a.err /\ ~a.tm.restored /\ a.om = w.om /\ a.comp = w.comp
      /\ a.ops = w.ops /\ SameSettings(a.tm, w.tm) /\ a.tm.live = w.tm.live
      /\ a.tm.weights = 0
  BY <1>1 DEF Kept, TmStep, SameSettings
<1>3. v = IF b.err THEN b ELSE IF s.err THEN s
          ELSE IF ~w.om.cfg.skip THEN y ELSE IF ~s.om.cfg.reachable THEN n ELSE d
  BY DEF TransitionToWarmup, Then
<1> HIDE DEF a
<1>4. WarmedUp(b, a, f)
  BY <1>2, InitializeWarmupStep
<1> HIDE DEF b
<1>5. /\ b \in Worlds /\ ~b.err /\ b.om = w.om /\ b.comp = w.comp /\ b.ops = w.ops
      /\ SameSettings(b.tm, w.tm) /\ ~b.tm.restored /\ b.tm.loader = 0
      /\ b.tm.kind = "warmup" /\ b.tm.trap = "warmup" /\ b.tm.weights = 0
      /\ b.tm.live = w.tm.live
  <2>1. a.tm.built \in Nat /\ w.tm.built \in Nat /\ b.tm.built \in Nat
    BY <1>2, <1>4 DEF WarmedUp, Worlds, TensorManagers, TensorRecords
  <2>2. QED
    BY <1>2, <1>4, <2>1 DEF WarmedUp, SameSettings
<1>0. Rooted(b, w)
  <2>1. b.col = w.col
    BY <1>1, <1>2, <1>4 DEF WarmedUp, Kept
  <2>2. QED
    BY <1>5, <2>1 DEF SameSettings, Rooted, Grounded
<1>6. Registered(b)
  <2>1. w.tm.built \in Nat /\ b.tm.built \in Nat /\ w.ops.loader \in Nat
    BY <1>5 DEF Worlds, TensorManagers, TensorRecords, Slots
  <2>2. QED
    BY <1>5, <2>1 DEF Registered, SameSettings
<1>7. UserModel(b) \in Models /\ "DISCOVERY" \in Phases
  BY <1>5 DEF UserModel, Models, Worlds, Managers, Phases
<1>8. CASE f = "swap"
  <2>1. s = Raise(b)
    BY <1>8 DEF SwapToNewModel
  <2>2. v = s
    BY <1>3, <1>5, <2>1, StepsStay
  <2>3. /\ s \in Worlds /\ s.om = b.om /\ s.tm = b.tm /\ s.comp = b.comp
        /\ s.ops = b.ops /\ s.err /\ s.col = b.col
    BY <1>5, <2>1, StepsStay
  <2> HIDE DEF s, v
  <2>4. QED
    <3>1. Rooted(v, w)
      BY <1>0, <2>2, <2>3 DEF Rooted, Grounded, v
    <3>2. QED
      BY <1>5, <1>6, <2>2, <2>3, <3>1 DEF ToWarmup, Registered, Idle, v
<1>9. CASE f # "swap"
  <2>1. OmStep(s, b) /\ Swapped(s.om, b.om, UserModel(b), "DISCOVERY")
    BY <1>5, <1>7, <1>9, SwapStep
  <2> HIDE DEF s
  <2>2. s \in Worlds /\ ~s.err /\ s.tm = b.tm /\ s.comp = w.comp /\ s.ops = w.ops
        /\ s.col = b.col
    BY <1>5, <2>1 DEF OmStep
  <2> DEFINE Quiet(q, h) ==
        /\ q \in Worlds /\ ~q.err /\ q.tm = b.tm /\ q.col = b.col /\ q.comp = w.comp /\ q.ops = w.ops
        /\ q.om.phase = "DISCOVERY" /\ q.om.honored = h /\ q.om.iter = 0
        /\ q.om.hooks = {Hooked(q.om)} /\ HookFollows(q.om)
        /\ q.om.blocked = w.om.blocked /\ q.om.session = w.om.session
        /\ q.om.cfg = w.om.cfg /\ q.om.manual = w.om.manual
        /\ q.om.takeover = w.om.takeover /\ q.om.forwards = w.om.forwards
  <2>3. ASSUME NEW h \in {"unknown", "yes", "no"}
        PROVE  Quiet([s EXCEPT !.om.honored = h], h)
    <3> DEFINE o == [s.om EXCEPT !.honored = h]
               q == [s EXCEPT !.om.honored = h]
    <3>1. o \in Managers /\ OmStep(q, s) /\ q.om = o
      BY <2>2, HonoredStep
    <3>2. s.om \in Managers
      BY <2>2 DEF Worlds
    <3>3. /\ o.phase = "DISCOVERY" /\ o.honored = h /\ o.iter = 0
          /\ o.hooks = {Hooked(o)} /\ o.handle = Hooked(o)
          /\ o.blocked = w.om.blocked /\ o.session = w.om.session
          /\ o.cfg = w.om.cfg /\ o.manual = w.om.manual
          /\ o.takeover = w.om.takeover /\ o.forwards = w.om.forwards
      BY <1>5, <2>1, <3>2 DEF Swapped, Hooked, Managers
    <3> HIDE DEF o, q
    <3>4. QED
      BY <2>2, <3>1, <3>3 DEF OmStep, HookFollows, q
  <2>4. Quiet(y, "yes") /\ Quiet(n, "no")
    BY <2>3
  <2>0. Rooted(y, w) /\ Rooted(n, w)
    BY <1>0, <2>4 DEF Rooted, Grounded
  <2>5. s.om.cfg = w.om.cfg
    BY <1>5, <2>1 DEF Swapped
  <2> HIDE DEF y, n
  <2>6. CASE ~w.om.cfg.skip
    <3>1. v = y
      BY <1>3, <1>5, <2>2, <2>6
    <3> HIDE DEF v
    <3>2. QED
      BY <1>5, <1>6, <2>0, <2>4, <2>6, <3>1 DEF ToWarmup, Discovers, Registered, Idle, v
  <2>7. CASE w.om.cfg.skip /\ ~s.om.cfg.reachable
    <3>1. v = n
      BY <1>3, <1>5, <2>2, <2>7
    <3> HIDE DEF v
    <3>2. QED
      BY <1>5, <1>6, <2>0, <2>4, <2>7, <3>1 DEF ToWarmup, Discovers, Registered, Idle, v
  <2>8. CASE w.om.cfg.skip /\ s.om.cfg.reachable
    <3>1. v = d
      BY <1>3, <1>5, <2>2, <2>8
    <3>2. ToProfile(d, y, f)
      BY <2>4, TransitionToProfileStep
    <3> HIDE DEF d, v
    <3>3. /\ d \in Worlds /\ SameSettings(d.tm, w.tm) /\ d.ops = w.ops
          /\ ~d.tm.restored /\ Idle(d.tm) \subseteq w.tm.live
          /\ d.tm.built \in Nat /\ w.tm.built \in Nat /\ b.tm.built \in Nat
          /\ w.ops.loader \in Nat
      <4>1. d.tm.built \in Nat /\ w.tm.built \in Nat /\ b.tm.built \in Nat
            /\ w.ops.loader \in Nat
        BY <1>5, <3>2 DEF ToProfile, Worlds, TensorManagers, TensorRecords, Slots
      <4>2. Idle(d.tm) \subseteq w.tm.live
        BY <1>5, <2>4, <3>2 DEF ToProfile, ProfileTm, Idle
      <4>3. QED
        BY <1>5, <2>4, <3>2, <4>1, <4>2 DEF ToProfile, SameSettings
    <3>4. Registered(d)
      BY <1>5, <1>6, <2>4, <3>2, <3>3 DEF ToProfile, Registered, SameSettings
    <3>0. Rooted(d, w)
      BY <1>5, <2>0, <2>4, <3>2 DEF ToProfile, Rooted, SameSettings
    <3>5. CASE d.err
      <4>1. d.om = y.om
        BY <3>2, <3>5 DEF ToProfile
      <4>2. QED
        BY <2>4, <3>0, <3>1, <3>3, <3>4, <3>5, <4>1 DEF ToWarmup, v
    <3>6. CASE ~d.err
      <4>1. f \notin {"profile", "swap"}
        BY <3>2, <3>6 DEF ToProfile
      <4>2. PICK model \in Models : Swapped(d.om, y.om, model, "PROFILING")
        BY <3>2, <3>6 DEF ToProfile
      <4>3. d.comp = OnEnterProfile(w.comp)
        BY <2>4, <3>2, <3>6 DEF ToProfile
      <4>4. d.tm.loader # 0 /\ d.tm.loader \in d.tm.live
        BY <1>5, <2>4, <3>2, <3>3, <4>1 DEF ToProfile, ProfileTm
      <4>5. /\ d.tm.trap = "profile"
            /\ d.tm.kind = IF d.tm.cfg.mode = "view" THEN "controller" ELSE "tensors"
            /\ d.tm.weights = IF d.tm.cfg.mode = "view" THEN d.tm.loader ELSE 0
        BY <1>5, <2>4, <3>2, <4>1 DEF ToProfile, ProfileTm, SameSettings
      <4>6. /\ d.om.phase = "PROFILING" /\ d.om.honored = "yes" /\ d.om.iter = 0
            /\ d.om.hooks = {Hooked(d.om)} /\ HookFollows(d.om)
            /\ d.om.blocked = w.om.blocked /\ d.om.session = w.om.session
            /\ d.om.cfg = w.om.cfg /\ d.om.manual = w.om.manual
            /\ d.om.takeover = w.om.takeover /\ d.om.forwards = w.om.forwards
        BY <2>4, <4>2 DEF Swapped, HookFollows
      <4>7. Profiles(d, w)
        BY <2>8, <3>3, <4>3, <4>4, <4>5, <4>6 DEF Profiles
      <4>8. QED
        BY <3>0, <3>1, <3>3, <3>4, <3>6, <4>6, <4>7 DEF ToWarmup, v
    <3>7. QED
      BY <3>5, <3>6
  <2>9. QED
    BY <2>6, <2>7, <2>8
<1>10. QED
  BY <1>8, <1>9

LEMMA TransitionToWarmupStep ==
  ASSUME NEW w \in Worlds, NEW f, ~w.err, HookFollows(w.om), Registered(w)
  PROVE  ToWarmup(TransitionToWarmup(w, f), w)
BY RestoredWarmup, PlainWarmup

------------------------------------------------------------------------------
(* The public calls. *)

HookStands(o) == o.hooks = {Hooked(o)} /\ HookFollows(o)

LEMMA HookStays ==
  ASSUME NEW o \in Managers, NEW p \in Managers, HookStands(o),
         p.hooks = o.hooks, p.handle = o.handle, p.model = o.model, p.serial = o.serial
  PROVE  HookStands(p)
BY DEF HookStands, HookFollows, Hooked

(* What a forward or a replay may do to a manager that serves. *)
Moved(v, w, f) ==
  /\ v \in Worlds /\ Registered(v) /\ SameSettings(v.tm, w.tm)
  /\ v.om.phase # "NOT_INITIALIZED" /\ HookStands(v.om)
  /\ v.om.blocked = w.om.blocked
  /\ v.om.phase \in {"DISCOVERY", "PROFILING"} => w.om.phase \in {"DISCOVERY", "PROFILING"}
  /\ v.tm.restored => w.tm.restored
  /\ IF w.om.phase = "DISCOVERY" THEN Idle(v.tm) \subseteq w.tm.live
                                 ELSE Idle(v.tm) \subseteq Idle(w.tm)
  /\ v.om.phase = "DISCOVERY" =>
       /\ w.om.phase = "DISCOVERY"
       /\ v.tm.loader \in {0, w.tm.loader} \/ f = "swap"

LEMMA IdleIsLive ==
  ASSUME NEW v, NEW w
  PROVE  Idle(v.tm) \subseteq Idle(w.tm) => Idle(v.tm) \subseteq w.tm.live
BY DEF Idle

(* A step that leaves the tensor manager and the registry's loader alone. *)
LEMMA Stands ==
  ASSUME NEW w \in Worlds, NEW v \in Worlds, NEW f, Registered(w), HookStands(w.om),
         w.om.phase # "NOT_INITIALIZED",
         v.tm = w.tm, v.ops.loader = w.ops.loader, v.om.phase = w.om.phase,
         v.om.hooks = w.om.hooks, v.om.handle = w.om.handle, v.om.model = w.om.model,
         v.om.serial = w.om.serial, v.om.blocked = w.om.blocked
  PROVE  Moved(v, w, f)
<1>1. w.om \in Managers /\ v.om \in Managers
  BY DEF Worlds
<1>2. HookStands(v.om)
  BY <1>1, HookStays
<1>3. w.tm.built \in Nat
  BY DEF Worlds, TensorManagers, TensorRecords
<1>4. QED
  BY <1>2, <1>3, IdleIsLive DEF Moved, Registered, SameSettings

LEMMA CountStep ==
  ASSUME NEW w \in Worlds, NEW f, ~w.err, Registered(w), HookStands(w.om),
         w.om.phase \in {"DISCOVERY", "PROFILING"}
  PROVE  Moved(Count(w, f), w, f)
<1> DEFINE o == [w.om EXCEPT !.iter = @ + 1]
           c == [w EXCEPT !.om.iter = @ + 1]
           p == TransitionToProfile(c, f)
           i == TransitionToInference(c, f)
<1>1. o \in Managers
  BY DEF Worlds, Managers
<1>2. c = [w EXCEPT !.om = o]
  BY DEF Worlds
<1>3. OmStep(c, w) /\ c.om = o
  <2> HIDE DEF o
  <2>1. QED
    BY <1>1, <1>2, OmChanges
<1>4. /\ o.phase = w.om.phase /\ o.hooks = w.om.hooks /\ o.handle = w.om.handle
      /\ o.model = w.om.model /\ o.serial = w.om.serial /\ o.blocked = w.om.blocked
  BY DEF Worlds, Managers
<1>5. Count(w, f) = IF DiscoveryDue(c) THEN p ELSE IF ProfilingDue(c) THEN i ELSE c
  BY DEF Count
<1> HIDE DEF o, c
<1>6. /\ c \in Worlds /\ ~c.err /\ c.tm = w.tm /\ c.ops = w.ops
      /\ Registered(c) /\ w.om \in Managers
  BY <1>3 DEF OmStep, Registered, Worlds
<1>7. HookStands(c.om)
  BY <1>1, <1>3, <1>4, <1>6, HookStays
<1>8. HookFollows(c.om) /\ c.om.phase = w.om.phase /\ c.om.blocked = w.om.blocked
  BY <1>3, <1>4, <1>7 DEF HookStands
<1>9. w.tm.built \in Nat /\ w.ops.loader \in Nat
  BY DEF Worlds, TensorManagers, TensorRecords, Slots
<1>10. CASE DiscoveryDue(c)
  <2>1. ToProfile(p, c, f)
    BY <1>6, <1>8, TransitionToProfileStep
  <2> HIDE DEF p
  <2>2. w.om.phase = "DISCOVERY"
    BY <1>8, <1>10 DEF DiscoveryDue
  <2>3. p \in Worlds /\ SameSettings(p.tm, w.tm) /\ p.tm.restored = w.tm.restored
        /\ p.ops = w.ops /\ ProfileTm(p.tm, w.tm, f = "profile")
    BY <1>6, <2>1 DEF ToProfile
  <2>4. Registered(p)
    <3>1. p.tm.built \in Nat
      BY <2>3 DEF Worlds, TensorManagers, TensorRecords
    <3>2. QED
      BY <1>6, <1>9, <2>3, <3>1 DEF Registered, SameSettings
  <2>5. Idle(p.tm) \subseteq w.tm.live
    BY <2>3 DEF ProfileTm, Idle
  <2>6. CASE p.err
    <3>1. p.om = c.om /\ f \in {"profile", "swap"}
      BY <2>1, <2>6 DEF ToProfile
    <3>2. p.tm.loader \in {0, w.tm.loader} \/ f = "swap"
      BY <2>3, <3>1 DEF ProfileTm
    <3>3. QED
      BY <1>5, <1>7, <1>8, <1>10, <2>2, <2>3, <2>4, <2>5, <3>1, <3>2 DEF Moved
  <2>7. CASE ~p.err
    <3>1. PICK model \in Models : Swapped(p.om, c.om, model, "PROFILING")
      BY <2>1, <2>7 DEF ToProfile
    <3>2. /\ p.om.phase = "PROFILING" /\ p.om.blocked = w.om.blocked
          /\ HookStands(p.om)
      BY <1>8, <3>1 DEF Swapped, HookStands, HookFollows
    <3>3. QED
      BY <1>5, <1>10, <2>2, <2>3, <2>4, <2>5, <3>2 DEF Moved
  <2>8. QED
    BY <2>6, <2>7
<1>11. CASE ~DiscoveryDue(c) /\ ProfilingDue(c)
  <2>1. ToInference(i, c, f)
    BY <1>6, <1>8, TransitionToInferenceStep
  <2> HIDE DEF i
  <2>2. w.om.phase = "PROFILING"
    BY <1>8, <1>11 DEF ProfilingDue
  <2>3. i \in Worlds /\ Registered(i) /\ SameSettings(i.tm, w.tm) /\ ~i.tm.restored
        /\ Idle(i.tm) \subseteq Idle(w.tm)
    BY <1>6, <2>1 DEF ToInference
  <2>4. CASE InferenceFails(c, f) \/ f = "swap"
    <3>1. i.om = c.om
      BY <2>1, <2>4 DEF ToInference
    <3>2. QED
      BY <1>5, <1>7, <1>8, <1>11, <2>2, <2>3, <3>1 DEF Moved
  <2>5. CASE ~InferenceFails(c, f) /\ f # "swap"
    <3>1. PICK s \in Managers :
             /\ Swapped(s, c.om, UserModel(c), "INFERENCE")
             /\ i.om = IF c.comp.active THEN [s EXCEPT !.forwards = "compiled"] ELSE s
      BY <2>1, <2>5 DEF ToInference
    <3>2. /\ i.om.phase = "INFERENCE" /\ i.om.blocked = w.om.blocked
          /\ i.om.hooks = {Hooked(i.om)} /\ i.om.handle = Hooked(i.om)
      BY <1>8, <3>1 DEF Swapped, Hooked, Managers
    <3>3. QED
      BY <1>5, <1>11, <2>2, <2>3, <3>2 DEF Moved, HookStands, HookFollows
  <2>6. QED
    BY <2>4, <2>5
<1>12. CASE ~DiscoveryDue(c) /\ ~ProfilingDue(c)
  <2>1. Moved(c, w, f)
    BY <1>3, <1>4, <1>6, Stands
  <2>2. QED
    BY <1>5, <1>12, <2>1
<1>13. QED
  BY <1>10, <1>11, <1>12

(* Reading the handles changes the collector alone. *)
LEMMA TimingStep ==
  ASSUME NEW w \in Worlds, NEW gen \in Int, NEW capturing \in BOOLEAN
  PROVE  LET u == UpdateOffloadTiming(w, gen, capturing).w
         IN  /\ u \in Worlds /\ u.om = w.om /\ u.tm = w.tm /\ u.comp = w.comp
             /\ u.ops = w.ops /\ u.err = w.err /\ Timed(u.col, w.col)
<1> DEFINE fin == FinalizeReplayPass(w.col, gen, capturing).col
           u == UpdateOffloadTiming(w, gen, capturing).w
           c == [w EXCEPT !.col = fin]
<1>1. w.col \in Collectors
  BY DEF Worlds
<1>2. fin \in Collectors /\ Timed(fin, w.col)
  BY <1>1, PassTypes, TimedSteps
<1>3. u \in {w, c}
  BY DEF UpdateOffloadTiming
<1> HIDE DEF fin, u
<1>4. /\ c \in Worlds /\ c.om = w.om /\ c.tm = w.tm /\ c.comp = w.comp
      /\ c.ops = w.ops /\ c.err = w.err /\ Timed(c.col, w.col)
  BY <1>2 DEF Worlds
<1>6. Timed(w.col, w.col)
  BY DEF Timed
<1> HIDE DEF c
<1>5. QED
  BY <1>3, <1>4, <1>6 DEF u

LEMMA FailedMeasure ==
  ASSUME NEW w \in Worlds
  PROVE  LET v == FailManualUpdateReplan(w)
         IN  /\ v \in Worlds /\ v.om = [w.om EXCEPT !.manual = FALSE]
             /\ v.tm = w.tm /\ v.ops = w.ops /\ Timed(v.col, w.col)
             /\ PathKept(v.comp, w.comp) /\ v.comp.tail.state = "FAILED"
<1> DEFINE o == [w.om EXCEPT !.manual = FALSE]
           k == [w.comp EXCEPT !.tail = Failed(w.comp.tail)]
           c == DisarmReplayMeasure(w.col)
           m == [[[w EXCEPT !.om = o] EXCEPT !.comp = k] EXCEPT !.col = c]
           v == FailManualUpdateReplan(w)
<1>1. o \in Managers
  BY DEF Worlds, Managers
<1>2. c \in Collectors /\ Timed(c, w.col)
  BY CollectorTypes, DrainedSteps DEF Worlds, Timed, Drained
<1>3. w.comp \in CompiledPaths /\ w.comp.tail \in Tails
  BY DEF Worlds, CompiledPaths
<1>4. Failed(w.comp.tail) \in Tails /\ Failed(w.comp.tail).state = "FAILED"
  BY <1>3, TailTypes
<1>5. k \in CompiledPaths /\ PathKept(k, w.comp) /\ k.tail.state = "FAILED"
  <2>1. k \in CompiledPaths
    BY <1>3, <1>4, PathTypes
  <2>2. QED
    BY <1>3, <1>4, <2>1 DEF PathKept, CompiledPaths
<1>6. v = Raise(m)
  BY DEF FailManualUpdateReplan, Worlds, CompiledPaths
<1> HIDE DEF o, k, c, v
<1>7. m \in Worlds /\ m.om = o /\ m.tm = w.tm /\ m.ops = w.ops /\ m.col = c /\ m.comp = k
  BY <1>1, <1>2, <1>5 DEF Worlds
<1> HIDE DEF m
<1>8. /\ v \in Worlds /\ v.om = o /\ v.tm = w.tm /\ v.ops = w.ops
      /\ v.col = c /\ v.comp = k
  BY <1>6, <1>7, StepsStay
<1>9. QED
  BY <1>2, <1>5, <1>8 DEF v, o

LEMMA TickMoves ==
  ASSUME NEW w \in Worlds, NEW v, NEW f, Ticked(v, w), HookStands(w.om),
         w.om.phase = "INFERENCE"
  PROVE  Moved(v, w, f)
<1>1. /\ v \in Worlds /\ Registered(v) /\ SameSettings(v.tm, w.tm)
      /\ v.tm.restored = w.tm.restored /\ Idle(v.tm) \subseteq Idle(w.tm)
      /\ v.om \in {w.om, [w.om EXCEPT !.manual = FALSE]}
  BY DEF Ticked, Frame, SameSettings
<1>2. /\ v.om \in Managers /\ w.om \in Managers /\ v.om.phase = w.om.phase
      /\ v.om.hooks = w.om.hooks /\ v.om.handle = w.om.handle
      /\ v.om.model = w.om.model /\ v.om.serial = w.om.serial
      /\ v.om.blocked = w.om.blocked
  BY <1>1 DEF Worlds, Managers
<1>3. HookStands(v.om)
  BY <1>2, HookStays
<1>4. QED
  BY <1>1, <1>2, <1>3 DEF Moved

LEMMA MovesAfter ==
  ASSUME NEW u, NEW v, NEW w, NEW f, Moved(v, u, f),
         u.om = w.om, u.tm = w.tm
  PROVE  Moved(v, w, f)
BY DEF Moved

LEMMA UpdateStateStep ==
  ASSUME NEW w \in Worlds, NEW gen \in Int, NEW f, NEW capturing \in BOOLEAN,
         ~w.err, Registered(w), HookStands(w.om), w.om.phase # "NOT_INITIALIZED"
  PROVE  Moved(UpdateState(w, gen, f, capturing), w, f)
<1> DEFINE pub == UpdateOffloadTiming(w, gen, capturing)
           u == pub.w
           v == UpdateState(w, gen, f, capturing)
<1>0. w.om \in Managers /\ w.om.phase \in Phases /\ w.comp \in CompiledPaths
  BY DEF Worlds, Managers
<1>1. CASE w.om.phase = "INFERENCE" /\ w.om.manual
  <2>1. v = IF pub.ok THEN ManualTick(u, f) ELSE FailManualUpdateReplan(u)
    BY <1>1 DEF UpdateState, MeasureReplay, ManualTick
  <2>2. /\ u \in Worlds /\ u.om = w.om /\ u.tm = w.tm /\ u.ops = w.ops /\ ~u.err
    BY TimingStep
  <2> HIDE DEF v, pub
  <2>3. CASE pub.ok
    <3>1. Ticked(ManualTick(u, f), u)
      BY <2>2, TickSteps DEF Registered
    <3>2. Moved(v, u, f)
      BY <1>1, <2>1, <2>2, <2>3, <3>1, TickMoves
    <3>3. QED
      BY <2>2, <3>2, MovesAfter DEF v
  <2>4. CASE ~pub.ok
    <3>1. /\ v \in Worlds /\ v.om = [w.om EXCEPT !.manual = FALSE]
          /\ v.tm = w.tm /\ v.ops = w.ops
      BY <2>1, <2>2, <2>4, FailedMeasure
    <3>2. /\ v.om.phase = w.om.phase /\ v.om.hooks = w.om.hooks
          /\ v.om.handle = w.om.handle /\ v.om.model = w.om.model
          /\ v.om.serial = w.om.serial /\ v.om.blocked = w.om.blocked
      BY <1>0, <3>1 DEF Managers
    <3>3. QED
      BY <3>1, <3>2, Stands DEF v
  <2>5. QED
    BY <2>3, <2>4
<1>2. CASE w.om.phase = "INFERENCE" /\ ~w.om.manual
  <2>1. v = PassiveTick(w, f)
    BY <1>2 DEF UpdateState, PassiveTick
  <2> HIDE DEF v
  <2>2. Ticked(v, w)
    BY <2>1, TickSteps
  <2>3. QED
    BY <1>2, <2>2, TickMoves DEF v
<1>3. CASE /\ w.om.phase = "PROFILING" /\ w.tm.suspended = 0 /\ w.comp.warm > 0
  <2>0. w.comp.warm # 0
    BY <1>0, <1>3 DEF CompiledPaths
  <2>1. v = [w EXCEPT !.comp = AdvanceProfileWarmup(w.comp)]
    BY <1>3, <2>0 DEF UpdateState, Counts
  <2>2. AdvanceProfileWarmup(w.comp) \in CompiledPaths
    BY <1>0, PathTypes
  <2>3. v \in Worlds /\ v.om = w.om /\ v.tm = w.tm /\ v.ops = w.ops
    BY <2>1, <2>2 DEF Worlds
  <2> HIDE DEF v
  <2>4. QED
    BY <2>3, Stands DEF v
<1>4. CASE /\ w.om.phase \in {"DISCOVERY", "PROFILING"}
           /\ ~(w.om.phase = "PROFILING" /\ w.tm.suspended = 0 /\ w.comp.warm > 0)
  <2>1. v = IF Counts(w) THEN Count(w, f) ELSE w
    BY <1>4 DEF UpdateState
  <2> HIDE DEF v
  <2>2. Moved(w, w, f)
    BY Stands
  <2>3. Moved(Count(w, f), w, f)
    BY <1>4, CountStep
  <2>4. QED
    BY <2>1, <2>2, <2>3 DEF v
<1>5. QED
  BY <1>0, <1>1, <1>2, <1>3, <1>4 DEF Phases

(* What holds of a manager between its calls: one hook at most, and a      *)
(* manager without a tensor manager has nothing of the last one left.      *)
Bare(w) ==
  /\ w.tm.weights = 0 /\ w.tm.loader = 0 /\ ~w.tm.restored
  /\ w.ops.loader = 0 /\ w.om.forwards = "plain"

Sound(w) ==
  /\ w \in Worlds /\ Registered(w)
  /\ HookFollows(w.om)
  /\ w.om.phase = "NOT_INITIALIZED" => w.om.hooks = {}
  /\ w.om.phase # "NOT_INITIALIZED" \/ w.om.blocked => w.tm.on
  /\ ~w.tm.on => Bare(w)

(* Where a new session begins.                                             *)
Starts(v, comp0) ==
  \/ v.om.phase = "INFERENCE"
  \/ /\ v.om.iter = 0 /\ ~v.om.manual
     /\ \/ /\ v.om.phase = "DISCOVERY" /\ v.comp = comp0
           /\ v.om.honored = IF v.om.cfg.skip THEN "no" ELSE "yes"
        \/ /\ v.om.phase = "PROFILING" /\ v.comp = OnEnterProfile(comp0)
           /\ v.om.cfg.skip /\ v.om.honored = "yes"

(* What forwards are served from, of a manager at work in a session: the   *)
(* loader that is there, if any, holds its resources.                      *)
Alive(w) == w.tm.loader # 0 => w.tm.loader \in w.tm.live

(* The registry, the tensor manager and the parameters agree on a loader.  *)
Agreed(w) ==
  /\ w.ops.loader = w.tm.loader /\ w.ops.loader # 0 /\ w.ops.loader \in w.tm.live
  /\ w.tm.weights \in {w.tm.loader, Stale}

(* Discovery and profiling run the eager forwards; unless a swap failed    *)
(* halfway, on weights the parameters own or the profile lends.            *)
Driven(w, halfway) ==
  /\ w.om.forwards = "eager" /\ ~w.tm.restored /\ w.comp.tail.state = "IDLE"
  /\ w.om.phase = "DISCOVERY" /\ ~halfway => w.tm.trap = "warmup" /\ w.tm.weights = 0
  /\ w.om.phase = "PROFILING" /\ ~halfway =>
       Alive(w) /\ (w.tm.weights # 0 => w.tm.kind = "controller" /\ w.tm.weights = w.tm.loader)

(* Inference runs on a loader that is alive, which a compiled session on   *)
(* blocks finds in the registry; a replan that failed may have left none,  *)
(* and shows in the tail until another one is asked for.                   *)
Steady(w, halfway, rearmed) ==
  /\ w.om.forwards = IF w.comp.active THEN "compiled" ELSE "eager"
  /\ w.tm.kind # "controller" /\ (~halfway => OwnView(w))
  /\ w.comp.active => Staged(w) /\ (w.ops.loader # 0 => Agreed(w))
  /\ ~w.comp.active => w.comp.tail.state \in {"IDLE", "FAILED"}
  /\ \/ w.comp.active /\ (w.comp.tail.state = "FAILED" \/ rearmed)
     \/ Alive(w) /\ (w.comp.active /\ w.tm.cfg.block => w.ops.loader # 0)

(* A session at work.                                                      *)
AtWork(w, halfway, rearmed) ==
  /\ w.om.phase \in {"DISCOVERY", "PROFILING"} => Driven(w, halfway)
  /\ w.om.phase = "INFERENCE" => Steady(w, halfway, rearmed)

LEMMA GroundedSame ==
  ASSUME NEW v, NEW w, SameLoader(v.tm, w.tm), v.col = w.col, Grounded(w)
  PROVE  Grounded(v)
BY DEF Grounded, SameLoader

(* It measures no captured graph that was not measured before, forgets no  *)
(* session, and one that goes straight to inference has another loader.    *)
Settled(v, w) ==
  /\ v.om.manual => w.om.manual
  /\ v.om.blocked => v.err
  /\ w.om.phase # "NOT_INITIALIZED" =>
       /\ v.om.phase # "NOT_INITIALIZED" /\ v.tm.built >= w.tm.built
       /\ ~v.err /\ v.om.phase = "INFERENCE" => v.tm.loader > w.tm.built

(* What a call that sets a manager up leaves.                              *)
SetUp(v, w) ==
  /\ Sound(v) /\ Settled(v, w)
  /\ Grounded(w) => Grounded(v) /\ (~v.err => AtWork(v, FALSE, FALSE))
  /\ Idle(v.tm) \subseteq w.tm.live
  /\ ~v.err => /\ v.om.phase # "NOT_INITIALIZED" /\ HookStands(v.om) /\ ~v.tm.restored
               /\ v.om.phase = "DISCOVERY" => v.tm.loader = 0
               /\ \E c \in ConfigType : Starts(v, Activation(c))

(* The manager's fields that are as they were until modules are patched.   *)
SameStation(o, p) ==
  /\ o.phase = p.phase /\ o.hooks = p.hooks /\ o.handle = p.handle
  /\ o.model = p.model /\ o.serial = p.serial /\ o.blocked = p.blocked
  /\ o.forwards = p.forwards /\ o.takeover = p.takeover /\ o.session = p.session

LEMMA ConfigStep ==
  ASSUME NEW w \in Worlds, NEW c \in ConfigType
  PROVE  LET v == [w EXCEPT !.om.cfg = c]
         IN  /\ OmStep(v, w) /\ SameStation(v.om, w.om) /\ v.om.cfg = c
             /\ v.om.manual = w.om.manual
<1> DEFINE o == [w.om EXCEPT !.cfg = c]
           v == [w EXCEPT !.om.cfg = c]
<1>1. /\ o \in Managers /\ SameStation(o, w.om) /\ o.cfg = c
      /\ o.manual = w.om.manual
  BY DEF Worlds, Managers, SameStation
<1>2. v = [w EXCEPT !.om = o]
  BY DEF Worlds
<1> HIDE DEF o, v
<1>3. OmStep(v, w) /\ v.om = o
  BY <1>1, <1>2, OmChanges
<1>4. QED
  BY <1>1, <1>3 DEF v

LEMMA ManualStep ==
  ASSUME NEW w \in Worlds
  PROVE  LET v == [w EXCEPT !.om.manual = FALSE]
         IN  /\ OmStep(v, w) /\ SameStation(v.om, w.om) /\ v.om.cfg = w.om.cfg
             /\ ~v.om.manual /\ v.om.iter = w.om.iter /\ v.om.honored = w.om.honored
<1> DEFINE o == [w.om EXCEPT !.manual = FALSE]
           v == [w EXCEPT !.om.manual = FALSE]
<1>1. /\ o \in Managers /\ SameStation(o, w.om) /\ o.cfg = w.om.cfg
      /\ ~o.manual /\ o.iter = w.om.iter /\ o.honored = w.om.honored
  BY DEF Worlds, Managers, SameStation
<1>2. v = [w EXCEPT !.om = o]
  BY DEF Worlds
<1> HIDE DEF o, v
<1>3. OmStep(v, w) /\ v.om = o
  BY <1>1, <1>2, OmChanges
<1>4. QED
  BY <1>1, <1>3 DEF v

LEMMA PatchStep ==
  ASSUME NEW w \in Worlds
  PROVE  LET v == PatchModules(w)
         IN  /\ OmStep(v, w)
             /\ v.om.phase = w.om.phase /\ v.om.hooks = w.om.hooks
             /\ v.om.handle = w.om.handle /\ v.om.blocked = w.om.blocked
             /\ v.om.cfg = w.om.cfg /\ v.om.takeover = w.om.takeover
             /\ v.om.manual = w.om.manual /\ v.om.forwards = "eager"
<1> DEFINE m == <<w.om.session + 1, "user">>
           n == w.om.session + 1
           o == [w.om EXCEPT !.session = n, !.forwards = "eager",
                             !.model = m, !.proxy = TRUE]
           v == PatchModules(w)
<1>1. w.om \in Managers /\ n \in Nat
  BY DEF Worlds, Managers
<1>2. m \in Models
  BY <1>1 DEF Models
<1>3. v = [w EXCEPT !.om = o]
  BY DEF PatchModules, Worlds, Managers
<1> HIDE DEF m, n, v
<1>4. /\ o \in Managers
      /\ o.phase = w.om.phase /\ o.hooks = w.om.hooks
      /\ o.handle = w.om.handle /\ o.blocked = w.om.blocked
      /\ o.cfg = w.om.cfg /\ o.takeover = w.om.takeover
      /\ o.manual = w.om.manual /\ o.forwards = "eager"
  BY <1>1, <1>2 DEF Managers
<1> HIDE DEF o
<1>5. OmStep(v, w) /\ v.om = o
  BY <1>3, <1>4, OmChanges
<1>6. QED
  BY <1>4, <1>5 DEF v

(* The tensor manager of a manager is made once.                           *)
Inited(v, w, c) ==
  /\ v \in Worlds /\ Registered(v)
  /\ v.comp = w.comp /\ v.ops = w.ops /\ SameStation(v.om, w.om) /\ v.col = w.col
  /\ v.tm.built = w.tm.built /\ v.tm.live = w.tm.live /\ v.om.manual = w.om.manual
  /\ IF v.err THEN v.tm = w.tm
     ELSE /\ v.tm.on /\ ~v.om.blocked /\ v.om.cfg = c
          /\ IF w.tm.on THEN v.tm = w.tm
             ELSE v.tm.weights = 0 /\ ~v.tm.restored /\ v.tm.kind = "none"

LEMMA InitedGrounds ==
  ASSUME NEW v, NEW w, NEW c, Inited(v, w, c), Grounded(w)
  PROVE  Grounded(v)
BY DEF Inited, Grounded

LEMMA InitManagerStep ==
  ASSUME NEW w \in Worlds, NEW c \in ConfigType, NEW f, ~w.err, Registered(w)
  PROVE  Inited(InitManager(w, c, f), w, c)
<1> DEFINE s == [w EXCEPT !.om.cfg = c]
           t == InitializeTensorManager(s, c, f)
           v == InitManager(w, c, f)
<1>1. /\ OmStep(s, w) /\ SameStation(s.om, w.om) /\ s.om.cfg = c
      /\ s.om.manual = w.om.manual
  BY ConfigStep
<1>2. v = IF w.om.blocked THEN Raise(w)
          ELSE IF w.tm.on THEN (IF w.tm.cfg.skip # c.skip THEN Raise(w) ELSE s)
          ELSE t
  <2>1. ~s.err
    BY <1>1 DEF OmStep
  <2>2. Raise(w).err
    BY StepsStay
  <2>3. QED
    BY <2>1, <2>2 DEF InitManager, SetConfig
<1> HIDE DEF s, v
<1>3. /\ s \in Worlds /\ s.tm = w.tm /\ s.comp = w.comp /\ s.ops = w.ops /\ ~s.err /\ s.col = w.col
      /\ Registered(s) /\ s.om.blocked = w.om.blocked
  BY <1>1 DEF OmStep, Registered, SameStation
<1>5. CASE v = Raise(w)
  <2>1. /\ v \in Worlds /\ v.err /\ v.om = w.om /\ v.tm = w.tm
        /\ v.comp = w.comp /\ v.ops = w.ops /\ v.col = w.col
    BY <1>5, StepsStay
  <2>2. QED
    BY <2>1 DEF Inited, Registered, SameStation, v
<1>6. CASE v = s /\ ~w.om.blocked /\ w.tm.on
  BY <1>1, <1>3, <1>6 DEF Inited, v
<1>7. CASE v = t /\ ~w.om.blocked /\ ~w.tm.on
  <2>1. CASE f = "init"
    <3>1. t = Raise(s)
      BY <1>3, <2>1, InitializeTensorManagerStep
    <3> HIDE DEF t
    <3>2. /\ t \in Worlds /\ t.err /\ t.om = s.om /\ t.tm = s.tm
          /\ t.comp = s.comp /\ t.ops = s.ops /\ t.col = s.col
      BY <1>3, <3>1, StepsStay
    <3>3. QED
      BY <1>1, <1>3, <1>7, <3>2 DEF Inited, Registered, v
  <2>2. CASE f # "init"
    <3>1. Initialized(t, s, c)
      BY <1>3, <2>2, InitializeTensorManagerStep
    <3> HIDE DEF t
    <3>2. QED
      BY <1>1, <1>3, <1>7, <3>1 DEF Inited, Initialized, Registered, v
  <2>3. QED
    BY <2>1, <2>2
<1>8. QED
  BY <1>2, <1>5, <1>6, <1>7

(* A failure before modules are patched leaves the station.                *)
LEMMA Stays ==
  ASSUME NEW w \in Worlds, Sound(w), NEW v \in Worlds, v.err, Registered(v),
         SameStation(v.om, w.om), v.ops.loader \in {0, w.ops.loader},
         SameLoader(v.tm, w.tm), v.col = w.col, v.om.manual => w.om.manual
  PROVE  SetUp(v, w)
<1>1. w.tm.built \in Nat
  BY DEF Worlds, TensorManagers, TensorRecords
<1>2. Settled(v, w)
  BY <1>1 DEF Settled, SameStation, SameLoader
<1>3. QED
  BY <1>2, GroundedSame DEF SetUp, Sound, Bare, HookFollows, SameStation, SameLoader, Idle

LEMMA ResolvedOver ==
  ASSUME NEW w \in Worlds, NEW m, NEW c \in ConfigType, ~w.err, Registered(w),
         OmStep(m, w), SameStation(m.om, w.om)
  PROVE  LET r == ResolveActivation(m, c)
         IN  /\ r \in Worlds /\ Registered(r) /\ r.om = m.om /\ SameStation(r.om, w.om)
             /\ r.col = w.col
             /\ (r.err <=> ~Acceptable(c)) /\ SameLoader(r.tm, w.tm)
             /\ r.err => r.ops = w.ops /\ r.tm = w.tm /\ r.comp = w.comp
             /\ ~r.err => r.ops.loader = 0 /\ r.comp = Activation(c)
<1> DEFINE r == ResolveActivation(m, c)
<1>1. /\ m \in Worlds /\ ~m.err /\ m.tm = w.tm /\ m.ops = w.ops /\ m.col = w.col
      /\ m.comp = w.comp
  BY DEF OmStep
<1>2. Resolved(r, m, c)
  BY <1>1, ResolveActivationStep
<1> HIDE DEF r
<1>3. m.ops \in Slots /\ m.tm.built \in Nat
  BY <1>1 DEF Worlds, TensorManagers, TensorRecords
<1>4. ClearActiveLoader(m.ops).loader = 0
  BY <1>3, SlotTypes
<1>5. /\ r \in Worlds /\ r.om = m.om /\ r.col = w.col /\ (r.err <=> ~Acceptable(c))
      /\ SameLoader(r.tm, w.tm)
      /\ r.err => r.ops = w.ops /\ r.tm = w.tm /\ r.comp = w.comp
      /\ ~r.err => r.ops.loader = 0 /\ r.comp = Activation(c)
  BY <1>1, <1>2, <1>4 DEF Resolved
<1>6. Registered(r)
  BY <1>1, <1>3, <1>5 DEF Registered, SameLoader
<1>7. QED
  BY <1>5, <1>6 DEF r

Offloaded(v, w, c) ==
  IF Acceptable(c) THEN SetUp(v, w)
  ELSE /\ v \in Worlds /\ v.err /\ v.tm = w.tm /\ v.ops = w.ops
       /\ v.comp = w.comp /\ v.col = w.col /\ SameStation(v.om, w.om)
       /\ v.om.cfg = w.om.cfg /\ ~v.om.manual

(* A manager that has been taken to inference: a loader of its own, and    *)
(* the forwards its session runs.                                          *)
Serviced(v, w) ==
  /\ Infers(v) /\ v.om.phase = "INFERENCE"
  /\ v.comp.active = w.comp.active
  /\ v.comp.active => v.tm.cfg.block
  /\ ~v.comp.active => v.comp = w.comp /\ v.om.forwards = "eager"

LEMMA ServicedIsAtWork ==
  ASSUME NEW v \in Worlds, NEW w, NEW c, Serviced(v, w), Grounded(v),
         w.comp = Activation(c)
  PROVE  AtWork(v, FALSE, FALSE)
<1>1. Activation(c).tail.state = "IDLE"
  BY DEF Activation, Inactive, IdleTail
<1>2. v.ops \in Slots
  BY DEF Worlds
<1>3. v.ops.loader # 0 => v.ops.armed
  BY <1>2 DEF Slots
<1>4. QED
  BY <1>1, <1>3 DEF AtWork, Steady, Serviced, Infers, Views, OwnView, Staged, Agreed, Alive

(* What discovery or a profile begins with.                                *)
LEMMA WarmupIsAtWork ==
  ASSUME NEW v \in Worlds, NEW w, NEW c, Discovers(v, w) \/ Profiles(v, w), ~v.tm.restored,
         w.om.forwards = "eager", w.comp = Activation(c)
  PROVE  AtWork(v, FALSE, FALSE)
<1>1. Activation(c).tail.state = "IDLE"
  BY DEF Activation, Inactive, IdleTail
<1>2. OnEnterProfile(Activation(c)).tail.state = "IDLE"
  BY DEF Activation, Inactive, IdleTail, OnEnterProfile
<1>3. QED
  BY <1>1, <1>2 DEF AtWork, Driven, Discovers, Profiles, Alive

LEMMA OffloadModelStep ==
  ASSUME NEW w \in Worlds, NEW c \in ConfigType, NEW f, ~w.err, Sound(w)
  PROVE  Offloaded(OffloadModel(w, c, f), w, c)
<1> DEFINE m == [w EXCEPT !.om.manual = FALSE]
           r == ResolveActivation(m, c)
           n == InitManager(r, c, f)
           a == ArmNonDestructiveFirstLoader(n)
           p == PatchModules(a)
           x == TransitionToWarmup(p, f)
           v == OffloadModel(w, c, f)
<1>1. v = IF r.err THEN r ELSE IF n.err THEN n ELSE IF p.err THEN p ELSE x
  BY DEF OffloadModel, Then
<1>2. /\ OmStep(m, w) /\ SameStation(m.om, w.om) /\ m.om.cfg = w.om.cfg
      /\ ~m.om.manual /\ m.om.iter = w.om.iter /\ m.om.honored = w.om.honored
      /\ m.om.cfg = w.om.cfg
  BY ManualStep
<1> HIDE DEF m, v
<1>3. Registered(w) /\ w.tm.built \in Nat
  BY DEF Sound, Worlds, TensorManagers, TensorRecords
<1>4. /\ r \in Worlds /\ Registered(r) /\ r.om = m.om /\ SameStation(r.om, w.om)
      /\ (r.err <=> ~Acceptable(c)) /\ SameLoader(r.tm, w.tm) /\ r.col = w.col
      /\ r.err => r.ops = w.ops /\ r.tm = w.tm /\ r.comp = w.comp
      /\ ~r.err => r.ops.loader = 0 /\ r.comp = Activation(c)
  BY <1>2, <1>3, ResolvedOver
<1> HIDE DEF r
<1>5. CASE r.err
  BY <1>1, <1>2, <1>4, <1>5 DEF Offloaded, v
<1>6. CASE ~r.err
  <2>1. Inited(n, r, c)
    BY <1>4, <1>6, InitManagerStep
  <2> HIDE DEF n
  <2>2. /\ n \in Worlds /\ Registered(n) /\ n.ops.loader = 0
        /\ SameStation(n.om, w.om) /\ Idle(n.tm) \subseteq w.tm.live
        /\ n.col = w.col
    BY <1>4, <1>6, <2>1 DEF Inited, SameStation, SameLoader, Idle
  <2>6. Grounded(w) => Grounded(n)
    BY <1>4, <2>1, GroundedSame, InitedGrounds
  <2>3. CASE n.err
    <3>1. SameLoader(n.tm, w.tm)
      BY <1>4, <2>1, <2>3 DEF Inited
    <3>2. SetUp(n, w)
      <4>1. ~n.om.manual
        BY <1>2, <1>4, <2>1 DEF Inited
      <4>2. QED
        BY <2>2, <2>3, <3>1, <4>1, Stays
    <3>3. QED
      BY <1>1, <1>4, <1>6, <2>3, <3>2 DEF Offloaded, v
  <2>4. CASE ~n.err
    <3>1. n.tm.on /\ ~n.om.manual /\ n.comp = Activation(c)
      BY <1>2, <1>4, <1>6, <2>1, <2>4 DEF Inited
    <3>2. /\ a \in Worlds /\ a.om = n.om /\ a.err = n.err /\ a.ops = n.ops
          /\ a.comp = n.comp /\ a.col = n.col
          /\ SameLoader(a.tm, n.tm)
      BY <2>2, ArmFirstStep
    <3> HIDE DEF a
    <3>3. /\ OmStep(p, a) /\ p.om.phase = a.om.phase /\ p.om.hooks = a.om.hooks
          /\ p.om.handle = a.om.handle /\ p.om.blocked = a.om.blocked
          /\ p.om.manual = a.om.manual /\ p.om.forwards = "eager"
      BY <3>2, PatchStep
    <3> HIDE DEF p
    <3>4. /\ p \in Worlds /\ ~p.err /\ p.ops.loader = 0 /\ p.tm.on
          /\ p.tm.live = n.tm.live /\ p.tm.loader = n.tm.loader
          /\ p.om.phase = w.om.phase /\ p.om.hooks = w.om.hooks
          /\ p.om.handle = w.om.handle /\ p.tm.built \in Nat
          /\ p.tm.built = w.tm.built /\ ~p.om.blocked /\ ~p.om.manual
      <4>1. /\ p \in Worlds /\ ~p.err /\ p.ops = n.ops /\ p.tm = a.tm
            /\ p.om.phase = n.om.phase /\ p.om.hooks = n.om.hooks
            /\ p.om.handle = n.om.handle /\ p.om.blocked = n.om.blocked
            /\ p.om.manual = n.om.manual
        BY <2>4, <3>2, <3>3 DEF OmStep
      <4>2. p.tm.built \in Nat
        BY <4>1 DEF Worlds, TensorManagers, TensorRecords
      <4>3. n.tm.built = w.tm.built /\ ~n.om.blocked
        BY <1>4, <1>6, <2>1, <2>4 DEF Inited, SameLoader
      <4>4. QED
        BY <2>2, <3>1, <3>2, <4>1, <4>2, <4>3 DEF SameLoader, SameStation
    <3>5. HookFollows(p.om) /\ Registered(p)
      BY <3>4 DEF Sound, HookFollows, Registered
    <3>6. ToWarmup(x, p)
      BY <3>4, <3>5, TransitionToWarmupStep
    <3> HIDE DEF x
    <3>7. p.tm.live \subseteq w.tm.live
      BY <1>4, <1>6, <2>1, <2>4, <3>4 DEF Inited, SameLoader
    <3>8. Sound(x)
      <4>1. x.om.phase = "NOT_INITIALIZED" => x.om.hooks = {}
        BY <3>4, <3>6 DEF ToWarmup, Sound
      <4>2. QED
        BY <3>4, <3>6, <4>1 DEF ToWarmup, Sound, SameSettings
    <3>9. Idle(x.tm) \subseteq w.tm.live
      BY <3>6, <3>7 DEF ToWarmup
    <3>10. ASSUME ~x.err
           PROVE  /\ x.om.phase # "NOT_INITIALIZED" /\ HookStands(x.om) /\ ~x.tm.restored
                  /\ x.om.phase = "DISCOVERY" => x.tm.loader = 0
                  /\ Starts(x, Activation(c))
      <4>1. /\ x.om.hooks = {Hooked(x.om)} /\ HookFollows(x.om) /\ ~x.tm.restored
        BY <3>6, <3>10 DEF ToWarmup
      <4>2. x.om.phase = "INFERENCE" \/ Discovers(x, p) \/ Profiles(x, p)
        BY <3>6, <3>10 DEF ToWarmup
      <4>3. /\ x.om.iter = 0 /\ x.om.manual = p.om.manual /\ x.om.cfg = p.om.cfg
        BY <3>6, <3>10 DEF ToWarmup
      <4>4. ~p.om.manual /\ p.comp = Activation(c)
        BY <3>1, <3>2, <3>3 DEF OmStep
      <4>5. Starts(x, Activation(c))
        BY <4>2, <4>3, <4>4 DEF Starts, Discovers, Profiles
      <4>6. QED
        BY <4>1, <4>2, <4>5 DEF HookStands, Discovers, Profiles
    <3>11. SetUp(x, w)
      <4>1. /\ p.tm = a.tm /\ p.col = a.col /\ p.comp = Activation(c)
            /\ p.om.forwards = "eager"
        BY <3>1, <3>2, <3>3 DEF OmStep
      <4>2. Grounded(w) => Grounded(p)
        BY <2>6, <3>2, <4>1, GroundedSame
      <4>3. Grounded(w) => Grounded(x)
        BY <3>4, <3>6, <4>2 DEF ToWarmup, Rooted
      <4>4. ASSUME ~x.err, Grounded(x) PROVE AtWork(x, FALSE, FALSE)
        <5>1. x \in Worlds
          BY <3>6 DEF ToWarmup
        <5>2. CASE p.tm.restored
          <6>1. Serviced(x, p)
            BY <3>6, <4>1, <4>4, <5>2 DEF ToWarmup, Enters, Serviced
          <6>2. QED
            BY <4>1, <4>4, <5>1, <6>1, ServicedIsAtWork
        <5>3. CASE ~p.tm.restored
          <6>1. (Discovers(x, p) \/ Profiles(x, p)) /\ ~x.tm.restored
            BY <3>6, <4>4, <5>3 DEF ToWarmup
          <6>2. QED
            BY <4>1, <5>1, <6>1, WarmupIsAtWork
        <5>4. QED
          BY <5>2, <5>3
      <4>5. Settled(x, w)
        <5>1. x.om.manual = p.om.manual /\ x.om.blocked = p.om.blocked
              /\ x.tm.built >= p.tm.built
          BY <3>6 DEF ToWarmup, SameSettings
        <5>2. x.om.phase = p.om.phase \/ x.om.phase # "NOT_INITIALIZED"
          BY <3>6 DEF ToWarmup
        <5>3. ~x.err /\ x.om.phase = "INFERENCE" => x.tm.loader > p.tm.built
          BY <3>6 DEF ToWarmup, Discovers, Profiles
        <5>4. QED
          BY <3>4, <5>1, <5>2, <5>3 DEF Settled
      <4>6. QED
        BY <3>8, <3>9, <3>10, <4>3, <4>4, <4>5 DEF SetUp
    <3>12. QED
      BY <1>1, <1>4, <1>6, <2>4, <3>4, <3>11 DEF Offloaded, v
  <2>5. QED
    BY <2>3, <2>4
<1>7. QED
  BY <1>5, <1>6

(* Letting go of the tensor manager. *)
LetGo(u, w) ==
  /\ u \in Worlds /\ u.err = w.err /\ u.ops = w.ops /\ u.comp = w.comp
  /\ ~u.tm.on /\ u.tm.weights = 0 /\ u.tm.loader = 0 /\ ~u.tm.restored
  /\ u.tm.live = w.tm.live
  /\ u.tm.kind = "none" /\ ~u.col.enabled /\ u.col.durable = <<>>
  /\ u.om.phase = "NOT_INITIALIZED" /\ u.om.forwards = "plain"
  /\ u.om.hooks = {} /\ u.om.blocked = w.om.blocked /\ u.om.manual = w.om.manual

LEMMA NoConfigType == NoConfig \in ConfigType
BY DEF NoConfig, ConfigType

LEMMA UnmanagedStep ==
  ASSUME NEW w \in Worlds, HookFollows(w.om)
  PROVE  LetGo(Unmanaged(w), w)
<1> DEFINE built == IF w.tm.live = {} THEN 0 ELSE w.tm.built
           t == [NoTensorManager EXCEPT !.built = built, !.live = w.tm.live]
           h == <<NoModel, 0>>
           o == [w.om EXCEPT !.phase = "NOT_INITIALIZED", !.forwards = "plain",
                             !.model = NoModel, !.proxy = FALSE, !.takeover = FALSE,
                             !.hooks = @ \ {w.om.handle}, !.handle = h]
           c == NewCollector(FALSE, FALSE)
           u == Unmanaged(w)
<1>1. w.om \in Managers /\ w.tm \in TensorRecords /\ InBounds(w.tm)
  BY DEF Worlds, TensorManagers
<1>2. built \in Nat /\ w.tm.live \subseteq 1..built
  BY <1>1 DEF TensorRecords, InBounds
<1>3. u = [w EXCEPT !.tm = t, !.om = o, !.col = c]
  BY DEF Unmanaged
<1>12. ~c.enabled /\ c.durable = <<>>
  BY DEF NewCollector
<1> HIDE DEF built, c, u
<1>4. /\ t.loader = 0 /\ t.weights = 0 /\ ~t.on /\ ~t.restored /\ t.suspended = 0
      /\ t.live = w.tm.live /\ t.built = built /\ t.kind = "none"
  BY DEF NoTensorManager
<1>5. t \in TensorRecords
  <2>1. w.tm.live \in SUBSET Nat
    BY <1>1 DEF TensorRecords
  <2>2. NoTensorManager \in TensorRecords
    BY NoConfigType DEF NoTensorManager, TensorRecords, Kinds
  <2>3. QED
    BY <1>2, <2>1, <2>2 DEF TensorRecords
<1> HIDE DEF t
<1>6. t \in TensorManagers
  BY <1>2, <1>4, <1>5, BoundsAssumption DEF TensorManagers, InBounds
<1>7. h \in HookType /\ NoModel \in Models
  BY DEF HookType, Models, NoModel
<1> HIDE DEF h
<1>8. /\ o \in Managers /\ o.phase = "NOT_INITIALIZED" /\ o.forwards = "plain"
      /\ o.hooks = w.om.hooks \ {w.om.handle} /\ o.blocked = w.om.blocked
      /\ o.manual = w.om.manual
  BY <1>1, <1>7 DEF Managers, Phases
<1> HIDE DEF o
<1>9. c \in Collectors
  <2>1. <<>> \in Seq(Nat)
    OBVIOUS
  <2>2. QED
    BY <2>1, NewCollectorType DEF c
<1>10. /\ u \in Worlds /\ u.om = o /\ u.tm = t /\ u.err = w.err
       /\ u.ops = w.ops /\ u.comp = w.comp /\ u.col = c
  BY <1>3, <1>6, <1>8, <1>9 DEF Worlds
<1>11. QED
  BY <1>4, <1>8, <1>10, <1>12 DEF LetGo, HookFollows, u

LEMMA LetGoIsGrounded ==
  ASSUME NEW u, NEW w, LetGo(u, w) PROVE Grounded(u)
BY DEF LetGo, Grounded

LEMMA ShutDownIsGrounded ==
  ASSUME NEW v, NEW w, NEW f, ShutDown(v, w, f), Grounded(w) PROVE Grounded(v)
BY DEF ShutDown, TmStep, Grounded

(* Blocked managers and those let go. *)
LEMMA LetGoIsSound ==
  ASSUME NEW w \in Worlds, NEW u, LetGo(u, w), w.ops.loader = 0, ~w.om.blocked
  PROVE  Sound(u)
<1>1. u.tm.built \in Nat
  BY DEF LetGo, Worlds, TensorManagers, TensorRecords
<1>2. QED
  BY <1>1 DEF LetGo, Sound, Bare, Registered, HookFollows

LEMMA BlockStep ==
  ASSUME NEW w \in Worlds
  PROVE  LET v == Blocked(w)
         IN  /\ v \in Worlds /\ v.err /\ v.tm = w.tm /\ v.ops = w.ops /\ v.comp = w.comp
             /\ v.col = w.col
             /\ v.om.blocked /\ v.om.phase = w.om.phase /\ v.om.hooks = w.om.hooks
             /\ v.om.handle = w.om.handle /\ v.om.forwards = w.om.forwards
             /\ v.om.manual = w.om.manual
<1> DEFINE o == [w.om EXCEPT !.blocked = TRUE]
           m == [w EXCEPT !.om = o]
           v == Blocked(w)
<1>1. /\ o \in Managers /\ o.blocked /\ o.phase = w.om.phase /\ o.hooks = w.om.hooks
      /\ o.handle = w.om.handle /\ o.forwards = w.om.forwards
      /\ o.manual = w.om.manual
  BY DEF Worlds, Managers
<1>2. v = Raise(m)
  BY DEF Blocked, Worlds
<1> HIDE DEF o, v
<1>3. OmStep(m, w) /\ m.om = o
  BY <1>1, OmChanges
<1> HIDE DEF m
<1>4. m \in Worlds /\ m.tm = w.tm /\ m.ops = w.ops /\ m.comp = w.comp /\ m.col = w.col
  BY <1>3 DEF OmStep
<1>5. /\ v \in Worlds /\ v.err /\ v.om = m.om /\ v.tm = m.tm /\ v.ops = m.ops
      /\ v.comp = m.comp /\ v.col = m.col
  BY <1>2, <1>4, StepsStay
<1>6. QED
  BY <1>1, <1>3, <1>4, <1>5 DEF v

(* A release lets go, or keeps everything and says so. *)
Released(v, w) ==
  /\ Sound(v) /\ (Grounded(w) => Grounded(v))
  /\ v.om.manual => w.om.manual /\ w.om.blocked
  /\ v.om.blocked => v.err
  /\ Idle(v.tm) \subseteq Idle(w.tm)
  /\ ~v.err => v.om.phase = "NOT_INITIALIZED"

LEMMA HonoredUnknown ==
  ASSUME NEW w \in Worlds, NEW u, LetGo(u, w)
  PROVE  LetGo([u EXCEPT !.om.honored = "unknown"], w)
<1> DEFINE o == [u.om EXCEPT !.honored = "unknown"]
           v == [u EXCEPT !.om.honored = "unknown"]
<1>1. u \in Worlds /\ u.om \in Managers
  BY DEF LetGo, Worlds
<1>2. o \in Managers /\ OmStep(v, u) /\ v.om = o
  BY <1>1, HonoredStep
<1>3. /\ o.phase = u.om.phase /\ o.forwards = u.om.forwards
      /\ o.hooks = u.om.hooks /\ o.blocked = u.om.blocked
      /\ o.manual = u.om.manual
  BY <1>1 DEF Managers
<1> HIDE DEF o, v
<1>4. QED
  BY <1>2, <1>3 DEF LetGo, OmStep, v

LEMMA ReleaseStep ==
  ASSUME NEW w \in Worlds, NEW f, ~w.err, Sound(w)
  PROVE  Released(Release(w, f), w)
<1> DEFINE m == [w EXCEPT !.om.manual = FALSE]
           torn == TeardownCompiled(m)
           shut == ShutdownTensorManager(torn, f)
           down == IF w.tm.on THEN shut ELSE torn
           gone == Unmanaged(down)
           v == Release(w, f)
<1>1. v = IF w.om.blocked THEN Raise(w)
          ELSE IF down.err \/ (w.tm.on /\ f = "release_memory") THEN Blocked(down)
          ELSE [gone EXCEPT !.om.honored = "unknown"]
  BY DEF Release
<1> HIDE DEF v
<1>2. OmStep(m, w) /\ SameStation(m.om, w.om) /\ ~m.om.manual
  BY ManualStep
<1> HIDE DEF m
<1>3. TornCompiled(torn, m)
  BY <1>2, TeardownCompiledStep DEF OmStep
<1> HIDE DEF torn
<1>4. /\ torn \in Worlds /\ SameStation(torn.om, w.om) /\ ~torn.err
      /\ ~torn.om.manual
      /\ SameLoader(torn.tm, w.tm) /\ torn.ops.loader = 0 /\ torn.col = w.col
  <2>1. w.ops \in Slots
    BY DEF Worlds
  <2>2. ClearActiveLoader(w.ops).loader = 0
    BY <2>1, SlotTypes
  <2>3. QED
    BY <1>2, <1>3, <2>2 DEF TornCompiled, OmStep
<1>5. Idle(torn.tm) = Idle(w.tm)
  BY <1>4 DEF SameLoader, Idle
<1>6. ShutDown(shut, torn, f)
  BY <1>4, ShutdownStep
<1> HIDE DEF shut
<1>7. /\ down \in Worlds /\ SameStation(down.om, w.om) /\ down.ops.loader = 0
      /\ Idle(down.tm) \subseteq Idle(w.tm) /\ (down.tm.on <=> w.tm.on)
      /\ down.err => w.tm.on
      /\ ~down.err => down.tm.live \subseteq Idle(w.tm)
      /\ ~down.om.manual
  <2>1. CASE w.tm.on
    <3>1. /\ shut \in Worlds /\ shut.om = torn.om /\ shut.ops = torn.ops
          /\ shut.tm.on = torn.tm.on /\ Idle(shut.tm) \subseteq Idle(torn.tm)
          /\ ~shut.err => shut.tm.live = Idle(torn.tm)
      BY <1>6 DEF ShutDown, TmStep, Idle
    <3>2. QED
      BY <1>4, <1>5, <2>1, <3>1 DEF SameLoader
  <2>2. CASE ~w.tm.on
    <3>1. w.tm.loader = 0 /\ 0 \notin w.tm.live
      BY <2>2 DEF Sound, Bare, Worlds, TensorManagers, InBounds
    <3>2. QED
      BY <1>4, <1>5, <2>2, <3>1 DEF SameLoader, Idle
  <2>3. QED
    BY <2>1, <2>2
<1>12. Grounded(w) => Grounded(down)
  BY <1>4, <1>6, GroundedSame, ShutDownIsGrounded
<1> HIDE DEF down
<1>8. CASE w.om.blocked
  <2>1. /\ v \in Worlds /\ v.err /\ v.om = w.om /\ v.tm = w.tm /\ v.ops = w.ops
        /\ v.col = w.col
    BY <1>1, <1>8, StepsStay
  <2>2. Grounded(w) => Grounded(v)
    BY <2>1 DEF Grounded
  <2>3. QED
    BY <1>8, <2>1, <2>2 DEF Released, Sound, Bare, Registered, v
<1>9. CASE ~w.om.blocked /\ (down.err \/ (w.tm.on /\ f = "release_memory"))
  <2>1. v = Blocked(down)
    BY <1>1, <1>9
  <2>2. /\ v \in Worlds /\ v.err /\ v.tm = down.tm /\ v.ops = down.ops
        /\ v.om.phase = down.om.phase /\ v.om.hooks = down.om.hooks
        /\ v.om.handle = down.om.handle /\ v.col = down.col
        /\ v.om.manual = down.om.manual
    BY <1>7, <2>1, BlockStep
  <2>3. v.tm.on /\ v.tm.built \in Nat
    BY <1>7, <1>9, <2>2 DEF Worlds, TensorManagers, TensorRecords
  <2>4. Sound(v)
    BY <1>7, <2>2, <2>3 DEF Sound, Registered, HookFollows, SameStation
  <2>5. Grounded(down) => Grounded(v)
    BY <2>2 DEF Grounded
  <2>6. QED
    BY <1>7, <1>12, <2>2, <2>4, <2>5 DEF Released, v
<1>10. CASE ~w.om.blocked /\ ~(down.err \/ (w.tm.on /\ f = "release_memory"))
  <2>1. HookFollows(down.om) /\ ~down.om.blocked
    BY <1>7, <1>10 DEF Sound, HookFollows, SameStation
  <2>2. LetGo(gone, down)
    BY <1>7, <2>1, UnmanagedStep
  <2> HIDE DEF gone
  <2>3. LetGo(v, down)
    BY <1>1, <1>7, <1>10, <2>2, HonoredUnknown
  <2>4. Sound(v)
    BY <1>7, <2>1, <2>3, LetGoIsSound
  <2>5. QED
    BY <1>7, <1>10, <1>12, <2>1, <2>3, <2>4, LetGoIsGrounded DEF Released, LetGo, Idle, v
<1>11. QED
  BY <1>8, <1>9, <1>10

(* A takeover that failed leaves nothing behind, or a blocked manager.     *)
Cleaned(v, w) ==
  /\ Sound(v) /\ (Grounded(w) => Grounded(v)) /\ v.err /\ v.om.phase = "NOT_INITIALIZED"
  /\ Idle(v.tm) \subseteq Idle(w.tm) /\ v.om.manual = w.om.manual

LEMMA CleanupStep ==
  ASSUME NEW w \in Worlds, NEW g, w.tm.on, ~w.om.blocked
  PROVE  Cleaned(CleanupFailedStateTakeover(w, g), w)
<1> DEFINE a == TeardownCompiled(w)
           h == <<NoModel, 0>>
           o == [a.om EXCEPT !.hooks = {}, !.handle = h, !.forwards = "plain"]
           torn == [a EXCEPT !.err = FALSE, !.om.hooks = {},
                             !.om.handle = <<NoModel, 0>>, !.om.forwards = "plain"]
           reb == IF g = "rebind" THEN torn ELSE [torn EXCEPT !.tm.weights = 0]
           kept == g \in {"rebind", "release_memory"}
           down == IF kept THEN reb ELSE ShutdownTensorManager(reb, g)
           un   == Unmanaged(down)
           gone == [un EXCEPT !.om.iter = 0]
           held == [down EXCEPT !.om.blocked = TRUE, !.om.phase = "NOT_INITIALIZED",
                                !.om.iter = 0, !.om.takeover = FALSE]
           end == IF kept \/ down.err THEN held ELSE gone
           v == CleanupFailedStateTakeover(w, g)
<1>1. v = Raise(end)
  BY DEF CleanupFailedStateTakeover
<1> HIDE DEF v
<1>2. TornCompiled(a, w)
  BY TeardownCompiledStep
<1> HIDE DEF a
<1>3. /\ a \in Worlds /\ a.om \in Managers /\ a.om = w.om /\ SameLoader(a.tm, w.tm)
      /\ a.ops.loader = 0 /\ a.col = w.col
  <2>1. ClearActiveLoader(w.ops).loader = 0
    BY SlotTypes DEF Worlds
  <2>2. QED
    BY <1>2, <2>1 DEF TornCompiled, Worlds
<1>4. /\ o \in Managers /\ o.hooks = {} /\ o.handle = h /\ o.forwards = "plain"
      /\ o.blocked = w.om.blocked /\ o.manual = w.om.manual
  <2>1. h \in HookType
    BY DEF HookType, Models, NoModel
  <2> HIDE DEF h
  <2>2. QED
    BY <1>3, <2>1 DEF Managers
<1>5. torn = [a EXCEPT !.err = FALSE, !.om = o]
  BY <1>3 DEF Worlds, Managers
<1> HIDE DEF o, torn
<1>6. /\ torn \in Worlds /\ torn.om = o /\ torn.tm = a.tm /\ torn.ops = a.ops /\ ~torn.err
      /\ torn.col = a.col
  BY <1>3, <1>4, <1>5 DEF Worlds
<1>7. Kept(SetModel(torn), torn)
  BY <1>6, SetModelStep
<1>8. /\ reb \in Worlds /\ reb.om = o /\ reb.ops = a.ops /\ ~reb.err
      /\ reb.tm.on = a.tm.on /\ Idle(reb.tm) = Idle(a.tm)
  BY <1>6, <1>7 DEF Kept, TmStep, SetModel, Idle
<1>13. Grounded(w) => Grounded(reb)
  <2>1. Grounded(w) => Grounded(a)
    BY <1>3, GroundedSame
  <2>2. Grounded(a) => Grounded(torn)
    BY <1>6 DEF Grounded
  <2>3. /\ SetModel(torn).tm.weights = 0 /\ SetModel(torn).tm.kind = torn.tm.kind
        /\ SetModel(torn).tm.cfg = torn.tm.cfg /\ SetModel(torn).tm.on = torn.tm.on
        /\ SetModel(torn).col = torn.col
    BY <1>6, <1>7, SetModelStep DEF Kept, TmStep
  <2>4. Grounded(torn) => Grounded(SetModel(torn))
    BY <2>3 DEF Grounded
  <2>5. reb = IF g = "rebind" THEN torn ELSE SetModel(torn)
    BY DEF SetModel
  <2> HIDE DEF reb
  <2>6. QED
    BY <2>1, <2>2, <2>4, <2>5
<1> HIDE DEF reb
<1>9. /\ down \in Worlds /\ down.om = o /\ down.ops = a.ops /\ down.tm.on
      /\ Idle(down.tm) \subseteq Idle(w.tm)
      /\ ~kept /\ ~down.err => down.tm.live \subseteq Idle(w.tm)
  <2>1. ShutDown(ShutdownTensorManager(reb, g), reb, g)
    BY <1>8, ShutdownStep
  <2>2. reb.tm.on /\ Idle(reb.tm) = Idle(w.tm)
    BY <1>3, <1>8 DEF SameLoader, Idle
  <2>3. CASE kept
    BY <1>8, <2>2, <2>3
  <2>4. CASE ~kept
    BY <1>8, <2>1, <2>2, <2>4 DEF ShutDown, TmStep, Idle
  <2>5. QED
    BY <2>3, <2>4
<1>14. Grounded(w) => Grounded(down)
  <2>1. ShutDown(ShutdownTensorManager(reb, g), reb, g)
    BY <1>8, ShutdownStep
  <2>2. Grounded(reb) => Grounded(ShutdownTensorManager(reb, g))
    BY <2>1, ShutDownIsGrounded
  <2>3. QED
    BY <1>13, <2>2
<1> HIDE DEF down
<1>10. CASE kept \/ down.err
  <2> DEFINE q == [down.om EXCEPT !.blocked = TRUE, !.phase = "NOT_INITIALIZED",
                                  !.iter = 0, !.takeover = FALSE]
  <2>1. /\ q \in Managers /\ q.phase = "NOT_INITIALIZED" /\ q.hooks = {}
        /\ q.forwards = "plain" /\ q.manual = w.om.manual
    BY <1>4, <1>9 DEF Managers, Phases
  <2>2. held = [down EXCEPT !.om = q]
    BY <1>9 DEF Worlds
  <2> HIDE DEF q, held
  <2>3. OmStep(held, down) /\ held.om = q
    BY <1>9, <2>1, <2>2, OmChanges
  <2>4. held \in Worlds
    BY <2>3 DEF OmStep
  <2>5. /\ v \in Worlds /\ v.err /\ v.om = q /\ v.tm = down.tm /\ v.ops = down.ops
        /\ v.col = down.col
    BY <1>1, <1>10, <2>3, <2>4, StepsStay DEF OmStep
  <2>6. v.tm.built \in Nat
    BY <2>5 DEF Worlds, TensorManagers, TensorRecords
  <2>7. Grounded(down) => Grounded(v)
    BY <2>5 DEF Grounded
  <2>8. QED
    BY <1>3, <1>9, <1>14, <2>1, <2>5, <2>6, <2>7 DEF Cleaned, Sound, Registered, HookFollows, v
<1>11. CASE ~kept /\ ~down.err
  <2>1. LetGo(un, down)
    BY <1>4, <1>9, UnmanagedStep DEF HookFollows
  <2> HIDE DEF un
  <2> DEFINE q == [un.om EXCEPT !.iter = 0]
  <2>2. un \in Worlds /\ un.om \in Managers
    BY <2>1 DEF LetGo, Worlds
  <2>3. /\ q \in Managers /\ q.phase = un.om.phase /\ q.forwards = un.om.forwards
        /\ q.hooks = un.om.hooks /\ q.blocked = un.om.blocked
        /\ q.manual = un.om.manual
    BY <2>2 DEF Managers
  <2>4. gone = [un EXCEPT !.om = q]
    BY <2>2 DEF Worlds
  <2> HIDE DEF q, gone
  <2>5. OmStep(gone, un) /\ gone.om = q
    BY <2>2, <2>3, <2>4, OmChanges
  <2>6. LetGo(gone, down)
    BY <2>1, <2>3, <2>5 DEF LetGo, OmStep
  <2>7. /\ v \in Worlds /\ v.err /\ v.om = gone.om /\ v.tm = gone.tm /\ v.ops = gone.ops
        /\ v.col = gone.col
    BY <1>1, <1>11, <2>6, StepsStay DEF LetGo
  <2>8. Sound(gone)
    BY <1>3, <1>4, <1>9, <2>6, LetGoIsSound
  <2>9. Sound(v)
    BY <2>7, <2>8 DEF Sound, Bare, Registered
  <2>10. Grounded(v)
    BY <2>6, <2>7, LetGoIsGrounded DEF Grounded
  <2>11. QED
    BY <1>4, <1>9, <1>11, <2>6, <2>7, <2>9, <2>10 DEF Cleaned, LetGo, Idle, v
<1>12. QED
  BY <1>10, <1>11

(* The way of a saved state to inference. *)
Adopted(v, w) ==
  /\ v \in Worlds /\ Registered(v) /\ v.tm.on = w.tm.on
  /\ v.om.blocked = w.om.blocked /\ v.om.manual = w.om.manual
  /\ Idle(v.tm) \subseteq Idle(w.tm)
  /\ ~v.err => v.om.phase = "INFERENCE" /\ HookStands(v.om) /\ ~v.tm.restored
  /\ Rooted(v, w) /\ (~v.err => Serviced(v, w))

LEMMA AdoptStep ==
  ASSUME NEW w \in Worlds, NEW f, Registered(w), HookFollows(w.om), w.tm.weights = 0
  PROVE  Adopted(AdoptState(w, f), w)
<1> DEFINE o == [w.om EXCEPT !.takeover = TRUE]
           t == [w.tm EXCEPT !.restored = TRUE]
           moved == [w EXCEPT !.om.takeover = TRUE, !.tm.restored = TRUE]
           s == IF f = "execute" THEN Raise(moved) ELSE moved
           l == PrepareInferLoadMode(s, f)
           q == PatchModules(l)
           p == PrepareFinalModel(q)
           e == TransitionToInference(p, f)
           v == AdoptState(w, f)
<1>1. v = IF s.err THEN s ELSE IF l.err THEN l ELSE IF p.err THEN p ELSE e
  BY DEF AdoptState, Strike, Then
<1> HIDE DEF v
<1>2. /\ o \in Managers /\ o.hooks = w.om.hooks /\ o.handle = w.om.handle
      /\ o.blocked = w.om.blocked /\ o.manual = w.om.manual
  BY DEF Worlds, Managers
<1>3. /\ t \in TensorManagers /\ t.on = w.tm.on /\ t.built = w.tm.built
      /\ Idle(t) = Idle(w.tm) /\ t.weights = 0 /\ t.cfg = w.tm.cfg
      /\ t.kind = w.tm.kind /\ t.restored
  <2>1. t \in TensorManagers
    BY FieldFacts DEF Worlds
  <2>2. QED
    BY <2>1 DEF Worlds, TensorManagers, TensorRecords, Idle
<1>4. moved = [w EXCEPT !.om = o, !.tm = t]
  BY DEF Worlds
<1> HIDE DEF o, t, moved
<1>5. /\ moved \in Worlds /\ moved.om = o /\ moved.tm = t /\ moved.ops = w.ops
      /\ moved.col = w.col /\ moved.comp = w.comp
  BY <1>2, <1>3, <1>4 DEF Worlds
<1>6. /\ s \in Worlds /\ s.om = o /\ s.tm = t /\ s.ops = w.ops
      /\ s.col = w.col /\ s.comp = w.comp
  BY <1>5, StepsStay
<1> HIDE DEF s
<1>11. Rooted(s, w)
  BY <1>3, <1>6 DEF Rooted, Grounded
<1>7. /\ w.tm.built \in Nat /\ w.ops.loader \in Nat
  BY DEF Worlds, TensorManagers, TensorRecords, Slots
<1>8. CASE s.err
  BY <1>1, <1>2, <1>3, <1>6, <1>8, <1>11 DEF Adopted, Registered, HookFollows, v
<1>9. CASE ~s.err
  <2>1. LoadMade(l, s, f)
    BY <1>6, <1>9, PrepareInferLoadModeStep
  <2> HIDE DEF l
  <2>2. /\ l \in Worlds /\ l.om = o /\ l.ops = w.ops /\ l.tm.on = w.tm.on
        /\ l.tm.built >= w.tm.built /\ Idle(l.tm) \subseteq Idle(w.tm)
        /\ l.tm.weights = 0 /\ l.tm.cfg = w.tm.cfg /\ l.tm.restored /\ l.comp = w.comp
    BY <1>3, <1>6, <2>1 DEF LoadMade, TmStep
  <2>6. Rooted(l, w)
    BY <1>6, <2>1, <2>2 DEF Rooted, Grounded, LoadMade, NewLoader, TmStep
  <2>3. CASE l.err
    <3>1. l.tm.built \in Nat
      BY <2>2 DEF Worlds, TensorManagers, TensorRecords
    <3>2. QED
      BY <1>1, <1>2, <1>7, <1>9, <2>2, <2>3, <2>6, <3>1 DEF Adopted, Registered, HookFollows, v
  <2>4. CASE ~l.err
    <3>1. /\ OmStep(q, l) /\ q.om.hooks = o.hooks /\ q.om.handle = o.handle
          /\ q.om.blocked = o.blocked /\ q.om.forwards = "eager"
          /\ q.om.manual = o.manual
      BY <2>2, PatchStep
    <3> HIDE DEF q
    <3>2. q \in Worlds
      BY <3>1 DEF OmStep
    <3>3. Kept(p, q)
      BY <3>2, PrepareFinalModelStep
    <3>12. /\ p.tm.loader = l.tm.loader /\ p.tm.kind = "infer" /\ p.tm.live = l.tm.live
           /\ p.tm.restored /\ p.tm.cfg = w.tm.cfg /\ p.tm.weights = Views(p.tm, 0)
           /\ p.col = l.col /\ p.comp = w.comp /\ p.om.forwards = "eager"
           /\ l.tm.loader # 0 /\ l.tm.loader \in l.tm.live
      <4>1. q.tm = l.tm /\ q.col = l.col /\ q.comp = l.comp
        BY <3>1 DEF OmStep
      <4>2. p.tm.weights = IF ~q.tm.cfg.block THEN q.tm.weights
                           ELSE IF q.tm.weights = 0 THEN q.tm.loader ELSE Stale
        BY <3>2, PrepareFinalModelStep
      <4>3. /\ p.tm.loader = q.tm.loader /\ p.tm.kind = q.tm.kind /\ p.tm.live = q.tm.live
            /\ p.tm.restored = q.tm.restored /\ p.tm.cfg = q.tm.cfg
            /\ p.col = q.col /\ p.comp = q.comp /\ p.om = q.om
        BY <3>3 DEF Kept, TmStep
      <4>4. NewLoader(l, s)
        BY <2>1, <2>4 DEF LoadMade
      <4>5. l.tm.loader # 0 /\ l.tm.loader \in l.tm.live /\ l.tm.kind = "infer"
        BY <1>6, <4>4 DEF NewLoader, Worlds, TensorManagers, TensorRecords
      <4> HIDE DEF p
      <4>6. QED
        BY <2>2, <3>1, <4>1, <4>2, <4>3, <4>5 DEF Views
    <3> HIDE DEF p
    <3>13. Rooted(p, w)
      <4>1. p.tm.on = l.tm.on
        BY <3>1, <3>3 DEF Kept, TmStep, OmStep
      <4>2. Grounded(l) => Grounded(p)
        BY <2>2, <3>12, <4>1 DEF Grounded, Views
      <4>3. QED
        BY <2>6, <4>2 DEF Rooted
    <3>4. /\ p \in Worlds /\ p.om = q.om /\ ~p.err /\ p.ops = w.ops
          /\ p.tm.on = w.tm.on /\ p.tm.built >= w.tm.built /\ p.tm.built \in Nat
          /\ Idle(p.tm) \subseteq Idle(w.tm)
      <4>1. p.tm.built \in Nat /\ l.tm.built \in Nat /\ q.tm = l.tm
        BY <2>2, <3>1, <3>3 DEF Kept, OmStep, TmStep, Worlds, TensorManagers, TensorRecords
      <4>2. QED
        BY <1>7, <2>2, <2>4, <3>1, <3>3, <4>1 DEF Kept, OmStep, TmStep
    <3>5. Registered(p) /\ HookFollows(p.om) /\ p.om.blocked = w.om.blocked
          /\ p.om.manual = w.om.manual
      BY <1>2, <1>7, <3>1, <3>4 DEF Registered, HookFollows
    <3>6. ToInference(e, p, f)
      BY <3>4, <3>5, TransitionToInferenceStep
    <3> HIDE DEF e
    <3>7. v = e
      BY <1>1, <1>9, <2>4, <3>4
    <3>8. /\ e \in Worlds /\ Registered(e) /\ e.tm.on = w.tm.on
          /\ Idle(e.tm) \subseteq Idle(w.tm) /\ ~e.tm.restored
      BY <3>4, <3>6 DEF ToInference, SameSettings
    <3>14. Rooted(e, w)
      BY <3>4, <3>6, <3>13 DEF ToInference, Rooted
    <3>9. CASE InferenceFails(p, f) \/ f = "swap"
      <4>1. e.err /\ e.om = p.om
        BY <3>6, <3>9 DEF ToInference
      <4>2. QED
        BY <3>5, <3>7, <3>8, <3>14, <4>1 DEF Adopted, v
    <3>10. CASE ~(InferenceFails(p, f) \/ f = "swap")
      <4>1. PICK z \in Managers :
               /\ Swapped(z, p.om, UserModel(p), "INFERENCE")
               /\ e.om = IF p.comp.active THEN [z EXCEPT !.forwards = "compiled"] ELSE z
        BY <3>6, <3>10 DEF ToInference
      <4>2. /\ e.om.phase = "INFERENCE" /\ e.om.blocked = w.om.blocked
            /\ e.om.manual = w.om.manual
            /\ e.om.hooks = {Hooked(e.om)} /\ e.om.handle = Hooked(e.om)
        BY <3>5, <4>1 DEF Swapped, Hooked, Managers
      <4>3. ASSUME ~e.err PROVE Serviced(e, w)
        <5>1. e.comp.active = w.comp.active /\ (w.comp.active => FitAfter(p))
          BY <3>6, <3>10, <3>12, <4>3 DEF ToInference
        <5>2. /\ e.tm.loader = p.tm.loader /\ e.tm.kind = p.tm.kind
              /\ e.tm.live = p.tm.live /\ e.tm.weights = p.tm.weights
              /\ e.tm.cfg = p.tm.cfg
          BY <3>6, <3>12 DEF ToInference, InferenceTm, SameSettings
        <5>3. e.om.forwards = IF w.comp.active THEN "compiled" ELSE "eager"
          BY <3>12, <4>1 DEF Swapped, Managers
        <5>4. w.comp.active => e.ops.loader = e.tm.loader
          BY <3>6, <3>10, <3>12, <5>1 DEF ToInference
        <5>5. ~w.comp.active => e.comp = w.comp
          BY <3>6, <3>10, <3>12 DEF ToInference
        <5>6. QED
          BY <3>12, <4>2, <5>1, <5>2, <5>3, <5>4, <5>5
          DEF Serviced, Infers, FitAfter, Views
      <4>4. QED
        BY <3>7, <3>8, <3>14, <4>2, <4>3 DEF Adopted, HookStands, HookFollows, v
    <3>11. QED
      BY <3>9, <3>10
  <2>5. QED
    BY <2>3, <2>4
<1>10. QED
  BY <1>8, <1>9

TakenOver(v, w) == SetUp(v, w) /\ (v.err => v.om.phase = w.om.phase)

LEMMA OffloadFromStateStep ==
  ASSUME NEW w \in Worlds, NEW c \in ConfigType, NEW f, NEW g, ~w.err, Sound(w),
         w.om.phase = "NOT_INITIALIZED", ~w.tm.on
  PROVE  TakenOver(OffloadFromState(w, c, f, g), w)
<1> DEFINE m == [w EXCEPT !.om.manual = FALSE]
           r == ResolveActivation(m, c)
           n == InitManager(r, c, f)
           i == IF r.err THEN r ELSE n
           a == ArmNonDestructiveFirstLoader(i)
           s == IF f = "plan" THEN Raise(a) ELSE a
           d == AdoptState(s, f)
           v == OffloadFromState(w, c, f, g)
<1>1. v = IF w.om.blocked \/ w.om.takeover \/ w.om.phase # "NOT_INITIALIZED" THEN Raise(w)
          ELSE IF r.err THEN r
          ELSE IF i.err THEN TeardownCompiled(i)
          ELSE IF d.err THEN CleanupFailedStateTakeover(d, g)
          ELSE d
  BY DEF OffloadFromState, Then, Strike
<1> HIDE DEF v
<1>2. OmStep(m, w) /\ SameStation(m.om, w.om) /\ ~m.om.manual
  BY ManualStep
<1> HIDE DEF m
<1>3. Registered(w) /\ w.tm.built \in Nat
  BY DEF Sound, Worlds, TensorManagers, TensorRecords
<1>4. /\ r \in Worlds /\ Registered(r) /\ SameStation(r.om, w.om) /\ ~r.om.manual
      /\ SameLoader(r.tm, w.tm) /\ r.col = w.col
      /\ r.err => r.ops = w.ops /\ r.tm = w.tm
      /\ ~r.err => r.ops.loader = 0 /\ r.comp = Activation(c)
  BY <1>2, <1>3, ResolvedOver
<1> HIDE DEF r
<1>5. CASE v = Raise(w)
  <2>1. /\ v \in Worlds /\ v.err /\ v.om = w.om /\ v.tm = w.tm /\ v.ops = w.ops
        /\ v.col = w.col
    BY <1>5, StepsStay
  <2>2. SetUp(v, w)
    BY <1>3, <2>1, Stays DEF SameStation, SameLoader, Registered
  <2>3. QED
    BY <2>1, <2>2 DEF TakenOver, v
<1>6. CASE v = r /\ r.err
  <2>1. SetUp(r, w)
    BY <1>4, <1>6, Stays
  <2>2. QED
    BY <1>4, <1>6, <2>1 DEF TakenOver, SameStation, v
<1>7. CASE ~r.err /\ ~(v = Raise(w))
  <2>1. i = n
    BY <1>7
  <2>2. Inited(n, r, c)
    BY <1>4, <1>7, InitManagerStep
  <2> HIDE DEF n, i
  <2>3. /\ i \in Worlds /\ Registered(i) /\ i.ops.loader = 0
        /\ SameStation(i.om, w.om) /\ i.tm.live = w.tm.live /\ i.col = w.col
        /\ i.comp = Activation(c) /\ ~i.om.manual
    BY <1>4, <1>7, <2>1, <2>2 DEF Inited, SameStation, SameLoader
  <2>7. Grounded(w) => Grounded(i)
    BY <1>4, <2>1, <2>2, GroundedSame, InitedGrounds
  <2>4. CASE i.err
    <3>1. TornCompiled(TeardownCompiled(i), i)
      BY <2>3, TeardownCompiledStep
    <3>2. v = TeardownCompiled(i)
      BY <1>1, <1>7, <2>4
    <3>3. SameLoader(i.tm, w.tm)
      BY <1>4, <2>1, <2>2, <2>4 DEF Inited
    <3>4. ClearActiveLoader(i.ops).loader = 0
      BY <2>3, SlotTypes DEF Worlds
    <3>5. /\ v \in Worlds /\ v.err /\ v.om = i.om /\ SameLoader(v.tm, w.tm)
          /\ v.ops.loader = 0 /\ v.tm.built = w.tm.built /\ v.col = w.col
      BY <2>3, <2>4, <3>1, <3>2, <3>3, <3>4 DEF TornCompiled, SameLoader
    <3>6. SetUp(v, w)
      BY <1>3, <2>3, <3>5, Stays DEF Registered
    <3>7. QED
      BY <2>3, <3>5, <3>6 DEF TakenOver, SameStation, v
  <2>5. CASE ~i.err
    <3>1. i.tm.on /\ ~i.om.blocked /\ i.tm.weights = 0
      BY <1>4, <2>1, <2>2, <2>5 DEF Inited, SameLoader
    <3>2. /\ a \in Worlds /\ a.om = i.om /\ a.ops = i.ops /\ SameLoader(a.tm, i.tm)
          /\ a.col = i.col /\ a.comp = i.comp
      BY <2>3, ArmFirstStep
    <3> HIDE DEF a
    <3>3. /\ s \in Worlds /\ s.om = i.om /\ s.ops = i.ops /\ s.tm = a.tm
          /\ s.col = a.col /\ s.comp = a.comp
      BY <3>2, StepsStay
    <3> HIDE DEF s
    <3>4. /\ HookFollows(s.om) /\ s.tm.built \in Nat /\ s.tm.on /\ ~s.om.blocked
          /\ s.tm.live = w.tm.live /\ s.tm.weights = 0
      <4>1. s.tm.built \in Nat
        BY <3>3 DEF Worlds, TensorManagers, TensorRecords
      <4>2. QED
        BY <2>3, <3>1, <3>2, <3>3, <4>1 DEF SameLoader, SameStation, Sound, HookFollows
    <3>5. Registered(s)
      BY <2>3, <3>3, <3>4 DEF Registered
    <3>6. Adopted(d, s)
      BY <3>3, <3>4, <3>5, AdoptStep
    <3> HIDE DEF d
    <3>11. Grounded(w) => Grounded(d)
      <4>1. SameLoader(s.tm, i.tm) /\ s.col = i.col
        BY <3>2, <3>3
      <4>2. Grounded(i) => Grounded(s)
        BY <4>1, GroundedSame
      <4>3. QED
        BY <2>7, <3>4, <3>6, <4>2 DEF Adopted, Rooted
    <3>7. Idle(s.tm) \subseteq w.tm.live
      BY <3>4 DEF Idle
    <3>12. Settled(v, w)
      <4>1. ~d.om.manual /\ ~d.om.blocked /\ d \in Worlds /\ d.tm.on
        BY <2>3, <3>3, <3>4, <3>6 DEF Adopted
      <4>2. d.err => v.err /\ ~v.om.manual
        BY <1>1, <1>7, <2>5, <4>1, CleanupStep DEF Cleaned
      <4>3. ~d.err => v = d
        BY <1>1, <1>7, <2>5
      <4>4. QED
        BY <4>1, <4>2, <4>3 DEF Settled
    <3>8. CASE d.err
      <4>1. v = CleanupFailedStateTakeover(d, g)
        BY <1>1, <1>7, <2>5, <3>8
      <4>2. d \in Worlds /\ d.tm.on /\ ~d.om.blocked
        BY <3>4, <3>6 DEF Adopted
      <4>3. Cleaned(v, d)
        BY <4>1, <4>2, CleanupStep
      <4>4. QED
        BY <3>6, <3>7, <3>11, <3>12, <4>3 DEF Cleaned, SetUp, TakenOver, Adopted, v
    <3>9. CASE ~d.err
      <4>1. v = d
        BY <1>1, <1>7, <2>5, <3>9
      <4>2. Sound(d)
        BY <3>4, <3>6, <3>9 DEF Adopted, Sound, HookStands
      <4>3. s.comp = Activation(c) /\ d \in Worlds /\ Serviced(d, s)
        BY <2>3, <3>2, <3>3, <3>6, <3>9 DEF Adopted
      <4>4. Grounded(d) => AtWork(d, FALSE, FALSE)
        BY <4>3, ServicedIsAtWork
      <4>5. QED
        BY <3>6, <3>7, <3>9, <3>11, <3>12, <4>1, <4>2, <4>4 DEF Adopted, SetUp, Starts, TakenOver, v
    <3>10. QED
      BY <3>8, <3>9
  <2>6. QED
    BY <2>4, <2>5
<1>8. QED
  BY <1>1, <1>5, <1>6, <1>7

LEMMA InstallForwardsStep ==
  ASSUME NEW w \in Worlds
  PROVE  LET v == InstallCompiledForwards(w)
         IN  /\ OmStep(v, w)
             /\ v.om.phase = w.om.phase /\ v.om.hooks = w.om.hooks
             /\ v.om.handle = w.om.handle /\ v.om.blocked = w.om.blocked
             /\ v.om.manual = w.om.manual
             /\ v.om.forwards = IF w.comp.active THEN "compiled" ELSE w.om.forwards
<1> DEFINE o == [w.om EXCEPT !.forwards = "compiled"]
           v == InstallCompiledForwards(w)
<1>1. /\ o \in Managers /\ o.phase = w.om.phase /\ o.hooks = w.om.hooks
      /\ o.handle = w.om.handle /\ o.blocked = w.om.blocked
      /\ o.manual = w.om.manual /\ o.forwards = "compiled"
  BY DEF Worlds, Managers
<1>2. v = IF w.comp.active THEN [w EXCEPT !.om = o] ELSE w
  BY DEF InstallCompiledForwards, Worlds
<1> HIDE DEF o, v
<1>3. OmStep([w EXCEPT !.om = o], w) /\ [w EXCEPT !.om = o].om = o
  BY <1>1, OmChanges
<1>4. OmStep(w, w)
  BY DEF OmStep
<1>5. QED
  BY <1>1, <1>2, <1>3, <1>4 DEF v

(* A manager without hooks that has its tensor manager. *)
LEMMA Hookless ==
  ASSUME NEW v \in Worlds, Registered(v), v.tm.on, v.om.hooks = {}
  PROVE  Sound(v)
BY DEF Sound, HookFollows

LEMMA RestoredStep ==
  ASSUME NEW w \in Worlds, NEW flag \in BOOLEAN
  PROVE  LET v == [w EXCEPT !.tm.restored = flag]
         IN  /\ v \in Worlds /\ v.om = w.om /\ v.comp = w.comp /\ v.ops = w.ops
             /\ v.err = w.err /\ v.tm.on = w.tm.on /\ v.tm.built = w.tm.built
             /\ v.tm.live = w.tm.live /\ v.tm.loader = w.tm.loader
             /\ v.tm.restored = flag /\ v.tm.weights = w.tm.weights
             /\ v.tm.kind = w.tm.kind /\ v.tm.cfg = w.tm.cfg /\ v.col = w.col
<1> DEFINE t == [w.tm EXCEPT !.restored = flag]
           v == [w EXCEPT !.tm.restored = flag]
<1>1. t \in TensorManagers
  BY FieldFacts DEF Worlds
<1>2. /\ t.on = w.tm.on /\ t.built = w.tm.built /\ t.live = w.tm.live
      /\ t.loader = w.tm.loader /\ t.restored = flag /\ t.weights = w.tm.weights
      /\ t.kind = w.tm.kind /\ t.cfg = w.tm.cfg
  BY DEF Worlds, TensorManagers, TensorRecords
<1>3. v = [w EXCEPT !.tm = t]
  BY DEF Worlds
<1> HIDE DEF t, v
<1>4. /\ v \in Worlds /\ v.tm = t /\ v.om = w.om /\ v.comp = w.comp
      /\ v.ops = w.ops /\ v.err = w.err /\ v.col = w.col
  BY <1>1, <1>3, Changes
<1>5. QED
  BY <1>2, <1>4 DEF v

LEMMA FollowStep ==
  ASSUME NEW w \in Worlds, NEW c \in ConfigType, NEW f, ~w.err, Sound(w), ~w.tm.on
  PROVE  SetUp(InitializeFromShm(w, c, f), w)
<1> DEFINE m == [w EXCEPT !.om.cfg = c]
           r == ResolveActivation(m, c)
           n == InitializeTensorManager(r, c, f)
           a == ArmNonDestructiveFirstLoader(n)
           b == [a EXCEPT !.tm.restored = TRUE]
           u == InitializeWarmup(b, f)
           x == [u EXCEPT !.tm.restored = FALSE]
           q == PatchModules(x)
           i == InstallCompiledForwards(q)
           e == OnEnterInference(i)
           s == InstallStateUpdateHook(e.om)
           o == [s EXCEPT !.phase = "INFERENCE"]
           h == [e EXCEPT !.om = o]
           v == InitializeFromShm(w, c, f)
<1>1. v = IF r.err THEN r ELSE IF n.err THEN n ELSE IF b.err THEN b
          ELSE IF u.err THEN u ELSE IF i.err THEN i ELSE IF e.err THEN e ELSE h
  BY DEF InitializeFromShm, Then
<1> HIDE DEF v
<1>2. OmStep(m, w) /\ SameStation(m.om, w.om) /\ m.om.manual = w.om.manual
  BY ConfigStep
<1> HIDE DEF m
<1>3. /\ Registered(w) /\ w.tm.built \in Nat
      /\ w.om.phase = "NOT_INITIALIZED" /\ ~w.om.blocked /\ w.om.hooks = {}
  BY DEF Sound, Worlds, TensorManagers, TensorRecords
<1>4. /\ r \in Worlds /\ Registered(r) /\ SameStation(r.om, w.om)
      /\ r.om.manual = w.om.manual
      /\ SameLoader(r.tm, w.tm) /\ r.col = w.col
      /\ r.err => r.ops = w.ops /\ r.tm = w.tm
      /\ ~r.err => r.ops.loader = 0 /\ r.comp = Activation(c)
  BY <1>2, <1>3, ResolvedOver
<1> HIDE DEF r
<1>9. ASSUME NEW y, y.om.manual = w.om.manual, ~y.om.blocked
      PROVE  Settled(y, w)
  BY <1>3, <1>9 DEF Settled
<1>5. CASE r.err
  BY <1>1, <1>4, <1>5, Stays DEF v
<1>6. CASE ~r.err /\ f = "init"
  <2>1. n = Raise(r)
    BY <1>4, <1>6, InitializeTensorManagerStep
  <2> HIDE DEF n
  <2>2. /\ n \in Worlds /\ n.err /\ n.om = r.om /\ n.tm = r.tm /\ n.ops = r.ops
        /\ n.col = r.col
    BY <1>4, <2>1, StepsStay
  <2>3. SetUp(n, w)
    BY <1>4, <1>6, <2>2, Stays DEF Registered
  <2>4. QED
    BY <1>1, <1>6, <2>2, <2>3 DEF v
<1>7. CASE ~r.err /\ f # "init"
  <2>1. Initialized(n, r, c)
    BY <1>4, <1>7, InitializeTensorManagerStep
  <2> HIDE DEF n
  <2>2. /\ n \in Worlds /\ ~n.err /\ n.om.hooks = {} /\ n.om.handle = w.om.handle
        /\ n.ops.loader = 0 /\ n.tm.on /\ n.tm.live = w.tm.live
        /\ ~n.om.blocked /\ n.tm.weights = 0 /\ n.tm.kind = "none" /\ n.col = w.col
        /\ n.comp = Activation(c) /\ n.om.manual = w.om.manual
    BY <1>3, <1>4, <1>7, <2>1 DEF Initialized, SameStation, SameLoader
  <2>3. /\ a \in Worlds /\ ~a.err /\ a.om = n.om /\ a.ops = n.ops /\ SameLoader(a.tm, n.tm)
        /\ a.col = n.col /\ a.comp = n.comp
    BY <2>2, ArmFirstStep
  <2> HIDE DEF a
  <2>4. /\ b \in Worlds /\ ~b.err /\ b.om = n.om /\ b.ops = n.ops /\ b.tm.on
        /\ b.tm.live = w.tm.live /\ b.tm.restored /\ b.tm.weights = 0
        /\ b.tm.kind = "none" /\ b.col = w.col /\ b.comp = Activation(c)
    BY <2>2, <2>3, RestoredStep DEF SameLoader
  <2> HIDE DEF b
  <2>5. WarmedUp(u, b, f)
    BY <2>4, InitializeWarmupStep
  <2> HIDE DEF u
  <2>6. /\ u \in Worlds /\ u.om = n.om /\ u.ops.loader = 0 /\ u.tm.on
        /\ Idle(u.tm) \subseteq w.tm.live /\ u.tm.built \in Nat
    BY <2>2, <2>4, <2>5 DEF WarmedUp, Worlds, TensorManagers, TensorRecords
  <2>10. u.comp = Activation(c) /\ (Grounded(w) => Grounded(u))
    <3>1. u.comp = Activation(c) /\ u.tm.on /\ u.tm.cfg = b.tm.cfg
      BY <2>4, <2>5 DEF WarmedUp
    <3>2. CASE u.err
      BY <2>4, <2>5, <3>1, <3>2, <1>3 DEF WarmedUp, Grounded
    <3>3. CASE ~u.err
      BY <2>4, <2>5, <3>1, <3>3 DEF WarmedUp, Grounded, NewLoader
    <3>4. QED
      BY <3>2, <3>3
  <2>7. CASE u.err
    <3>1. Sound(u)
      BY <2>2, <2>6, Hookless DEF Registered
    <3>2. QED
      BY <1>1, <1>7, <1>9, <2>2, <2>4, <2>6, <2>7, <2>10, <3>1 DEF SetUp, v
  <2>8. CASE ~u.err
    <3>1. /\ x \in Worlds /\ ~x.err /\ x.om = n.om /\ x.ops.loader = 0 /\ x.tm.on
          /\ Idle(x.tm) \subseteq w.tm.live /\ ~x.tm.restored
          /\ x.tm.loader = u.tm.loader /\ x.tm.live = u.tm.live /\ x.tm.kind = u.tm.kind
          /\ x.tm.weights = u.tm.weights /\ x.tm.cfg = u.tm.cfg /\ x.col = u.col
          /\ x.comp = Activation(c)
      <4>1. /\ x \in Worlds /\ x.om = u.om /\ x.ops = u.ops /\ x.err = u.err
            /\ x.tm.on = u.tm.on /\ x.tm.live = u.tm.live
            /\ x.tm.loader = u.tm.loader /\ x.tm.restored = FALSE
            /\ x.tm.kind = u.tm.kind /\ x.tm.weights = u.tm.weights
            /\ x.tm.cfg = u.tm.cfg /\ x.col = u.col /\ x.comp = u.comp
        BY <2>6, RestoredStep
      <4> HIDE DEF x
      <4>2. QED
        BY <2>6, <2>8, <2>10, <4>1 DEF Idle
    <3> HIDE DEF x
    <3>11. /\ x.tm.loader # 0 /\ x.tm.loader \in x.tm.live /\ x.tm.kind = "infer"
           /\ x.tm.weights = Views(x.tm, 0)
      <4>1. /\ NewLoader(u, b)
            /\ u.tm.weights = IF ~b.tm.cfg.block THEN b.tm.weights
                              ELSE IF b.tm.weights = 0 THEN u.tm.loader ELSE Stale
            /\ u.tm.cfg = b.tm.cfg
        BY <2>4, <2>5, <2>8 DEF WarmedUp
      <4>2. b.tm.built \in Nat
        BY <2>4 DEF Worlds, TensorManagers, TensorRecords
      <4>3. u.tm.loader # 0 /\ u.tm.loader \in u.tm.live /\ u.tm.kind = "infer"
        BY <2>6, <4>1, <4>2 DEF NewLoader
      <4>4. QED
        BY <2>4, <3>1, <4>1, <4>3 DEF Views
    <3>12. Grounded(w) => Grounded(x)
      BY <2>6, <2>10, <3>1 DEF Grounded
    <3>2. /\ OmStep(q, x) /\ q.om.hooks = {} /\ q.om.handle = n.om.handle
          /\ ~q.om.blocked /\ q.om.forwards = "eager" /\ q.om.manual = w.om.manual
      BY <2>2, <3>1, PatchStep
    <3> HIDE DEF q
    <3>3. q \in Worlds
      BY <3>2 DEF OmStep
    <3>4. /\ OmStep(i, q) /\ i.om.hooks = {} /\ i.om.handle = n.om.handle
          /\ ~i.om.blocked /\ i.om.manual = w.om.manual
          /\ i.om.forwards = IF q.comp.active THEN "compiled" ELSE "eager"
      BY <3>2, <3>3, InstallForwardsStep
    <3> HIDE DEF i
    <3>5. /\ i \in Worlds /\ ~i.err /\ i.tm = x.tm /\ i.ops = x.ops /\ i.col = x.col
          /\ i.comp = Activation(c) /\ q.comp = Activation(c)
      BY <3>1, <3>2, <3>4 DEF OmStep
    <3>6. Entered(e, i)
      BY <3>5, OnEnterInferenceStep
    <3> HIDE DEF e
    <3>7. /\ e \in Worlds /\ e.om = i.om /\ e.tm = x.tm /\ e.ops.loader \in {0, x.tm.loader}
      BY <3>1, <3>5, <3>6 DEF Entered
    <3>13. Grounded(w) => Grounded(e)
      BY <3>5, <3>6, <3>12 DEF Entered, Grounded
    <3>8. Registered(e)
      BY <3>7 DEF Registered, Worlds, TensorManagers, TensorRecords, InBounds
    <3>9. CASE e.err
      <4>1. Sound(e)
        BY <3>1, <3>4, <3>7, <3>8, Hookless
      <4>2. Settled(e, w)
        BY <1>9, <3>4, <3>7
      <4>3. QED
        BY <1>1, <1>7, <2>2, <2>4, <2>8, <3>1, <3>5, <3>7, <3>9, <3>13, <4>1, <4>2 DEF SetUp, v
    <3>10. CASE ~e.err
      <4>1. e.om \in Managers /\ HookFollows(e.om)
        BY <3>4, <3>7 DEF Worlds, HookFollows
      <4>2. /\ s \in Managers /\ s.hooks = {Hooked(s)} /\ s.handle = Hooked(s)
            /\ s = [e.om EXCEPT !.serial = s.serial, !.hooks = s.hooks, !.handle = s.handle]
        BY <4>1, HookStep
      <4> HIDE DEF s
      <4>10. /\ s.forwards = e.om.forwards
             /\ s.manual = e.om.manual /\ s.blocked = e.om.blocked
        BY <4>1, <4>2 DEF Managers
      <4>3. /\ o \in Managers /\ o.phase = "INFERENCE" /\ HookStands(o)
            /\ o.forwards = s.forwards /\ o.manual = s.manual /\ o.blocked = s.blocked
        BY <4>2 DEF Managers, Phases, HookStands, HookFollows, Hooked
      <4> HIDE DEF o
      <4>4. OmStep(h, e) /\ h.om = o
        BY <3>7, <4>3, OmChanges
      <4>5. v = h
        BY <1>1, <1>7, <2>2, <2>4, <2>8, <3>5, <3>10
      <4> HIDE DEF h
      <4>6. /\ h \in Worlds /\ Registered(h) /\ h.tm = x.tm
        BY <3>7, <3>8, <4>4 DEF OmStep, Registered
      <4>7. Sound(h)
        BY <3>1, <4>3, <4>4, <4>6 DEF Sound, HookStands
      <4>9. Grounded(w) => Grounded(h)
        BY <3>13, <4>4 DEF OmStep, Grounded
      <4>11. Serviced(h, i)
        <5>1. /\ h.ops = e.ops /\ h.comp = e.comp /\ h.om.phase = "INFERENCE"
              /\ h.om.forwards = IF i.comp.active THEN "compiled" ELSE "eager"
          BY <3>4, <3>5, <3>7, <4>3, <4>4, <4>10 DEF OmStep
        <5>2. /\ e.comp.active = i.comp.active /\ (i.comp.active => Fit(i.tm))
              /\ i.comp.active => e.ops.loader = i.tm.loader
              /\ ~i.comp.active => e.comp = i.comp
          BY <3>6, <3>10 DEF Entered
        <5>3. QED
          BY <3>5, <3>11, <4>6, <5>1, <5>2 DEF Serviced, Infers, Fit, Views
      <4>12. Grounded(h) => AtWork(h, FALSE, FALSE)
        BY <3>5, <4>6, <4>11, ServicedIsAtWork
      <4>13. Settled(h, w)
        BY <1>9, <3>4, <3>7, <4>3, <4>4, <4>10
      <4>8. QED
        BY <3>1, <4>3, <4>4, <4>5, <4>6, <4>7, <4>9, <4>12, <4>13 DEF SetUp, Starts, v
    <3>14. QED
      BY <3>9, <3>10
  <2>9. QED
    BY <2>7, <2>8
<1>8. QED
  BY <1>5, <1>6, <1>7

------------------------------------------------------------------------------
(* The inductive invariant.                                                *)

Users ==
  [pass : Nat, graph : Nat, due : BOOLEAN, faults : Nat, broken : BOOLEAN,
   hooked : BOOLEAN]

Histories ==
  [fresh : BOOLEAN, driven : Nat, failures : Nat,
   served : {"none", "ok", "raise", "garbage"}, halfway : BOOLEAN,
   rearmed : BOOLEAN, dropped : SUBSET Nat, from : Nat]

(* While discovery drives a manager its loader, if any, is one a failed    *)
(* swap dropped: the next attempt builds another.                          *)
Inv ==
  /\ Sound(World)
  /\ user \in Users /\ hist \in Histories
  /\ om.phase # "NOT_INITIALIZED" /\ ~user.broken => HookStands(om)
  /\ Idle(tm) \subseteq hist.dropped
  /\ om.phase = "DISCOVERY" /\ ~user.broken => tm.loader \in {0} \cup hist.dropped

LEMMA WorldFields ==
  /\ World.om = om /\ World.tm = tm /\ World.comp = comp /\ World.ops = ops
  /\ World.col = col /\ ~World.err /\ ~World.applied
BY DEF World

LEMMA Becoming ==
  ASSUME NEW w \in Worlds, Become(w)
  PROVE  /\ World' \in Worlds /\ World'.om = w.om /\ World'.tm = w.tm
         /\ World'.ops = w.ops /\ om' = w.om /\ tm' = w.tm
BY DEF Become, World, Worlds

LEMMA SoundAfter ==
  ASSUME NEW w, Sound(w), Become(w)
  PROVE  Sound(World)' /\ om' = w.om /\ tm' = w.tm
<1>1. w \in Worlds
  BY DEF Sound
<1>2. /\ World' \in Worlds /\ World'.om = w.om /\ World'.tm = w.tm
      /\ World'.ops = w.ops /\ om' = w.om /\ tm' = w.tm
  BY <1>1, Becoming
<1>3. Sound(World')
  BY <1>2 DEF Sound, Bare, Registered
<1>4. QED
  BY <1>2, <1>3

(* A call on a manager that serves. *)
LEMMA Continues ==
  ASSUME Inv, NEW w, NEW f, Become(w), Moved(w, World, f),
         om.phase # "NOT_INITIALIZED",
         user' \in Users, user'.broken = user.broken, ~user.broken,
         hist' \in Histories, hist.dropped \subseteq hist'.dropped,
         f = "swap" /\ Driving => w.tm.loader \in hist'.dropped
  PROVE  Inv'
<1>1. /\ w \in Worlds /\ Registered(w) /\ SameSettings(w.tm, tm)
      /\ w.om.phase # "NOT_INITIALIZED" /\ HookStands(w.om)
      /\ w.om.blocked = om.blocked
  BY WorldFields DEF Moved
<1>2. tm.on /\ tm \in TensorManagers
  BY WorldFields DEF Inv, Sound, Worlds
<1>3. Sound(w)
  BY <1>1, <1>2 DEF Sound, SameSettings, HookStands
<1>4. Sound(World)' /\ om' = w.om /\ tm' = w.tm
  BY <1>3, SoundAfter
<1>5. 0 \notin tm.live
  BY <1>2 DEF TensorManagers, InBounds
<1>6. w.tm.live \subseteq Nat /\ 0 \notin w.tm.live
  BY <1>1 DEF Worlds, TensorManagers, TensorRecords, InBounds
<1>7. Idle(tm') \subseteq hist'.dropped
  <2>1. CASE om.phase = "DISCOVERY"
    <3>1. Idle(w.tm) \subseteq tm.live
      BY <2>1, WorldFields DEF Moved
    <3>2. tm.live \subseteq hist.dropped
      BY <1>5, <2>1 DEF Inv, Idle
    <3>3. QED
      BY <1>4, <3>1, <3>2
  <2>2. CASE om.phase # "DISCOVERY"
    <3>1. Idle(w.tm) \subseteq Idle(tm)
      BY <2>2, WorldFields DEF Moved
    <3>2. QED
      BY <1>4, <3>1 DEF Inv
  <2>3. QED
    BY <2>1, <2>2
<1>8. ASSUME om'.phase = "DISCOVERY"
      PROVE  tm'.loader \in {0} \cup hist'.dropped
  <2>1. om.phase = "DISCOVERY" /\ (w.tm.loader \in {0, tm.loader} \/ f = "swap")
    BY <1>4, <1>8, WorldFields DEF Moved
  <2>2. tm.loader \in {0} \cup hist.dropped
    BY <2>1 DEF Inv
  <2>3. QED
    BY <1>4, <2>1, <2>2 DEF Driving
<1>9. QED
  BY <1>1, <1>4, <1>7, <1>8 DEF Inv

(* A call that sets a manager up. *)
LEMMA Begins ==
  ASSUME Inv, NEW w, Become(w), SetUp(w, World), NewSession(w), user' \in Users,
         user'.broken \/ ~w.err \/ w.om.phase = "NOT_INITIALIZED"
  PROVE  Inv'
<1>1. Sound(w) /\ w \in Worlds /\ Idle(w.tm) \subseteq tm.live
  BY WorldFields DEF SetUp, Sound
<1>2. Sound(World)' /\ om' = w.om /\ tm' = w.tm
  BY <1>1, SoundAfter
<1>3. /\ w.err \in BOOLEAN /\ w.tm.live \in SUBSET Nat /\ hist \in Histories
      /\ tm.loader \in Nat
  BY <1>1, WorldFields DEF Inv, Sound, Worlds, TensorManagers, TensorRecords
<1>4. /\ hist' \in Histories
      /\ hist'.dropped = (hist.dropped \cup {tm.loader}) \cap w.tm.live
  BY <1>3 DEF NewSession, Histories
<1>5. Idle(tm') \subseteq hist'.dropped
  BY <1>1, <1>2, <1>4 DEF Inv, Idle
<1>6. ~user'.broken /\ om'.phase # "NOT_INITIALIZED" =>
        HookStands(om') /\ (om'.phase = "DISCOVERY" => tm'.loader = 0)
  BY <1>2 DEF SetUp
<1>7. QED
  BY <1>2, <1>4, <1>5, <1>6 DEF Inv

------------------------------------------------------------------------------
(* The actions. *)

LEMMA RunPassStep ==
  ASSUME NEW w \in Worlds, NEW pass \in Nat, NEW capturing \in BOOLEAN
  PROVE  LET v == RunPass(w, pass, capturing)
         IN  /\ v \in Worlds /\ v.om = w.om /\ v.tm = w.tm /\ v.comp = w.comp
             /\ v.err = w.err /\ v.ops.loader = w.ops.loader
             /\ v.ops.armed = w.ops.armed /\ (~Transparent(w) => v.ops = w.ops)
             /\ Timed(v.col, w.col)
<1> DEFINE timed == w.om.phase = "INFERENCE" /\ w.tm.loader # 0
           k == OnPassStart(w.col, capturing)
           c == IF timed THEN RecordPass(k, pass, capturing) ELSE w.col
           o == IF Transparent(w) THEN UnitForward(w.ops, FALSE) ELSE w.ops
           v == RunPass(w, pass, capturing)
<1>1. w.col \in Collectors /\ w.ops \in Slots
  BY DEF Worlds
<1>2. k \in Collectors /\ Timed(k, w.col)
  BY <1>1, PassTypes, TimedSteps, NoGenerationType
<1>3. v = [w EXCEPT !.col = c, !.ops = o]
  BY DEF RunPass, Worlds
<1> HIDE DEF k, v
<1>4. /\ RecordPass(k, pass, capturing) \in Collectors
      /\ Timed(RecordPass(k, pass, capturing), k)
  BY <1>2, PassTypes, TimedSteps, NoGenerationType
<1>5. c \in Collectors /\ Timed(c, w.col)
  BY <1>1, <1>2, <1>4 DEF Timed
<1>6. /\ o \in Slots /\ o.loader = w.ops.loader /\ o.armed = w.ops.armed
      /\ ~Transparent(w) => o = w.ops
  BY <1>1, SlotTypes
<1> HIDE DEF c, o
<1>7. QED
  BY <1>3, <1>5, <1>6 DEF Worlds, v

LEMMA ForwardKeeps ==
  ASSUME Inv, NEW f, NEW capturing \in BOOLEAN, Forward(f, capturing)
  PROVE  Inv'
<1> DEFINE s == Serving(World)
           p == RunPass(World, PassNumber, capturing)
           u == UpdateState(p, NoGeneration, f, capturing)
           w == IF s = "raise" THEN Raise(World) ELSE u
<1>1. /\ World \in Worlds /\ Registered(World) /\ HookStands(World.om) /\ ~World.err
      /\ World.om.phase # "NOT_INITIALIZED" /\ ~user.broken
      /\ user \in Users /\ hist \in Histories
  BY WorldFields DEF Inv, Sound, Forward
<1>2. Become(w)
  BY DEF Forward
<1>3. PassNumber \in Nat
  BY <1>1 DEF PassNumber, Users
<1>4. s \in {"none", "ok", "raise", "garbage"}
  BY DEF Serving
<1>5. user' \in Users /\ user'.broken = user.broken
  <2>1. Faulted(f) \in Nat /\ tm.loader \in Nat
    BY <1>1, WorldFields DEF Faulted, Users, Worlds, TensorManagers, TensorRecords
  <2>2. user' = [user EXCEPT !.pass = PassNumber, !.faults = Faulted(f),
                             !.graph = IF capturing /\ ~w.err THEN tm.loader ELSE @,
                             !.due = FALSE]
    BY DEF Forward
  <2>3. QED
    BY <1>1, <1>3, <2>1, <2>2 DEF Users
<1>6. Moved(w, World, f)
  <2>1. CASE s = "raise"
    <3>1. /\ Raise(World) \in Worlds /\ Raise(World).om = World.om
          /\ Raise(World).tm = World.tm /\ Raise(World).ops = World.ops
      BY <1>1, StepsStay
    <3>2. QED
      BY <1>1, <2>1, <3>1, Stands
  <2>2. CASE s # "raise"
    <3>1. /\ p \in Worlds /\ p.om = World.om /\ p.tm = World.tm /\ ~p.err
          /\ p.ops.loader = World.ops.loader
      BY <1>1, <1>3, RunPassStep
    <3> HIDE DEF p
    <3>2. Registered(p)
      BY <1>1, <3>1 DEF Registered
    <3>3. Moved(u, p, f)
      BY <1>1, <3>1, <3>2, NoGenerationType, UpdateStateStep
    <3>4. QED
      BY <2>2, <3>1, <3>3, MovesAfter
  <2>3. QED
    BY <2>1, <2>2
<1> DEFINE counted == /\ Driving /\ s # "raise"
                      /\ om.phase = "DISCOVERY" \/ tm.suspended = 0
<1>7. hist' = [hist EXCEPT
                 !.served = s,
                 !.driven = IF counted THEN @ + 1 ELSE @,
                 !.failures = IF Driving /\ f # "none" THEN @ + 1 ELSE @,
                 !.halfway = @ \/ (Driving /\ f = "swap"),
                 !.dropped = IF Driving /\ f = "swap" THEN @ \cup {w.tm.loader} ELSE @]
  BY DEF Forward
<1> HIDE DEF s, u, w, counted
<1>8. w.tm.loader \in Nat
  BY <1>6 DEF Moved, Worlds, TensorManagers, TensorRecords
<1>9. /\ hist' \in Histories
      /\ hist'.dropped = IF Driving /\ f = "swap" THEN hist.dropped \cup {w.tm.loader}
                                                  ELSE hist.dropped
  <2> DEFINE driven == IF counted THEN hist.driven + 1 ELSE hist.driven
             failures == IF Driving /\ f # "none" THEN hist.failures + 1 ELSE hist.failures
             halfway == hist.halfway \/ (Driving /\ f = "swap")
             dropped == IF Driving /\ f = "swap" THEN hist.dropped \cup {w.tm.loader}
                                                  ELSE hist.dropped
  <2>1. hist' = [hist EXCEPT !.served = s, !.driven = driven, !.failures = failures,
                             !.halfway = halfway, !.dropped = dropped]
    BY <1>1, <1>7 DEF Histories
  <2>2. driven \in Nat /\ failures \in Nat
    BY <1>1 DEF Histories
  <2>3. halfway \in BOOLEAN
    BY <1>1 DEF Histories
  <2>4. dropped \in SUBSET Nat
    BY <1>1, <1>8 DEF Histories
  <2> HIDE DEF driven, failures, halfway
  <2>5. hist' \in Histories /\ hist'.dropped = dropped
    BY <1>1, <1>4, <2>1, <2>2, <2>3, <2>4 DEF Histories
  <2>6. QED
    BY <2>5
<1>10. QED
  BY <1>1, <1>2, <1>5, <1>6, <1>9, WorldFields, Continues

LEMMA ForwardRaisesKeeps ==
  ASSUME Inv, ForwardRaises
  PROVE  Inv'
<1> DEFINE o == UnitForward(ops, TRUE)
           w == [World EXCEPT !.ops = o]
<1>1. World \in Worlds /\ ops \in Slots
  BY WorldFields DEF Inv, Sound, Worlds
<1>2. o \in Slots /\ o.loader = ops.loader
  BY <1>1, SlotTypes
<1>3. ops' = o /\ UNCHANGED <<om, tm, comp, col, user, hist>>
  BY DEF ForwardRaises
<1> HIDE DEF o
<1>4. /\ w \in Worlds /\ w.om = om /\ w.tm = tm /\ w.comp = comp /\ w.ops = o /\ w.col = col
  BY <1>1, <1>2, WorldFields DEF Worlds
<1> HIDE DEF w
<1>5. Sound(w)
  BY <1>2, <1>4, WorldFields DEF Inv, Sound, Bare, Registered
<1>6. Become(w)
  BY <1>3, <1>4 DEF Become
<1>7. Sound(World)'
  BY <1>5, <1>6, SoundAfter
<1>8. QED
  BY <1>3, <1>7 DEF Inv

LEMMA SuspensionKeeps ==
  ASSUME Inv, Suspend \/ Resume
  PROVE  Inv'
<1>1. World \in Worlds /\ tm \in TensorManagers /\ tm.suspended \in 0..MaxSuspends
  BY WorldFields DEF Inv, Sound, Worlds, TensorManagers, InBounds
<1>2. PICK n \in 0..MaxSuspends : tm' = [tm EXCEPT !.suspended = n]
  <2>1. CASE Suspend
    BY <1>1, <2>1, BoundsAssumption DEF Suspend
  <2>2. CASE Resume
    BY <1>1, <2>2, BoundsAssumption DEF Resume
  <2>3. QED
    BY <2>1, <2>2
<1>3. /\ tm' \in TensorManagers /\ tm'.on = tm.on /\ tm'.loader = tm.loader
      /\ tm'.live = tm.live /\ tm'.weights = tm.weights /\ tm'.built = tm.built
      /\ tm'.restored = tm.restored
  BY <1>1, <1>2 DEF TensorManagers, TensorRecords, InBounds
<1>4. UNCHANGED <<om, comp, ops, col, user, hist>>
  BY DEF Suspend, Resume
<1> DEFINE t == tm'
           w == [World EXCEPT !.tm = t]
<1> HIDE DEF t
<1>5. t \in TensorManagers
  BY <1>3 DEF t
<1>6. /\ w \in Worlds /\ w.om = om /\ w.tm = t /\ w.comp = comp /\ w.ops = ops /\ w.col = col
  BY <1>1, <1>5, Changes, WorldFields
<1> HIDE DEF w
<1>7. Sound(w)
  BY <1>3, <1>6, WorldFields DEF Inv, Sound, Bare, Registered, t
<1>8. Become(w)
  BY <1>4, <1>6 DEF Become, t
<1>9. Sound(World)'
  BY <1>7, <1>8, SoundAfter
<1>10. QED
  BY <1>3, <1>4, <1>9 DEF Inv, Idle

LEMMA StandingWorld ==
  ASSUME Inv
  PROVE  /\ World \in Worlds /\ Registered(World) /\ Sound(World) /\ ~World.err
         /\ user \in Users /\ hist \in Histories
         /\ tm.loader \in Nat /\ user.pass \in Nat
         /\ om.phase # "NOT_INITIALIZED" /\ ~user.broken => HookStands(World.om)
BY WorldFields
DEF Inv, Sound, Users, Worlds, TensorManagers, TensorRecords

LEMMA CountedFaults ==
  ASSUME user \in Users, NEW f
  PROVE  Faulted(f) \in Nat
BY DEF Faulted, Users

LEMMA OffloadKeeps ==
  ASSUME Inv, NEW c \in Configs, NEW f, Offload(c, f)
  PROVE  Inv'
<1> DEFINE w == OffloadModel(World, c, f)
<1>1. Become(w)
  BY DEF Offload
<1>2. c \in ConfigType
  BY ConfigsAssumption
<1>3. Offloaded(w, World, c)
  BY <1>2, StandingWorld, OffloadModelStep
<1>4. user' = [user EXCEPT !.faults = Faulted(f), !.due = FALSE,
                           !.broken = IF Acceptable(c) THEN w.err ELSE @]
  BY DEF Offload
<1>5. w.err /\ ~Acceptable(c) => hist' = hist
  BY DEF Offload
<1>6. ~(w.err /\ ~Acceptable(c)) => NewSession(w)
  BY DEF Offload
<1> HIDE DEF w
<1>7. w \in Worlds /\ w.err \in BOOLEAN
  BY <1>3 DEF Offloaded, SetUp, Sound, Worlds
<1>8. /\ user' \in Users
      /\ user'.broken = IF Acceptable(c) THEN w.err ELSE user.broken
  BY <1>4, <1>7, StandingWorld, CountedFaults DEF Users
<1>9. CASE Acceptable(c)
  BY <1>1, <1>3, <1>6, <1>8, <1>9, Begins DEF Offloaded
<1>10. CASE ~Acceptable(c)
  <2>1. /\ w.err /\ w.tm = tm /\ w.ops = ops /\ SameStation(w.om, om)
    BY <1>3, <1>10, WorldFields DEF Offloaded
  <2>2. Sound(w)
    BY <1>7, <2>1, StandingWorld, WorldFields
    DEF Sound, Bare, Registered, HookFollows, SameStation
  <2>3. Sound(World)' /\ om' = w.om /\ tm' = w.tm
    BY <1>1, <2>2, SoundAfter
  <2>4. HookStands(om) => HookStands(w.om)
    BY <2>1 DEF HookStands, HookFollows, Hooked, SameStation
  <2>5. QED
    BY <1>5, <1>8, <1>10, <2>1, <2>3, <2>4 DEF Inv, SameStation
<1>11. QED
  BY <1>9, <1>10

LEMMA LoadProfileKeeps ==
  ASSUME Inv, NEW c \in Configs, LoadProfile(c)
  PROVE  Inv'
<1> DEFINE s == [World EXCEPT !.om.cfg = c]
           i == InitializeTensorManager(s, c, "none")
           u == IF tm.on THEN s ELSE i
           w == [u EXCEPT !.tm.restored = TRUE]
<1>1. c \in ConfigType
  BY ConfigsAssumption
<1>2. OmStep(s, World) /\ SameStation(s.om, World.om)
  BY <1>1, StandingWorld, ConfigStep
<1>3. om.phase = "NOT_INITIALIZED" /\ UNCHANGED <<user, hist>> /\ Become(w)
  <2>1. SetConfig(World, c) = s
    BY StandingWorld, StepsStay DEF LoadProfile, SetConfig
  <2>2. QED
    BY <2>1 DEF LoadProfile
<1> HIDE DEF s
<1>4. /\ s \in Worlds /\ s.om.phase = om.phase /\ s.om.hooks = om.hooks
      /\ s.om.handle = om.handle /\ s.tm = tm /\ s.ops = ops
  BY <1>2, WorldFields DEF OmStep, SameStation
<1>5. /\ u \in Worlds /\ u.om = s.om /\ u.ops = ops /\ u.tm.on
      /\ Idle(u.tm) = Idle(tm) /\ u.tm.built = tm.built
  <2>1. CASE tm.on
    BY <1>4, <2>1
  <2>2. CASE ~tm.on
    <3>1. Initialized(i, s, c)
      BY <1>1, <1>4, InitializeTensorManagerStep
    <3>2. tm.loader = 0
      BY <2>2, StandingWorld, WorldFields DEF Sound, Bare
    <3> HIDE DEF i
    <3>3. QED
      BY <1>4, <2>2, <3>1, <3>2 DEF Initialized, Idle
  <2>3. QED
    BY <2>1, <2>2
<1> HIDE DEF u
<1>6. /\ w \in Worlds /\ w.om = u.om /\ w.ops = u.ops /\ w.tm.on
      /\ w.tm.live = u.tm.live /\ w.tm.loader = u.tm.loader /\ w.tm.built = u.tm.built
  <2>1. u \in Worlds /\ u.tm.on
    BY <1>5
  <2>2. /\ w \in Worlds /\ w.om = u.om /\ w.ops = u.ops /\ w.tm.on = u.tm.on
        /\ w.tm.live = u.tm.live /\ w.tm.loader = u.tm.loader
        /\ w.tm.built = u.tm.built
    BY <2>1, RestoredStep
  <2> HIDE DEF w
  <2>3. QED
    BY <2>1, <2>2
<1> HIDE DEF w
<1>7. Sound(w)
  BY <1>3, <1>4, <1>5, <1>6, StandingWorld, WorldFields
  DEF Sound, Registered, HookFollows
<1>8. Sound(World)' /\ om' = w.om /\ tm' = w.tm
  BY <1>3, <1>7, SoundAfter
<1>9. Idle(tm') = Idle(tm)
  BY <1>5, <1>6, <1>8 DEF Idle
<1>10. QED
  BY <1>3, <1>4, <1>5, <1>6, <1>8, <1>9 DEF Inv

LEMMA FollowShmKeeps ==
  ASSUME Inv, NEW c \in Configs, NEW f, FollowShm(c, f)
  PROVE  Inv'
<1> DEFINE w == InitializeFromShm(World, c, f)
<1>1. Become(w) /\ NewSession(w) /\ ~tm.on
  BY DEF FollowShm
<1>2. user' = [user EXCEPT !.faults = Faulted(f), !.broken = w.err]
  BY DEF FollowShm
<1>3. c \in ConfigType
  BY ConfigsAssumption
<1>4. SetUp(w, World)
  BY <1>1, <1>3, StandingWorld, WorldFields, FollowStep
<1> HIDE DEF w
<1>5. w.err \in BOOLEAN
  BY <1>4 DEF SetUp, Sound, Worlds
<1>6. user' \in Users /\ user'.broken = w.err
  BY <1>2, <1>5, StandingWorld, CountedFaults DEF Users
<1>7. QED
  BY <1>1, <1>4, <1>6, Begins

LEMMA TakeOverKeeps ==
  ASSUME Inv, NEW c \in Configs, NEW f, NEW g, TakeOver(c, f, g)
  PROVE  Inv'
<1> DEFINE w == OffloadFromState(World, c, f, g)
<1>1. Become(w) /\ NewSession(w) /\ om.phase = "NOT_INITIALIZED" /\ ~tm.on
  BY DEF TakeOver
<1>2. user' = [user EXCEPT !.faults = Faulted(f)]
  BY DEF TakeOver
<1>3. c \in ConfigType
  BY ConfigsAssumption
<1>4. TakenOver(w, World)
  BY <1>1, <1>3, StandingWorld, WorldFields, OffloadFromStateStep
<1> HIDE DEF w
<1>5. user' \in Users
  BY <1>2, StandingWorld, CountedFaults DEF Users
<1>6. QED
  BY <1>1, <1>4, <1>5, WorldFields, Begins DEF TakenOver

LEMMA RequestKeeps ==
  ASSUME Inv, NEW manual \in BOOLEAN, RequestStrategyReplan(manual)
  PROVE  Inv'
<1> DEFINE w == IF manual THEN BeginManualUpdateReplan(World) ELSE RequestPassiveReplan(World)
<1>1. Become(w) /\ om.phase = "INFERENCE" /\ ~user.broken
  BY DEF RequestStrategyReplan
<1>2. /\ user' = [user EXCEPT !.due = FALSE]
      /\ hist' = [hist EXCEPT !.rearmed = @ \/ comp.tail.state = "FAILED",
                              !.from = IF w.om.manual THEN user.pass ELSE @]
  BY DEF RequestStrategyReplan
<1>3. Requested(w, World)
  BY StandingWorld, RequestPassiveStep, BeginManualStep
<1> HIDE DEF w
<1>4. PICK m \in BOOLEAN : w.om = [World.om EXCEPT !.manual = m]
  BY <1>3 DEF Requested
<1>5. /\ w \in Worlds /\ Registered(w) /\ SameSettings(w.tm, tm)
      /\ w.tm.restored = tm.restored /\ Idle(w.tm) \subseteq Idle(tm)
  BY <1>3, WorldFields DEF Requested, Frame, SameSettings
<1>6. /\ w.om \in Managers /\ om \in Managers
      /\ w.om.phase = om.phase /\ w.om.hooks = om.hooks /\ w.om.handle = om.handle
      /\ w.om.model = om.model /\ w.om.serial = om.serial /\ w.om.blocked = om.blocked
  BY <1>4, <1>5, StandingWorld, WorldFields DEF Worlds, Managers
<1>7. HookStands(w.om)
  BY <1>1, <1>6, StandingWorld, WorldFields, HookStays
<1>8. Moved(w, World, "none")
  BY <1>1, <1>5, <1>6, <1>7, WorldFields DEF Moved
<1>9. user' \in Users /\ user'.broken = user.broken
  BY <1>2, StandingWorld DEF Users
<1>10. hist' \in Histories /\ hist'.dropped = hist.dropped
  <2>1. ((hist.rearmed \/ comp.tail.state = "FAILED") \in BOOLEAN)
    BY StandingWorld DEF Histories
  <2>2. (IF w.om.manual THEN user.pass ELSE hist.from) \in Nat
    BY StandingWorld DEF Histories
  <2>3. QED
    BY <1>2, <2>1, <2>2, StandingWorld DEF Histories
<1>11. QED
  BY <1>1, <1>8, <1>9, <1>10, Continues

LEMMA ReplayKeeps ==
  ASSUME Inv, Replay
  PROVE  Inv'
<1> DEFINE c == RecordReplay(World.col, user.pass + 1)
           s == [World EXCEPT !.col = c]
           t == UpdateOffloadTiming(s, user.pass + 1, FALSE).w
           w == IF user.hooked THEN t ELSE s
<1>1. /\ Become(w) /\ om.phase = "INFERENCE" /\ ~user.broken
      /\ user' = [user EXCEPT !.pass = @ + 1, !.due = TRUE] /\ hist' = hist
  BY StandingWorld DEF Replay, Worlds
<1>2. user.pass + 1 \in Nat /\ user.pass + 1 \in Int /\ World.col \in Collectors
  BY StandingWorld DEF Worlds
<1>3. c \in Collectors
  BY <1>2, PassTypes, NoGenerationType
<1> HIDE DEF c
<1>4. s \in Worlds /\ s.om = om /\ s.tm = tm /\ s.ops = ops
  BY <1>3, StandingWorld, WorldFields DEF Worlds
<1> HIDE DEF s
<1>5. t \in Worlds /\ t.om = om /\ t.tm = tm /\ t.ops = ops
  BY <1>2, <1>4, TimingStep
<1> HIDE DEF t
<1>6. w \in Worlds /\ w.om = om /\ w.tm = tm /\ w.ops = ops
  BY <1>4, <1>5
<1> HIDE DEF w
<1>7. Moved(w, World, "none")
  BY <1>1, <1>6, StandingWorld, WorldFields, Stands
<1>8. user' \in Users /\ user'.broken = user.broken
  <2>1. user \in Users /\ user' = [user EXCEPT !.pass = user.pass + 1, !.due = TRUE]
    BY <1>1, StandingWorld
  <2>2. QED
    BY <1>2, <2>1 DEF Users
<1>9. QED
  BY <1>1, <1>7, <1>8, StandingWorld, Continues

LEMMA UpdateKeeps ==
  ASSUME Inv, NEW gen \in Int, NEW f, NEW capturing \in BOOLEAN,
         f # "swap", UpdateAfterReplay(gen, f, capturing)
  PROVE  Inv'
<1> DEFINE w == UpdateState(World, gen, f, capturing)
<1>1. /\ Become(w) /\ ~user.broken /\ hist' = hist
      /\ user' = [user EXCEPT !.due = FALSE, !.faults = Faulted(f)]
  BY DEF UpdateAfterReplay
<1>2. user' \in Users /\ user'.broken = user.broken
  BY <1>1, StandingWorld, CountedFaults DEF Users
<1>3. CASE om.phase = "NOT_INITIALIZED"
  <2>1. w = World
    BY <1>3, StandingWorld, WorldFields DEF UpdateState
  <2> HIDE DEF w
  <2>2. Sound(World)' /\ om' = om /\ tm' = tm
    BY <1>1, <2>1, StandingWorld, WorldFields, SoundAfter
  <2>3. QED
    BY <1>1, <1>2, <2>2 DEF Inv
<1>4. CASE om.phase # "NOT_INITIALIZED"
  <2>1. Moved(w, World, f)
    BY <1>1, <1>4, StandingWorld, WorldFields, UpdateStateStep
  <2> HIDE DEF w
  <2>2. QED
    BY <1>1, <1>2, <1>4, <2>1, StandingWorld, Continues
<1>5. QED
  BY <1>3, <1>4

LEMMA ReleaseKeeps ==
  ASSUME Inv, NEW f, ReleaseAll(f)
  PROVE  Inv'
<1> DEFINE w == Release(World, f)
<1>1. /\ Become(w)
      /\ user' = [user EXCEPT !.broken = w.err, !.due = FALSE, !.faults = Faulted(f),
                              !.pass = 0, !.graph = 0]
      /\ hist' = [NoHistory EXCEPT !.dropped = hist.dropped \cap w.tm.live]
  BY DEF ReleaseAll
<1>2. Released(w, World)
  BY StandingWorld, ReleaseStep
<1> HIDE DEF w
<1>3. /\ Sound(w) /\ w \in Worlds /\ w.err \in BOOLEAN
      /\ Idle(w.tm) \subseteq Idle(tm)
  BY <1>2, WorldFields DEF Released, Sound, Worlds
<1>4. Sound(World)' /\ om' = w.om /\ tm' = w.tm
  BY <1>1, <1>3, SoundAfter
<1>5. user' \in Users /\ user'.broken = w.err
  BY <1>1, <1>3, StandingWorld, CountedFaults DEF Users
<1>6. hist' \in Histories /\ hist'.dropped = hist.dropped \cap w.tm.live
  BY <1>1, StandingWorld DEF NoHistory, Histories
<1>7. Idle(tm') \subseteq hist'.dropped
  BY <1>3, <1>4, <1>6 DEF Inv, Idle
<1>8. user'.broken \/ om'.phase = "NOT_INITIALIZED"
  BY <1>2, <1>4, <1>5 DEF Released
<1>9. QED
  BY <1>4, <1>5, <1>6, <1>7, <1>8 DEF Inv

------------------------------------------------------------------------------
(* Theorems. *)

LEMMA InitInv == Init => Inv
<1> SUFFICES ASSUME Init PROVE Inv
  OBVIOUS
<1>1. om \in Managers
  BY NoConfigType DEF Init, Managers, Phases, Models, HookType, NoModel
<1>2. tm \in TensorManagers /\ tm.on = FALSE /\ tm.loader = 0 /\ tm.weights = 0
      /\ tm.restored = FALSE /\ tm.live = {} /\ tm.built = 0
  BY NoConfigType, BoundsAssumption
  DEF Init, NoTensorManager, TensorManagers, TensorRecords, InBounds, Kinds
<1>3. comp \in CompiledPaths /\ ops \in Slots /\ ops.loader = 0
  BY PathTypes DEF Init, NoSlot, Slots
<1>4. col \in Collectors
  <2>1. <<>> \in Seq(Nat)
    OBVIOUS
  <2>2. QED
    BY <2>1, NewCollectorType DEF Init
<1>5. World \in Worlds
  BY <1>1, <1>2, <1>3, <1>4 DEF World, Worlds
<1>6. /\ om.phase = "NOT_INITIALIZED" /\ om.hooks = {} /\ om.blocked = FALSE
      /\ om.forwards = "plain"
  BY DEF Init
<1>7. Sound(World)
  BY <1>2, <1>3, <1>5, <1>6, WorldFields DEF Sound, Bare, Registered, HookFollows
<1>8. user \in Users
  <2>1. user \in [pass : {0}, graph : {0}, due : {FALSE}, faults : {0},
                  broken : {FALSE}, hooked : BOOLEAN]
    BY DEF Init
  <2>2. 0 \in Nat /\ FALSE \in BOOLEAN
    OBVIOUS
  <2>3. user \in [pass : Nat, graph : Nat, due : BOOLEAN, faults : Nat,
                  broken : BOOLEAN, hooked : BOOLEAN]
    BY <2>1, <2>2
  <2>4. QED
    BY <2>3 DEF Users
<1>9. hist \in Histories
  BY DEF Init, NoHistory, Histories
<1>10. QED
  BY <1>2, <1>6, <1>7, <1>8, <1>9 DEF Inv, Idle

LEMMA NextInv == Inv /\ [Next]_vars => Inv'
<1> SUFFICES ASSUME Inv, [Next]_vars PROVE Inv'
  OBVIOUS
<1>1. CASE \E f \in DriveFaults : Forward(f, FALSE)
  BY <1>1, ForwardKeeps
<1>2. CASE Forward("none", TRUE)
  BY <1>2, ForwardKeeps
<1>3. CASE ForwardRaises
  BY <1>3, ForwardRaisesKeeps
<1>4. CASE Suspend \/ Resume
  BY <1>4, SuspensionKeeps
<1>5. CASE \E c \in Configs, f \in SetupFaults : Offload(c, f)
  BY <1>5, OffloadKeeps
<1>6. CASE \E c \in Configs : LoadProfile(c)
  BY <1>6, LoadProfileKeeps
<1>7. CASE \E c \in Configs, f \in SetupFaults : FollowShm(c, f)
  BY <1>7, FollowShmKeeps
<1>8. CASE \E c \in Configs, f \in SetupFaults, g \in ReleaseFaults : TakeOver(c, f, g)
  BY <1>8, TakeOverKeeps
<1>9. CASE \E manual \in BOOLEAN : RequestStrategyReplan(manual)
  BY <1>9, RequestKeeps
<1>10. CASE Replay
  BY <1>10, ReplayKeeps
<1>11. CASE \E gen \in {NoGeneration, user.pass}, f \in ReplanFaults, capturing \in BOOLEAN :
              UpdateAfterReplay(gen, f, capturing)
  <2>1. PICK gen \in {NoGeneration, user.pass}, f \in ReplanFaults, capturing \in BOOLEAN :
          UpdateAfterReplay(gen, f, capturing)
    BY <1>11
  <2>2. gen \in Int
    BY StandingWorld, NoGenerationType
  <2>3. f # "swap"
    BY DEF ReplanFaults
  <2>4. QED
    BY <2>1, <2>2, <2>3, UpdateKeeps
<1>12. CASE \E f \in ReleaseFaults : ReleaseAll(f)
  BY <1>12, ReleaseKeeps
<1>13. CASE UNCHANGED vars
  <2>1. /\ om' = om /\ tm' = tm /\ comp' = comp /\ ops' = ops /\ col' = col
        /\ user' = user /\ hist' = hist
    BY <1>13 DEF vars
  <2>2. World' = World
    BY <2>1 DEF World
  <2>3. QED
    BY <2>1, <2>2 DEF Inv
<1>14. QED
  BY <1>1, <1>2, <1>3, <1>4, <1>5, <1>6, <1>7, <1>8, <1>9, <1>10, <1>11, <1>12, <1>13
  DEF Next

(* In every state the manager, its tensor manager, its compiled path, the  *)
(* registry and the collector are of their types, the registry names a     *)
(* loader that was built, at most one state-update hook is registered, and *)
(* what idles was dropped.                                                 *)
THEOREM Invariance == Spec => []Inv
BY InitInv, NextInv, PTL DEF Spec

LEMMA InvTypes == Inv => TypeOK
<1> SUFFICES ASSUME Inv PROVE TypeOK
  OBVIOUS
<1>1. /\ World \in Worlds /\ Registered(World) /\ HookFollows(om)
  BY WorldFields DEF Inv, Sound
<1>2. om \in Managers /\ tm \in TensorManagers /\ comp \in CompiledPaths /\ ops \in Slots
  BY <1>1, WorldFields DEF Worlds
<1>3. /\ om.phase \in {"NOT_INITIALIZED", "DISCOVERY", "PROFILING", "INFERENCE"}
      /\ om.honored \in {"unknown", "yes", "no"}
      /\ om.forwards \in {"plain", "eager", "compiled"} /\ om.iter \in Nat
  BY <1>2 DEF Managers, Phases
<1>4. /\ tm.loader \in 0..tm.built /\ tm.weights \in {Stale} \cup 0..tm.built
      /\ tm.live \subseteq 1..tm.built /\ tm.suspended \in 0..MaxSuspends
      /\ tm.built \in Nat
  BY <1>2 DEF TensorManagers, TensorRecords, InBounds
<1>5. /\ comp.warm \in 0..ProfileWarmups /\ comp.tail.state \in TailStates
      /\ comp.tail.warm \in 0..WarmupForwards /\ comp.tail.measure \in Nat
  BY <1>2 DEF CompiledPaths, Tails
<1>6. ops.loader \in 0..tm.built /\ (ops.loader # 0 => ops.armed)
  BY <1>1, <1>2, <1>4, WorldFields DEF Slots, Registered
<1>7. Cardinality(om.hooks) <= 1
  <2>1. om.hooks = {} \/ om.hooks = {om.handle}
    BY <1>1 DEF HookFollows
  <2>2. Cardinality({}) = 0
    BY FS_EmptySet
  <2>3. Cardinality({om.handle}) = 1
    BY FS_Singleton
  <2>4. QED
    BY <2>1, <2>2, <2>3
<1>8. QED
  BY <1>3, <1>4, <1>5, <1>6, <1>7 DEF TypeOK

(* TypeOK holds in every reachable state, for any configurations, faults   *)
(* and bounds.                                                             *)
THEOREM TypeCorrect == Spec => []TypeOK
<1>1. Inv => TypeOK
  BY InvTypes
<1>2. QED
  BY <1>1, Invariance, PTL

(* A manager that serves has exactly one state-update hook, on the model   *)
(* its proxy runs, also after a transition that failed; one that was       *)
(* released has none.                                                      *)
THEOREM OneHook == Spec => []HookFollowsModel
<1>1. Inv => HookFollowsModel
  BY WorldFields DEF Inv, Sound, HookFollowsModel, HookStands
<1>2. QED
  BY <1>1, Invariance, PTL

(* No loader is leaked but those a re-offload or a failed swap is known to *)
(* drop, and a manager that let go of its tensor manager left nothing of   *)
(* it in the model or the registry.                                        *)
THEOREM NothingLeaks == Spec => []LoadersAccountedFor
<1>1. Inv => LoadersAccountedFor
  <2> SUFFICES ASSUME Inv PROVE LoadersAccountedFor
    OBVIOUS
  <2>1. tm.live \subseteq {tm.loader} \cup hist.dropped
    BY DEF Inv, Idle
  <2>2. /\ ~tm.on => tm.weights = 0 /\ ops.loader = 0 /\ om.forwards = "plain"
        /\ om.blocked => tm.on
    BY WorldFields DEF Inv, Sound, Bare
  <2>3. QED
    BY <2>1, <2>2 DEF LoadersAccountedFor
<1>2. QED
  BY <1>1, Invariance, PTL
=============================================================================
