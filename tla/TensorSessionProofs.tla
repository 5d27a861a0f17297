------------------------- MODULE TensorSessionProofs -------------------------
(***************************************************************************)
(* For every number of layers, every set of weights and every setup: the   *)
(* weights a layer reads are its own, a kernel the GPU has yet to run      *)
(* finds its copies, the copies of a trap go with it, the weights come     *)
(* back from the blocks, what a strategy copies lies on the pinned host,   *)
(* the driver gets back what was registered with it, and no step of an     *)
(* adoption takes more memory than is free.                                *)
(***************************************************************************)
EXTENDS TensorSession, FiniteSetTheorems, WellFoundedInduction, TLAPS

IdsType == [Labels -> SUBSET Tensors]
Kinds == {"none", "warmup", "layer", "view", "strategy", "blocks"}
Phases == {"new", "warmup", "profile", "infer", "saved", "restored", "broken", "down"}
Held == {"warmup", "layer"}

(* Types.  What no argument looks into has the type of being itself. *)
LoaderType(d) ==
  /\ d \in [kind : Kinds, ids : IdsType, order : {d.order}, map : SUBSET Tensors,
            count : [Tensors -> Nat], bound : SUBSET Tensors, rescued : SUBSET Tensors,
            refs : SUBSET Tensors, at : Labels \cup {0}, load : IdsType, release : IdsType,
            pass : SUBSET Tensors, sched : {d.sched}, events : {d.events}, uncovered : SUBSET Tensors]
  /\ DOMAIN d.sched \subseteq Labels /\ DOMAIN d.events \subseteq Tensors

ModelType ==
  /\ setup \in Setups /\ phase \in Phases
  /\ data \in [Tensors -> {"host", "gpu", "slot", "blank"}]
  /\ managed \subseteq Tensors /\ observed \subseteq managed

ForwardType ==
  /\ trap \in [label : Labels \cup {0}, todo : SUBSET Tensors, tainted : {trap.tainted}]
  /\ pc \in 0..(Layers + 1) /\ passes \in 0..MaxForwards
  /\ running \subseteq Labels \X Tensors

ProfileType(p) ==
  /\ p.load \in IdsType /\ p.release \in IdsType /\ p.views \subseteq Tensors
  /\ IdsOf(p) \in IdsType

ProfilesType ==
  /\ coll \in [seen : {coll.seen}, ids : IdsType, timed : {coll.timed}]
  /\ frozen.ids \in IdsType
  /\ ProfileType(prof)

HistType ==
  hist \in [faults : Nat, leaked : SUBSET Tensors, lost : SUBSET Tensors,
            dropped : SUBSET Tensors, incomplete : {hist.incomplete}]

PinsTyped(p) ==
  p \in [mode : {"none", "copy", "in_place"}, main : SUBSET Int, view : SUBSET Int,
         copied : SUBSET Int, driver : SUBSET Int, lost : SUBSET Int]
PinsType == PinsTyped(pins)

TypeInv == ModelType /\ ForwardType /\ ProfilesType /\ HistType /\ PinsType /\ LoaderType(ld)

(* What a phase has for a loader and for a profile. *)
PhaseInv ==
  /\ phase \in {"new", "saved", "restored", "down"} => ld.kind = "none"
  /\ phase = "warmup" => ld.kind \in {"none", "warmup"}
  /\ phase = "profile" => ld.kind = IF setup.mode = "view" THEN "view" ELSE "layer"
  /\ phase = "infer" => ld.kind \in {"strategy", "blocks"}
  /\ phase = "broken" => ld.kind \in {"none", "strategy", "blocks"}
  /\ phase \in {"new", "warmup", "profile"} => prof = NoProfile /\ setup.profile = NoProfile
  /\ phase \in {"saved", "restored"} => prof = setup.profile /\ setup.profile # NoProfile
  /\ ld.kind \in {"strategy", "blocks"} => ld.load = prof.load
  /\ ld.kind = "strategy" => prof.loader = "strategy"
  /\ \/ prof = setup.profile
     \/ setup.profile = NoProfile /\ (prof.loader = "strategy" => ~setup.blocks)

(* A trap is open only around the layer that runs. *)
TrapInv ==
  /\ pc # 0 => phase \in {"warmup", "profile", "infer"} /\ passes < MaxForwards
  /\ IF trap.label = 0 THEN trap = NoTrap ELSE pc = trap.label
  /\ phase = "warmup" => trap.todo = {}

(* Discovery and profile: what is counted, mapped and bound is the same, and
   belongs to the trap that is open unless a failed enter left it. *)
CopiesHeld(d, tr, leaked, onGpu) ==
  /\ \A t \in Tensors :
       /\ (d.count[t] > 0 <=> t \in d.map) /\ (t \in d.map <=> t \in d.bound)
       /\ t \notin leaked /\ d.count[t] > 0 =>
            d.count[t] = 1 /\ tr.label # 0 /\ t \in d.ids[tr.label] /\ t \notin onGpu
  /\ tr.label # 0 => \A t \in d.ids[tr.label] \ onGpu : d.count[t] > 0
  /\ d.kind = "layer" => d.refs \subseteq onGpu
CopyInv == IF ld.kind \in Held THEN CopiesHeld(ld, trap, hist.leaked, OnGpu) ELSE ld.bound = {}

(* Every copy under way has an event that covers it, but for those that are
   known to have lost it. *)
Covered(d, dropped) ==
  \A t \in d.uncovered \ dropped : t \in DOMAIN d.events /\ t \in d.events[t]
CoverInv == ld.kind = "strategy" => Covered(ld, hist.dropped)

(* Where the weights lie. *)
Host(t) == data[t] = "host"
DataInv ==
  /\ ld.kind \notin {"view", "blocks"} =>
       \A t \in Tensors : data[t] # "slot" /\ (data[t] = "blank" => t \in hist.lost)
  /\ ld.kind = "view" => \A t \in Tensors : (data[t] = "slot" /\ t \in AllIds(ld.ids)) \/ data[t] = "gpu"
  /\ ld.kind = "blocks" =>
       \A t \in Tensors : data[t] = IF t \notin AllIds(prof.load) THEN "gpu"
                                    ELSE IF phase = "infer" THEN "slot" ELSE "host"
  /\ phase \in {"new", "saved"} => \A t \in Tensors : Host(t)
  /\ phase = "restored" => \A t \in AllIds(prof.load) : Host(t)
  /\ phase \in {"infer", "broken", "down"} /\ ld.kind # "blocks" =>
       \A t \in AllIds(prof.load) \ (observed \cup hist.leaked \cup hist.lost) : Host(t)
  /\ ld.kind = "warmup" => \A t \in managed : Host(t)
  /\ phase \in {"warmup", "profile"} /\ setup.mode # "view" => \A t \in managed \ observed : Host(t)
  /\ phase \in {"warmup", "profile", "restored", "infer"} => \A t \in Tensors \ managed : data[t] = "gpu"

(* What was promoted lies on the GPU for good. *)
ObservedInv ==
  /\ \A t \in observed : data[t] = "gpu"
  /\ observed # {} => ld.kind # "view" /\ ~(setup.mode = "view" /\ phase \in {"warmup", "profile"})
  /\ phase \in {"new", "saved"} => managed = {} /\ frozen.known = FALSE
  /\ phase \in {"new", "saved", "restored"} => observed = {}

(* A view profile is made of what discovery found, once and for all. *)
Discovered == [l \in Labels |-> coll.ids[l] \cap managed]
FrozenFits == frozen.known /\ FitsBudget(frozen.ids, setup.size, setup.budget)
IdsInv ==
  /\ AllIds(frozen.ids) \subseteq managed
  /\ ld.kind \in {"warmup", "layer", "view"} => AllIds(ld.ids) \subseteq managed
  /\ ld.kind = "view" => ld.ids = frozen.ids /\ FrozenFits
  /\ setup.mode = "view" /\ FrozenFits /\ phase \in {"warmup", "profile"} =>
       frozen.ids = Discovered /\ (phase = "warmup" => ld.kind = "none" /\ pc = 0)
  /\ ld.kind = "view" /\ trap.label # 0 /\ Slots(ld.ids, trap.label) # {} => ld.at = trap.label

(* The registries: the manager's entries are tensors, storages and blocks of a
   label; every view block has a name of its own, below those of the lost. *)
BlockName(p) == -(Layers + 1 + Cardinality(p.lost))
Registries(p) ==
  /\ p.driver = p.main \cup p.view \cup p.lost
  /\ IsFiniteSet(p.lost) /\ \A s \in p.lost : BlockName(p) < s /\ s < -Layers
  /\ p.view \subseteq {BlockName(p)}
  /\ \A s \in p.main : s >= -Layers
PinInv ==
  /\ Registries(pins)
  /\ hist.faults = 0 => pins.lost = {}
  /\ phase = "down" /\ hist.faults = 0 => pins.driver = {}

(* The adoption: the storages keep their ids. *)
PlaceInv ==
  /\ adoption \in [status : {adoption.status}, cap : {adoption.cap}, spec : {adoption.spec},
                   moves : {adoption.moves}, todo : {adoption.todo}, pins : SUBSET DOMAIN place,
                   host : {adoption.host}]
  /\ DOMAIN place \subseteq DOMAIN StorageSizes
  /\ \A s \in DOMAIN place :
       place[s] \in [dev : {place[s].dev}, n : {place[s].n}, pinned : BOOLEAN]
  /\ phase = "saved" => DOMAIN place = DOMAIN StorageSizes

(* What is to be pinned is pinned. *)
PinnedInv ==
  /\ setup.profile = NoProfile /\ ~setup.blocks /\ Pinning # "none"
     /\ (phase \in {"warmup", "profile", "infer"} \/ ld.kind = "strategy") =>
       \A t \in Tensors : IsPinned(pins, t)
  /\ phase = "saved" /\ Pinning # "none" =>
       \A s \in DOMAIN place : place[s].pinned => IsPinned(pins, s)
  /\ setup.profile # NoProfile /\ prof.loader = "strategy" /\ Pinning # "none"
     /\ (phase = "restored" \/ ld.kind = "strategy") =>
       \A t \in AllIds(prof.load) : IsPinned(pins, setup.storage[t])
ModeInv == Pinning # "none" => setup.pinned

IInv ==
  /\ TypeInv /\ PhaseInv /\ TrapInv /\ CopyInv /\ DataInv /\ ObservedInv /\ IdsInv /\ CoverInv
  /\ PinInv /\ PlaceInv /\ PinnedInv /\ ModeInv

-----------------------------------------------------------------------------
(* Constants *)
LEMMA LayersFacts == Layers \in Nat \ {0} /\ Labels = 1..Layers
<1>1. PICK n \in Nat \ {0} : Labels = 1..n
  BY LabelsAssumption, FS_CardinalityType
<1>2. Max(Labels) = n
  BY <1>1 DEF Max
<1>3. QED
  BY <1>1, <1>2 DEF Layers

LEMMA LeastOfSet ==
  ASSUME NEW S, S \subseteq Nat, S # {}
  PROVE  Min(S) \in S
<1>1. PICK i \in S : \A j \in S : ~(<<j, i>> \in OpToRel(<, Nat))
  BY WFMin, NatLessThanWellFounded
<1>2. \A j \in S : j < i => <<j, i>> \in OpToRel(<, Nat)
  BY <1>1 DEF OpToRel
<1>3. \A j \in S : ~(j < i)
  BY <1>1, <1>2
<1>4. i \in Int /\ \A j \in S : j \in Int /\ i <= j
  BY <1>3
<1>5. QED
  BY <1>4 DEF Min

LEMMA SetupFacts ==
  ASSUME setup \in Setups
  PROVE  /\ setup.own \in IdsType /\ setup.cross \in IdsType /\ setup.late \in IdsType
         /\ setup.excluded \subseteq Tensors
         /\ setup.mode \in {"getter", "view", "torch_function"}
         /\ setup.storage \in [Tensors -> DOMAIN StorageSizes]
         /\ setup.profile # NoProfile => setup.profile.loader \in {"strategy", "blocks"}
         /\ ProfileTyped(setup.profile)
<1>1. ProfileTyped(NoProfile)
  BY DEF ProfileTyped, NoProfile, NoIds
<1>2. QED
  BY <1>1, SetupsAssumption DEF IdsType

LEMMA IdsFacts ==
  ASSUME NEW ids \in IdsType
  PROVE  /\ AllIds(ids) \in SUBSET Tensors
         /\ \A l \in Labels : ids[l] \in SUBSET Tensors /\ ids[l] \subseteq AllIds(ids)
  BY DEF AllIds, IdsType

-----------------------------------------------------------------------------
(* The loaders *)
LEMMA LoaderFacts ==
  ASSUME NEW kind \in Kinds, NEW ids \in IdsType
  PROVE  LET d == Loader(kind, ids)
         IN  /\ LoaderType(d)
             /\ d.kind = kind /\ d.ids = ids /\ d.load = NoIds /\ d.release = NoIds
             /\ d.map = {} /\ d.bound = {} /\ d.refs = {} /\ d.rescued = {} /\ d.uncovered = {}
             /\ d.at = 0 /\ d.count = [t \in Tensors |-> 0]
<1>1. NoIds \in IdsType
  BY DEF NoIds, IdsType
<1>2. DOMAIN << >> = {}
  OBVIOUS
<1>3. QED
  BY <1>1, <1>2 DEF Loader, LoaderType

LEMMA NoLoaderFacts ==
  /\ LoaderType(NoLoader)
  /\ NoLoader.kind = "none" /\ NoLoader.ids = NoIds /\ NoLoader.load = NoIds
  /\ NoLoader.bound = {} /\ NoLoader.map = {}
<1>1. NoIds \in IdsType /\ "none" \in Kinds
  BY DEF NoIds, IdsType, Kinds
<1>2. QED
  BY <1>1, LoaderFacts DEF NoLoader

(* What an operation on copies leaves alone. *)
SameFrame(d, e) ==
  /\ e.kind = d.kind /\ e.ids = d.ids /\ e.load = d.load /\ e.release = d.release
  /\ e.at = d.at /\ e.events = d.events /\ e.uncovered = d.uncovered /\ e.rescued = d.rescued

(* The traps that hold a tensor after an enter that came to S. *)
CountedIn(d, e, S, G) ==
  \A t \in Tensors :
    e.count[t] = IF t \in S /\ (d.count[t] > 0 \/ t \notin G) THEN d.count[t] + 1 ELSE d.count[t]

LEMMA RetainFacts ==
  ASSUME NEW d, LoaderType(d), NEW S \in SUBSET Tensors, NEW G
  PROVE  LET e == Retain(d, S, G)
         IN  /\ LoaderType(e) /\ SameFrame(d, e) /\ e.refs = d.refs
             /\ e.map = d.map \cup Fresh(d, S, G) /\ e.bound = d.bound \cup Fresh(d, S, G)
             /\ CountedIn(d, e, S, G)
<1> DEFINE fresh == Fresh(d, S, G)
           held == {t \in S : d.count[t] > 0} \cup fresh
           count == [t \in Tensors |-> IF t \in held THEN d.count[t] + 1 ELSE d.count[t]]
<1>1. Retain(d, S, G) = [d EXCEPT !.count = count, !.map = d.map \cup fresh, !.bound = d.bound \cup fresh]
  BY DEF Retain
<1>2. d.count \in [Tensors -> Nat]
  BY DEF LoaderType
<1>3. fresh \subseteq Tensors
  BY DEF Fresh
<1>4. count \in [Tensors -> Nat]
  BY <1>2
<1>5. \A t \in Tensors : t \in held <=> t \in S /\ (d.count[t] > 0 \/ t \notin G)
  BY <1>2 DEF Fresh
<1>6. \A t \in Tensors :
        count[t] = IF t \in S /\ (d.count[t] > 0 \/ t \notin G) THEN d.count[t] + 1 ELSE d.count[t]
  BY <1>5
<1> HIDE DEF fresh, held, count
<1>7. LoaderType(Retain(d, S, G)) /\ SameFrame(d, Retain(d, S, G))
      /\ Retain(d, S, G).refs = d.refs /\ Retain(d, S, G).count = count
      /\ Retain(d, S, G).map = d.map \cup fresh /\ Retain(d, S, G).bound = d.bound \cup fresh
  BY <1>1, <1>3, <1>4 DEF LoaderType, SameFrame
<1>8. QED
  BY <1>6, <1>7 DEF fresh, CountedIn

LEMMA ReleaseFacts ==
  ASSUME NEW d, LoaderType(d), NEW S \in SUBSET Tensors
  PROVE  LET e == Release(d, S)
             last == {t \in S : d.count[t] = 1}
         IN  /\ LoaderType(e) /\ SameFrame(d, e) /\ e.refs = d.refs
             /\ e.map = d.map \ last /\ e.bound = d.bound \ last
             /\ \A t \in Tensors :
                  e.count[t] = IF t \in S /\ d.count[t] > 0 THEN d.count[t] - 1 ELSE d.count[t]
<1> DEFINE last == {t \in S : d.count[t] = 1}
           count == [t \in Tensors |-> IF t \in S /\ d.count[t] > 0 THEN d.count[t] - 1 ELSE d.count[t]]
<1>1. Release(d, S) = [d EXCEPT !.count = count, !.map = d.map \ last, !.bound = d.bound \ last]
  BY DEF Release
<1>2. d.count \in [Tensors -> Nat]
  BY DEF LoaderType
<1>3. count \in [Tensors -> Nat]
  BY <1>2
<1>4. \A t \in Tensors :
        count[t] = IF t \in S /\ d.count[t] > 0 THEN d.count[t] - 1 ELSE d.count[t]
  OBVIOUS
<1> HIDE DEF last, count
<1>5. LoaderType(Release(d, S)) /\ SameFrame(d, Release(d, S))
      /\ Release(d, S).refs = d.refs /\ Release(d, S).count = count
      /\ Release(d, S).map = d.map \ last /\ Release(d, S).bound = d.bound \ last
  BY <1>1, <1>3 DEF LoaderType, SameFrame
<1>6. QED
  BY <1>4, <1>5 DEF last

LEMMA LayerExitFacts ==
  ASSUME NEW d, LoaderType(d), NEW l \in Labels
  PROVE  LET e == LayerExit(d, l)
             r == Release(d, d.ids[l])
         IN  /\ LoaderType(e) /\ SameFrame(d, e)
             /\ e.refs = d.refs \cup {t \in d.ids[l] : d.count[t] = 0}
             /\ e.map = r.map /\ e.bound = r.bound /\ e.count = r.count
<1> DEFINE r == Release(d, d.ids[l])
           quiet == {t \in d.ids[l] : d.count[t] = 0}
<1>1. d.ids[l] \in SUBSET Tensors
  BY DEF LoaderType, IdsType
<1>2. LoaderType(r) /\ SameFrame(d, r) /\ r.refs = d.refs
  BY <1>1, ReleaseFacts
<1>3. LayerExit(d, l) = [r EXCEPT !.refs = d.refs \cup quiet]
  BY <1>2 DEF LayerExit
<1>4. quiet \in SUBSET Tensors /\ d.refs \in SUBSET Tensors
  BY <1>1 DEF LoaderType
<1> HIDE DEF r, quiet
<1>5. QED
  <2>1. /\ LoaderType(LayerExit(d, l)) /\ SameFrame(d, LayerExit(d, l))
        /\ LayerExit(d, l).refs = d.refs \cup quiet
        /\ LayerExit(d, l).map = r.map /\ LayerExit(d, l).bound = r.bound /\ LayerExit(d, l).count = r.count
    BY <1>2, <1>3, <1>4 DEF LoaderType, SameFrame
  <2>2. QED
    BY <2>1 DEF r, quiet

(* a loader that no trap has entered *)
BuiltForLayers(d, ids, G) ==
  /\ LoaderType(d) /\ d.kind = "layer" /\ d.ids = ids
  /\ d.map = {} /\ d.bound = {} /\ d.count = [t \in Tensors |-> 0] /\ d.refs \subseteq G

LEMMA LayerLoaderFacts ==
  ASSUME NEW ids \in IdsType, NEW m \in SUBSET Tensors, NEW G
  PROVE  BuiltForLayers(LayerLoader(ids, m, G), ids, G)
<1> DEFINE d0 == Loader("layer", ids)
           rescue == RescueIds(ids, m)
<1>1. "layer" \in Kinds /\ rescue \subseteq Tensors
  BY DEF Kinds, RescueIds
<1>2. /\ LoaderType(d0) /\ d0.kind = "layer" /\ d0.ids = ids
      /\ d0.map = {} /\ d0.bound = {} /\ d0.count = [t \in Tensors |-> 0] /\ d0.at = 0
  BY <1>1, LoaderFacts
<1> DEFINE d == LayerLoader(ids, m, G)
<1>3. d = [d0 EXCEPT !.rescued = rescue \ G, !.refs = rescue \cap G]
  BY DEF LayerLoader
<1> HIDE DEF d0, rescue, d
<1>4. /\ d.kind = d0.kind /\ d.ids = d0.ids /\ d.map = d0.map /\ d.bound = d0.bound
      /\ d.count = d0.count /\ d.at = d0.at /\ d.refs = rescue \cap G
  BY <1>2, <1>3 DEF LoaderType
<1>5. LoaderType(d)
  BY <1>1, <1>2, <1>3 DEF LoaderType
<1>6. d.refs \subseteq G
  BY <1>4
<1>7. BuiltForLayers(d, ids, G)
  BY <1>2, <1>4, <1>5, <1>6 DEF BuiltForLayers
<1>8. QED
  BY <1>7 DEF d

SameStrategy(d, e) ==
  /\ e.kind = d.kind /\ e.ids = d.ids /\ e.load = d.load /\ e.release = d.release /\ e.bound = d.bound
  /\ e.at = d.at

BuiltForStrategy(d, ids, load) ==
  /\ LoaderType(d) /\ d.kind = "strategy" /\ d.ids = ids /\ d.load = load
  /\ d.bound = {} /\ d.uncovered = {}

LEMMA StrategyLoaderFacts ==
  ASSUME NEW order, NEW ids \in IdsType, NEW load \in IdsType, NEW release \in IdsType,
         NEW m \in SUBSET Tensors, NEW G
  PROVE  BuiltForStrategy(StrategyLoader(order, ids, load, release, m, G), ids, load)
<1> DEFINE d0 == Loader("strategy", ids)
           preload == Preload(order, ids, load, m)
           d == StrategyLoader(order, ids, load, release, m, G)
<1>1. "strategy" \in Kinds /\ preload \subseteq Tensors
  BY DEF Kinds, Preload
<1>2. LoaderType(d0) /\ d0.kind = "strategy" /\ d0.ids = ids /\ d0.bound = {} /\ d0.uncovered = {}
  BY <1>1, LoaderFacts
<1>3. d = [d0 EXCEPT !.order = order, !.load = load, !.release = release,
                     !.map = preload, !.pass = preload \cap G]
  BY DEF StrategyLoader
<1> HIDE DEF d0, preload, d
<1>4. d.kind = d0.kind /\ d.ids = d0.ids /\ d.load = load /\ d.bound = d0.bound /\ d.uncovered = d0.uncovered
  BY <1>2, <1>3 DEF LoaderType
<1>5. LoaderType(d)
  BY <1>1, <1>2, <1>3 DEF LoaderType
<1>6. BuiltForStrategy(d, ids, load)
  BY <1>2, <1>4, <1>5 DEF BuiltForStrategy
<1>7. QED
  BY <1>6 DEF d

LEMMA BlockLoaderFacts ==
  ASSUME NEW ids \in IdsType, NEW load \in IdsType
  PROVE  LET d == BlockLoader(ids, load)
         IN  LoaderType(d) /\ d.kind = "blocks" /\ d.ids = ids /\ d.load = load /\ d.bound = {}
<1> DEFINE d0 == Loader("blocks", ids)
<1>1. "blocks" \in Kinds
  BY DEF Kinds
<1>2. LoaderType(d0) /\ d0.kind = "blocks" /\ d0.ids = ids /\ d0.bound = {}
  BY <1>1, LoaderFacts
<1>3. BlockLoader(ids, load) = [d0 EXCEPT !.load = load]
  BY DEF BlockLoader
<1> HIDE DEF d0
<1>4. QED
  BY <1>2, <1>3 DEF LoaderType

LEMMA ViewEnterFacts ==
  ASSUME NEW d, LoaderType(d), NEW l \in Labels
  PROVE  LET e == ViewEnter(d, l)
         IN  /\ LoaderType(e) /\ e.kind = d.kind /\ e.ids = d.ids /\ e.load = d.load
             /\ e.bound = d.bound /\ (Slots(d.ids, l) # {} => e.at = l)
<1>1. CASE Slots(d.ids, l) = {}
  BY <1>1 DEF ViewEnter
<1>2. CASE Slots(d.ids, l) # {}
  <2>1. ViewEnter(d, l) = [d EXCEPT !.at = l]
    BY <1>2 DEF ViewEnter
  <2>2. QED
    BY <2>1 DEF LoaderType
<1>3. QED
  BY <1>1, <1>2

LEMMA StrategyEnterFacts ==
  ASSUME NEW d, LoaderType(d), NEW l \in Labels, NEW dropped
  PROVE  LET e == StrategyEnter(d, l)
         IN  /\ LoaderType(e) /\ SameStrategy(d, e)
             /\ Covered(d, dropped) => Covered(e, dropped \ d.load[l])
<1> DEFINE e == StrategyEnter(d, l)
<1>1. CASE d.load[l] = {}
  <2>1. e = d
    BY <1>1 DEF StrategyEnter
  <2>2. QED
    BY <1>1, <2>1 DEF SameStrategy, Covered
<1>2. CASE d.load[l] # {}
  <2> DEFINE load == d.load[l]
             flight == d.uncovered \cup (load \ d.map)
             sched == Without(d.sched, ReleaseLabels(d, load))
             events == [t \in DOMAIN d.events \cup load |-> IF t \in load THEN flight ELSE d.events[t]]
  <2>1. e = [d EXCEPT !.sched = sched, !.map = d.map \cup load, !.uncovered = flight, !.events = events]
    BY <1>2 DEF StrategyEnter
  <2>2. load \subseteq Tensors /\ flight \subseteq Tensors /\ DOMAIN events \subseteq Tensors
    BY DEF LoaderType, IdsType
  <2>3. DOMAIN sched \subseteq DOMAIN d.sched
    BY DEF Without, Restrict
  <2>4. Covered(d, dropped) => \A t \in flight \ (dropped \ load) : t \in DOMAIN events /\ t \in events[t]
    BY DEF Covered
  <2> HIDE DEF e, load, flight, sched, events
  <2>5. e.uncovered = flight /\ e.events = events /\ SameStrategy(d, e)
    BY <2>1 DEF LoaderType, SameStrategy
  <2>6. LoaderType(e)
    BY <2>1, <2>2, <2>3 DEF LoaderType
  <2>7. QED
    BY <2>4, <2>5, <2>6 DEF e, load, Covered
<1>3. QED
  BY <1>1, <1>2

LEMMA StrategyEnterFailsFacts ==
  ASSUME NEW d, LoaderType(d), NEW l \in Labels, NEW S \in SUBSET Tensors, NEW dropped
  PROVE  LET e == StrategyEnterFails(d, l, S)
         IN  /\ LoaderType(e) /\ SameStrategy(d, e)
             /\ Covered(d, dropped) => Covered(e, dropped \cup (S \ d.map))
<1> DEFINE e == StrategyEnterFails(d, l, S)
           sched == Without(d.sched, ReleaseLabels(d, d.load[l]))
<1>1. e = [d EXCEPT !.sched = sched, !.map = d.map \cup S, !.uncovered = d.uncovered \cup (S \ d.map)]
  BY DEF StrategyEnterFails
<1>2. DOMAIN sched \subseteq DOMAIN d.sched
  BY DEF Without, Restrict
<1> HIDE DEF e, sched
<1>3. e.uncovered = d.uncovered \cup (S \ d.map) /\ e.events = d.events /\ SameStrategy(d, e)
  BY <1>1 DEF LoaderType, SameStrategy
<1>4. LoaderType(e)
  BY <1>1, <1>2 DEF LoaderType
<1>5. Covered(d, dropped) => Covered(e, dropped \cup (S \ d.map))
  BY <1>3 DEF Covered
<1>6. QED
  BY <1>3, <1>4, <1>5 DEF e

LEMMA StrategyGetFacts ==
  ASSUME NEW d, LoaderType(d), NEW t \in Tensors, NEW dropped
  PROVE  LET e == StrategyGet(d, t)
         IN  /\ LoaderType(e) /\ SameStrategy(d, e) /\ e.map = d.map /\ e.count = d.count /\ e.refs = d.refs
             /\ Covered(d, dropped) => Covered(e, dropped)
             /\ Covered(d, dropped) /\ t \notin dropped => t \notin e.uncovered
<1> DEFINE e == StrategyGet(d, t)
<1>1. CASE t \notin DOMAIN d.events
  <2>1. e = d
    BY <1>1 DEF StrategyGet
  <2>2. QED
    BY <1>1, <2>1 DEF SameStrategy, Covered
<1>2. CASE t \in DOMAIN d.events
  <2> DEFINE events == Without(d.events, {t})
             flight == d.uncovered \ d.events[t]
  <2>1. e = [d EXCEPT !.uncovered = flight, !.events = events]
    BY <1>2 DEF StrategyGet
  <2>2. DOMAIN events = DOMAIN d.events \ {t} /\ \A s \in DOMAIN events : events[s] = d.events[s]
    BY DEF Without, Restrict
  <2>3. flight \subseteq d.uncovered
    OBVIOUS
  <2>4. /\ Covered(d, dropped) => \A s \in flight \ dropped : s \in DOMAIN events /\ s \in events[s]
        /\ Covered(d, dropped) /\ t \notin dropped => t \notin flight
    BY <2>2 DEF Covered
  <2> HIDE DEF e, events, flight
  <2>5. /\ e.uncovered = flight /\ e.events = events /\ SameStrategy(d, e)
        /\ e.map = d.map /\ e.count = d.count /\ e.refs = d.refs
    BY <2>1 DEF LoaderType, SameStrategy
  <2>6. LoaderType(e)
    BY <2>1, <2>2, <2>3 DEF LoaderType
  <2>7. QED
    BY <2>4, <2>5, <2>6 DEF e, Covered
<1>3. QED
  BY <1>1, <1>2

LEMMA StrategyReleaseFacts ==
  ASSUME NEW d, LoaderType(d), NEW after
  PROVE  LET e == StrategyReleaseMemory(d, after)
         IN  /\ LoaderType(e) /\ SameStrategy(d, e)
             /\ e.uncovered \subseteq d.uncovered
             /\ e.events = Without(d.events, Dropped(d, after))
<1> DEFINE e == StrategyReleaseMemory(d, after)
           passed == PassedLabels(d, after)
           freed == (d.map \cap UNION {d.release[l] : l \in passed}) \ d.pass
           rest == Without(d.sched, passed)
           sched == [l \in DOMAIN rest |-> {k \in rest[l] : k[2] \notin freed}]
           events == Without(d.events, Dropped(d, after))
<1>1. e = [d EXCEPT !.map = d.map \ freed, !.uncovered = d.uncovered \ freed, !.events = events, !.sched = sched]
  BY DEF StrategyReleaseMemory
<1>2. DOMAIN events \subseteq DOMAIN d.events /\ DOMAIN sched \subseteq DOMAIN d.sched
  BY DEF Without, Restrict
<1> HIDE DEF e, passed, freed, rest, sched, events
<1>3. e.uncovered = d.uncovered \ freed /\ e.events = events /\ SameStrategy(d, e)
  BY <1>1 DEF LoaderType, SameStrategy
<1>4. LoaderType(e)
  BY <1>1, <1>2 DEF LoaderType
<1>5. QED
  BY <1>3, <1>4 DEF e, events

LEMMA StrategyExitFacts ==
  ASSUME NEW d, LoaderType(d), NEW l \in Labels, NEW before, NEW after, NEW dropped
  PROVE  LET e == StrategyExit(d, l, before, after)
         IN  /\ LoaderType(e) /\ SameStrategy(d, e)
             /\ Covered(d, dropped)
                  => Covered(e, dropped \cup (Dropped(d, after) \cap e.uncovered))
<1> DEFINE e == StrategyExit(d, l, before, after)
           r == StrategyReleaseMemory(d, after)
           sched == [k \in DOMAIN r.sched \cup {l} |-> IF k = l THEN before ELSE r.sched[k]]
           gone == Dropped(d, after)
<1>1. /\ LoaderType(r) /\ SameStrategy(d, r)
      /\ r.uncovered \subseteq d.uncovered /\ r.events = Without(d.events, gone)
  BY StrategyReleaseFacts
<1>2. e = r \/ e = [r EXCEPT !.sched = sched]
  BY DEF StrategyExit
<1>3. DOMAIN sched \subseteq Labels
  BY <1>1 DEF LoaderType
<1>4. DOMAIN Without(d.events, gone) = DOMAIN d.events \ gone
      /\ \A s \in DOMAIN d.events \ gone : Without(d.events, gone)[s] = d.events[s]
  BY DEF Without, Restrict
<1> HIDE DEF e, r, sched, gone
<1>5. LoaderType(e) /\ SameStrategy(d, e) /\ e.uncovered = r.uncovered /\ e.events = r.events
  <2>1. CASE e = r
    BY <1>1, <2>1
  <2>2. CASE e = [r EXCEPT !.sched = sched]
    BY <1>1, <1>3, <2>2 DEF LoaderType, SameStrategy
  <2>3. QED
    BY <1>2, <2>1, <2>2
<1>6. Covered(d, dropped) => Covered(e, dropped \cup (gone \cap e.uncovered))
  BY <1>1, <1>4, <1>5 DEF Covered
<1>7. QED
  BY <1>5, <1>6 DEF e, gone

-----------------------------------------------------------------------------
(* Profiles *)
LEMMA SavedProfileFacts ==
  ASSUME NEW p, ProfileTyped(p)
  PROVE  ProfileType(p)
<1>1. \A l \in Labels : IdsOf(p)[l] \subseteq Tensors
  <2> DEFINE T == [label : Labels, tensors : SUBSET Tensors]
  <2>1. p.stats \in Seq(T) /\ \A r \in T : r.tensors \subseteq Tensors
    BY DEF ProfileTyped
  <2> HIDE DEF T
  <2>2. \A i \in DOMAIN p.stats : p.stats[i] \in T
    BY <2>1
  <2>3. \A i \in DOMAIN p.stats : p.stats[i].tensors \subseteq Tensors
    BY <2>1, <2>2
  <2>4. QED
    BY <2>3 DEF IdsOf
<1>2. IdsOf(p) \in IdsType
  BY <1>1 DEF IdsOf, IdsType
<1>3. QED
  BY <1>2 DEF ProfileType, ProfileTyped, IdsType

LEMMA ProfileFacts ==
  ASSUME NEW order, NEW ids \in IdsType
  PROVE  LET p == Profile(order, ids)
         IN  /\ ProfileType(p) /\ AllIds(p.load) \subseteq AllIds(ids)
             /\ p.loader = "strategy" => ~setup.blocks
<1> DEFINE p == Profile(order, ids)
           load == LoadStrategy(order, ids)
<1>1. \A l \in Labels : load[l] \subseteq AllIds(ids)
  BY DEF LoadStrategy
<1>2. load \in IdsType /\ AllIds(load) \subseteq AllIds(ids)
  BY <1>1, IdsFacts DEF LoadStrategy, IdsType, AllIds
<1>3. NoIds \in IdsType /\ ResourceRelease(ids, load) \in IdsType
  BY DEF NoIds, ResourceRelease, IdsType
<1>4. /\ p.load = load /\ p.release = IF setup.blocks THEN NoIds ELSE ResourceRelease(ids, load)
      /\ p.views = (IF setup.blocks THEN AllIds(load) ELSE {})
      /\ p.loader = (IF setup.blocks THEN "blocks" ELSE "strategy")
      /\ p.stats = [i \in DOMAIN order |-> [label |-> order[i], tensors |-> ids[order[i]]]]
  BY DEF Profile
<1> HIDE DEF p
<1>5. \A i \in DOMAIN p.stats : p.stats[i].label \in Labels => p.stats[i].tensors \subseteq Tensors
  BY <1>4 DEF IdsType
<1>6. \A l \in Labels : IdsOf(p)[l] \subseteq Tensors
  BY <1>5 DEF IdsOf
<1>7. IdsOf(p) \in IdsType
  BY <1>6 DEF IdsOf, IdsType
<1>8. p.load \in IdsType /\ p.release \in IdsType /\ p.views \subseteq Tensors
  BY <1>2, <1>3, <1>4, IdsFacts
<1>9. QED
  BY <1>2, <1>4, <1>7, <1>8 DEF ProfileType, p

LEMMA NoProfileFacts ==
  /\ ProfileType(NoProfile) /\ NoProfile.load = NoIds /\ NoProfile.loader = "none"
  /\ AllIds(NoIds) = {}
<1>1. ProfileTyped(NoProfile)
  BY DEF ProfileTyped, NoProfile, NoIds
<1>2. QED
  BY <1>1, SavedProfileFacts DEF NoProfile, NoIds, AllIds

LEMMA StatIdsFacts ==
  ASSUME IInv
  PROVE  /\ StatIds \in IdsType
         /\ AllIds(StatIds) \subseteq managed \ observed
         /\ \A l \in Labels : StatIds[l] \subseteq coll.ids[l]
<1>1. coll.ids \in IdsType
  BY DEF IInv, TypeInv, ProfilesType
<1>2. \A l \in Labels : StatIds[l] \subseteq (coll.ids[l] \cap managed) \ observed
  BY DEF StatIds
<1>3. QED
  BY <1>1, <1>2 DEF StatIds, IdsType, AllIds

LEMMA ProfileIdsFacts ==
  ASSUME IInv
  PROVE  /\ ProfileIds \in IdsType /\ AllIds(ProfileIds) \subseteq managed
         /\ ~frozen.known => ProfileIds = Discovered
<1>1. coll.ids \in IdsType /\ frozen.ids \in IdsType
  BY DEF IInv, TypeInv, ProfilesType
<1>2. Discovered \in IdsType /\ AllIds(Discovered) \subseteq managed
  BY <1>1 DEF Discovered, IdsType, AllIds
<1>3. ProfileIds = IF frozen.known THEN frozen.ids ELSE Discovered
  BY DEF ProfileIds, Discovered
<1>4. AllIds(frozen.ids) \subseteq managed
  BY DEF IInv, IdsInv
<1>5. QED
  BY <1>1, <1>2, <1>3, <1>4

-----------------------------------------------------------------------------
(* The initial states *)
LEMMA InitHolds == Init => IInv
<1> SUFFICES ASSUME Init PROVE IInv
  OBVIOUS
<1> USE DEF Init
<1>1. /\ NoIds \in IdsType /\ DOMAIN << >> = {} /\ 0 \in Labels \cup {0}
      /\ 0 \in 0..(Layers + 1) /\ 0 \in 0..MaxForwards
  BY LayersFacts, BoundsAssumption DEF NoIds, IdsType
<1>2. ModelType
  BY DEF ModelType, Phases
<1>3. ForwardType
  BY <1>1 DEF ForwardType, NoTrap
<1>4. ProfileType(prof)
  BY SetupFacts, SavedProfileFacts
<1>5. ProfilesType
  BY <1>1, <1>4 DEF ProfilesType
<1>6. HistType
  BY DEF HistType
<1>7. /\ pins.mode \in {"none", "copy", "in_place"} /\ pins.main = {} /\ pins.view = {}
      /\ pins.copied = {} /\ pins.driver = {} /\ pins.lost = {}
      /\ PinsType /\ (pins.mode # "none" => setup.pinned)
  BY DEF MakeHostPinner, PinsType, PinsTyped
<1>8. TypeInv
  BY <1>2, <1>3, <1>5, <1>6, <1>7, NoLoaderFacts DEF TypeInv
<1>9. PhaseInv /\ TrapInv
  BY NoLoaderFacts DEF PhaseInv, TrapInv, NoTrap
<1>10. CopyInv /\ CoverInv
  BY NoLoaderFacts DEF CopyInv, CoverInv, Held
<1>11. DataInv /\ ObservedInv
  BY NoLoaderFacts DEF DataInv, ObservedInv, Host
<1>12. IdsInv
  BY NoLoaderFacts, NoProfileFacts DEF IdsInv, FrozenFits
<1>13. PinInv
  BY <1>7, FS_EmptySet DEF PinInv, Registries
<1>14. PlaceInv
  <2>1. CASE setup.profile = NoProfile
    BY <1>1, <2>1 DEF PlaceInv, NoAdoption
  <2>2. CASE setup.profile # NoProfile
    <3>1. PICK dev \in [DOMAIN StorageSizes -> {"cpu", "gpu"}] :
            place = [s \in DOMAIN StorageSizes |-> [dev |-> dev[s], n |-> StorageSizes[s], pinned |-> FALSE]]
      BY <2>2
    <3>2. DOMAIN place = DOMAIN StorageSizes
      BY <3>1
    <3>3. \A s \in DOMAIN place : place[s] \in [dev : {place[s].dev}, n : {place[s].n}, pinned : BOOLEAN]
      BY <3>1
    <3>4. adoption = NoAdoption
      OBVIOUS
    <3>5. QED
      BY <3>2, <3>3, <3>4 DEF PlaceInv, NoAdoption
  <2>3. QED
    BY <2>1, <2>2
<1>15. PinnedInv /\ ModeInv
  <2>1. CASE setup.profile = NoProfile
    BY <1>7, <2>1, NoLoaderFacts DEF PinnedInv, ModeInv, Pinning
  <2>2. CASE setup.profile # NoProfile
    BY <1>7, <2>2, NoLoaderFacts DEF PinnedInv, ModeInv, Pinning
  <2>3. QED
    BY <2>1, <2>2
<1>16. QED
  BY <1>8, <1>9, <1>10, <1>11, <1>12, <1>13, <1>14, <1>15 DEF IInv

-----------------------------------------------------------------------------
(* What every step of a forward leaves alone, and what that keeps *)
Frame ==
  /\ UNCHANGED <<setup, phase, managed, frozen, prof, pins, place, adoption>>
  /\ ld'.kind = ld.kind /\ ld'.ids = ld.ids /\ ld'.load = ld.load
  /\ hist'.lost = hist.lost /\ hist.leaked \subseteq hist'.leaked /\ hist'.faults >= hist.faults

LEMMA FrameKeepsPins ==
  ASSUME IInv, Frame, HistType'
  PROVE  PinInv' /\ PlaceInv' /\ PinnedInv' /\ ModeInv' /\ PinsType'
<1>1. hist.faults \in Nat /\ hist'.faults \in Nat /\ hist'.faults >= hist.faults
  BY DEF IInv, TypeInv, HistType, Frame
<1>2. hist'.faults = 0 => hist.faults = 0
  BY <1>1
<1>3. UNCHANGED <<setup, phase, pins, place, adoption, prof>> /\ ld'.kind = ld.kind
  BY DEF Frame
<1>4. PinInv'
  BY <1>2, <1>3 DEF IInv, PinInv, Registries, BlockName
<1>5. PlaceInv' /\ PinsType'
  BY <1>3 DEF IInv, PlaceInv, TypeInv, PinsType, PinsTyped
<1>6. PinnedInv' /\ ModeInv'
  BY <1>3 DEF IInv, PinnedInv, ModeInv, Pinning, IsPinned
<1>7. QED
  BY <1>4, <1>5, <1>6

LEMMA FrameKeepsPhase ==
  ASSUME IInv, Frame
  PROVE  PhaseInv'
  BY DEF IInv, PhaseInv, Frame

LEMMA FrameKeepsData ==
  ASSUME IInv, Frame, UNCHANGED <<data, observed>>
  PROVE  DataInv' /\ ObservedInv' /\ ModelType'
<1>1. AllIds(ld.ids)' = AllIds(ld.ids) /\ AllIds(prof.load)' = AllIds(prof.load)
  BY DEF Frame, AllIds
<1>2. UNCHANGED <<setup, phase, managed, frozen, prof, data, observed>>
      /\ ld'.kind = ld.kind /\ hist'.lost = hist.lost /\ hist.leaked \subseteq hist'.leaked
  BY DEF Frame
<1>3. DataInv'
  BY <1>1, <1>2 DEF IInv, DataInv, Host
<1>4. ObservedInv' /\ ModelType'
  BY <1>2 DEF IInv, ObservedInv, TypeInv, ModelType
<1>5. QED
  BY <1>3, <1>4

(* The ids of a loader and of the profile stay, when discovery is over or what
   it finds is kept. *)
LEMMA FrameKeepsIds ==
  ASSUME IInv, Frame,
         setup.mode = "view" /\ FrozenFits /\ phase = "warmup" => pc' = 0 /\ coll'.ids = coll.ids,
         setup.mode = "view" /\ phase = "profile" => coll'.ids = coll.ids,
         ld.kind = "view" /\ trap'.label # 0 /\ Slots(ld.ids, trap'.label) # {} => ld'.at = trap'.label
  PROVE  IdsInv'
<1>1. UNCHANGED <<setup, phase, managed, frozen>> /\ ld'.kind = ld.kind /\ ld'.ids = ld.ids
  BY DEF Frame
<1>2. AllIds(ld.ids)' = AllIds(ld.ids) /\ AllIds(frozen.ids)' = AllIds(frozen.ids)
  BY <1>1 DEF AllIds
<1>3. FrozenFits' = FrozenFits
  BY <1>1 DEF FrozenFits
<1>4. coll'.ids = coll.ids => Discovered' = Discovered
  BY <1>1 DEF Discovered
<1>5. setup.mode = "view" /\ FrozenFits /\ phase \in {"warmup", "profile"}
        => /\ frozen.ids = Discovered' 
           /\ phase = "warmup" => ld.kind = "none" /\ pc' = 0
  BY <1>4 DEF IInv, IdsInv
<1>6. QED
  <2>1. (ld.kind = "view" /\ trap.label # 0 /\ Slots(ld.ids, trap.label) # {} => ld.at = trap.label)'
    BY <1>1 
  <2>2. (/\ AllIds(frozen.ids) \subseteq managed
         /\ ld.kind \in {"warmup", "layer", "view"} => AllIds(ld.ids) \subseteq managed
         /\ ld.kind = "view" => ld.ids = frozen.ids /\ FrozenFits)'
    BY <1>1, <1>2, <1>3 DEF IInv, IdsInv
  <2>3. (setup.mode = "view" /\ FrozenFits /\ phase \in {"warmup", "profile"} =>
           frozen.ids = Discovered /\ (phase = "warmup" => ld.kind = "none" /\ pc = 0))'
    BY <1>1, <1>3, <1>5
  <2>4. QED
    BY <2>1, <2>2, <2>3 DEF IdsInv

-----------------------------------------------------------------------------
(* Copies come with a trap and go with it *)
LEMMA CopiesEntered ==
  ASSUME NEW d, LoaderType(d), NEW l \in Labels, NEW leaked, NEW G, NEW before, NEW after,
         CopiesHeld(d, before, leaked, G), before.label = 0, after.label = l
  PROVE  CopiesHeld(Retain(d, d.ids[l], G), after, leaked, G)
<1> DEFINE S == d.ids[l]
           e == Retain(d, S, G)
<1>1. S \in SUBSET Tensors /\ d.count \in [Tensors -> Nat]
  BY DEF LoaderType, IdsType
<1>2. /\ e.kind = d.kind /\ e.ids = d.ids /\ e.refs = d.refs
      /\ e.map = d.map \cup Fresh(d, S, G) /\ e.bound = d.bound \cup Fresh(d, S, G)
      /\ CountedIn(d, e, S, G)
  BY <1>1, RetainFacts DEF SameFrame
<1> HIDE DEF e
<1>3. \A t \in Tensors : t \in Fresh(d, S, G) <=> t \in S /\ d.count[t] = 0 /\ t \notin G
  BY DEF Fresh
<1> HIDE DEF S
<1>4. \A t \in Tensors :
        /\ (d.count[t] > 0 <=> t \in d.map) /\ (t \in d.map <=> t \in d.bound)
        /\ t \notin leaked => d.count[t] = 0
  BY <1>1 DEF CopiesHeld
<1>5. d.ids[l] = S
  BY DEF S
<1>6. ASSUME NEW t \in Tensors
      PROVE  /\ (e.count[t] > 0 <=> t \in e.map) /\ (t \in e.map <=> t \in e.bound)
             /\ t \notin leaked /\ e.count[t] > 0 => e.count[t] = 1 /\ t \in S /\ t \notin G
             /\ t \in S \ G => e.count[t] > 0
  <2>1. d.count[t] \in Nat
    BY <1>1
  <2>2. QED
    BY <2>1, <1>2, <1>3, <1>4 DEF CountedIn
<1>7. d.kind = "layer" => d.refs \subseteq G
  BY DEF CopiesHeld
<1>8. l # 0
  BY LayersFacts
<1>9. CopiesHeld(e, after, leaked, G)
  BY <1>1, <1>2, <1>5, <1>6, <1>7, <1>8 DEF CopiesHeld
<1>10. QED
  BY <1>9 DEF e, S

LEMMA CopiesReleased ==
  ASSUME NEW d, LoaderType(d), NEW l \in Labels, NEW leaked, NEW G, NEW before, NEW after,
         CopiesHeld(d, before, leaked, G), before.label = l, after.label = 0
  PROVE  CopiesHeld(Release(d, d.ids[l]), after, leaked, G)
<1> DEFINE S == d.ids[l]
           e == Release(d, S)
           last == {t \in S : d.count[t] = 1}
<1>1. S \in SUBSET Tensors /\ d.count \in [Tensors -> Nat] /\ l # 0
  BY LayersFacts DEF LoaderType, IdsType
<1>2. /\ e.kind = d.kind /\ e.ids = d.ids /\ e.refs = d.refs
      /\ e.map = d.map \ last /\ e.bound = d.bound \ last
      /\ \A t \in Tensors : e.count[t] = IF t \in S /\ d.count[t] > 0 THEN d.count[t] - 1 ELSE d.count[t]
  BY <1>1, ReleaseFacts DEF SameFrame
<1> HIDE DEF e
<1>3. \A t \in Tensors : t \in last <=> t \in S /\ d.count[t] = 1
  OBVIOUS
<1>4. \A t \in Tensors :
        /\ (d.count[t] > 0 <=> t \in d.map) /\ (t \in d.map <=> t \in d.bound)
        /\ t \notin leaked /\ d.count[t] > 0 => d.count[t] = 1 /\ t \in S
  BY DEF CopiesHeld
<1> HIDE DEF S, last
<1>5. ASSUME NEW t \in Tensors
      PROVE  /\ (e.count[t] > 0 <=> t \in e.map) /\ (t \in e.map <=> t \in e.bound)
             /\ t \notin leaked => ~(e.count[t] > 0)
  <2>1. d.count[t] \in Nat
    BY <1>1
  <2>2. QED
    BY <2>1, <1>2, <1>3, <1>4
<1>6. d.kind = "layer" => d.refs \subseteq G
  BY DEF CopiesHeld
<1>7. CopiesHeld(e, after, leaked, G)
  BY <1>2, <1>5, <1>6 DEF CopiesHeld
<1>8. QED
  BY <1>7 DEF e, S

LEMMA CopiesExited ==
  ASSUME NEW d, LoaderType(d), NEW l \in Labels, NEW leaked, NEW G, NEW before, NEW after,
         CopiesHeld(d, before, leaked, G), before.label = l, after.label = 0
  PROVE  CopiesHeld(LayerExit(d, l), after, leaked, G)
<1> DEFINE r == Release(d, d.ids[l])
           e == LayerExit(d, l)
           quiet == {t \in d.ids[l] : d.count[t] = 0}
<1>1. CopiesHeld(r, after, leaked, G)
  BY CopiesReleased
<1>2. l # 0 /\ d.ids[l] \in SUBSET Tensors /\ d.count \in [Tensors -> Nat]
  BY LayersFacts DEF LoaderType, IdsType
<1>3. quiet \subseteq G /\ (d.kind = "layer" => d.refs \subseteq G)
  BY <1>2 DEF CopiesHeld
<1>4. /\ e.kind = d.kind /\ e.ids = d.ids /\ e.refs = d.refs \cup quiet
      /\ e.map = r.map /\ e.bound = r.bound /\ e.count = r.count
  BY LayerExitFacts DEF SameFrame
<1>5. r.ids = d.ids
  BY <1>2, ReleaseFacts DEF SameFrame
<1> HIDE DEF r, e, quiet
<1>6. CopiesHeld(e, after, leaked, G)
  BY <1>1, <1>3, <1>4, <1>5 DEF CopiesHeld
<1>7. QED
  BY <1>6 DEF e

(* An enter that fails: a discovery trap releases again, another leaves what it made. *)
LEMMA CopiesUndone ==
  ASSUME NEW d, LoaderType(d), NEW l \in Labels, NEW S \in SUBSET d.ids[l],
         NEW leaked, NEW G, NEW tr, CopiesHeld(d, tr, leaked, G), tr.label = 0, d.kind = "warmup"
  PROVE  LET e == WarmupExit(Retain(d, S, G), l)
         IN  LoaderType(e) /\ SameFrame(d, e) /\ CopiesHeld(e, tr, leaked, G)
<1> DEFINE r == Retain(d, S, G)
           e == Release(r, d.ids[l])
           last == {t \in d.ids[l] : r.count[t] = 1}
<1>1. d.ids[l] \in SUBSET Tensors /\ d.count \in [Tensors -> Nat] /\ S \in SUBSET Tensors
  BY DEF LoaderType, IdsType
<1>2. /\ LoaderType(r) /\ SameFrame(d, r)
      /\ r.map = d.map \cup Fresh(d, S, G) /\ r.bound = d.bound \cup Fresh(d, S, G)
      /\ CountedIn(d, r, S, G)
  BY <1>1, RetainFacts
<1>3. /\ LoaderType(e) /\ SameFrame(r, e) /\ e.map = r.map \ last /\ e.bound = r.bound \ last
      /\ \A t \in Tensors :
           e.count[t] = IF t \in d.ids[l] /\ r.count[t] > 0 THEN r.count[t] - 1 ELSE r.count[t]
  BY <1>1, <1>2, ReleaseFacts
<1>4. e = WarmupExit(r, l)
  BY <1>2 DEF WarmupExit, SameFrame
<1>5. \A t \in Tensors : t \in last <=> t \in d.ids[l] /\ r.count[t] = 1
  BY <1>1
<1>6. \A t \in Tensors : t \in Fresh(d, S, G) <=> t \in S /\ d.count[t] = 0 /\ t \notin G
  BY DEF Fresh
<1>7. \A t \in Tensors :
        /\ (d.count[t] > 0 <=> t \in d.map) /\ (t \in d.map <=> t \in d.bound)
        /\ t \notin leaked => d.count[t] = 0
  BY <1>1 DEF CopiesHeld
<1> HIDE DEF r, e, last
<1>8. ASSUME NEW t \in Tensors
      PROVE  /\ (e.count[t] > 0 <=> t \in e.map) /\ (t \in e.map <=> t \in e.bound)
             /\ t \notin leaked => ~(e.count[t] > 0)
  <2>1. d.count[t] \in Nat /\ (t \in S => t \in d.ids[l])
    BY <1>1
  <2>2. (r.count[t] > 0 <=> t \in r.map) /\ (t \in r.map <=> t \in r.bound) /\ r.count[t] \in Nat
        /\ (t \notin leaked /\ r.count[t] > 0 => r.count[t] = 1 /\ t \in d.ids[l])
    BY <2>1, <1>2, <1>6, <1>7 DEF CountedIn
  <2>3. QED
    BY <2>2, <1>3, <1>5
<1>9. SameFrame(d, e) /\ e.kind = "warmup"
  BY <1>2, <1>3 DEF SameFrame
<1>10. CopiesHeld(e, tr, leaked, G)
  BY <1>8, <1>9 DEF CopiesHeld
<1>11. QED
  BY <1>3, <1>4, <1>9, <1>10 DEF r

LEMMA CopiesLeft ==
  ASSUME NEW d, LoaderType(d), NEW S \in SUBSET Tensors,
         NEW leaked, NEW G, NEW tr, CopiesHeld(d, tr, leaked, G), tr.label = 0
  PROVE  CopiesHeld(Retain(d, S, G), tr, leaked \cup Fresh(d, S, G), G)
<1> DEFINE e == Retain(d, S, G)
<1>1. d.count \in [Tensors -> Nat]
  BY DEF LoaderType
<1>2. /\ SameFrame(d, e) /\ e.refs = d.refs
      /\ e.map = d.map \cup Fresh(d, S, G) /\ e.bound = d.bound \cup Fresh(d, S, G)
      /\ CountedIn(d, e, S, G)
  BY RetainFacts
<1>3. \A t \in Tensors : t \in Fresh(d, S, G) <=> t \in S /\ d.count[t] = 0 /\ t \notin G
  BY DEF Fresh
<1>4. \A t \in Tensors :
        /\ (d.count[t] > 0 <=> t \in d.map) /\ (t \in d.map <=> t \in d.bound)
        /\ t \notin leaked => d.count[t] = 0
  BY <1>1 DEF CopiesHeld
<1> HIDE DEF e
<1>5. ASSUME NEW t \in Tensors
      PROVE  /\ (e.count[t] > 0 <=> t \in e.map) /\ (t \in e.map <=> t \in e.bound)
             /\ t \notin leaked \cup Fresh(d, S, G) => ~(e.count[t] > 0)
  <2>1. d.count[t] \in Nat
    BY <1>1
  <2>2. QED
    BY <2>1, <1>2, <1>3, <1>4 DEF CountedIn
<1>6. d.kind = "layer" => d.refs \subseteq G
  BY DEF CopiesHeld
<1>7. CopiesHeld(e, tr, leaked \cup Fresh(d, S, G), G)
  BY <1>2, <1>5, <1>6 DEF CopiesHeld, SameFrame
<1>8. QED
  BY <1>7 DEF e

(* Discovery copies as if it looked at what is on the GPU: nothing it knows is. *)
LEMMA NothingOnGpu ==
  ASSUME NEW d, NEW S, NEW G, S \cap G = {}
  PROVE  Retain(d, S, {}) = Retain(d, S, G) /\ Fresh(d, S, {}) = Fresh(d, S, G)
<1>1. Fresh(d, S, {}) = Fresh(d, S, G)
  BY DEF Fresh
<1>2. QED
  BY <1>1 DEF Retain

-----------------------------------------------------------------------------
(* Forwards *)
LEMMA TrapClosed ==
  ASSUME IInv, trap = NoTrap \/ pc = 0
  PROVE  trap = NoTrap /\ trap.label = 0 /\ trap.todo = {}
<1>1. NoTrap.label = 0 /\ NoTrap.todo = {}
  BY DEF NoTrap
<1>2. CASE pc = 0
  <2>1. trap.label = 0
    BY <1>2, LayersFacts DEF IInv, TrapInv, TypeInv, ForwardType
  <2>2. QED
    BY <1>1, <2>1 DEF IInv, TrapInv
<1>3. QED
  BY <1>1, <1>2

LEMMA NoTrapTyped ==
  /\ NoTrap \in [label : Labels \cup {0}, todo : SUBSET Tensors, tainted : {NoTrap.tainted}]
  /\ NoTrap.label = 0 /\ NoTrap.todo = {}
  BY DEF NoTrap

(* A step that only moves on. *)
LEMMA MovesOnKeeps ==
  ASSUME IInv, pc' \in 0..(Layers + 1), passes' \in 0..MaxForwards, HistType', trap = NoTrap,
         phase \in {"warmup", "profile", "infer"}, pc' # 0 => passes' < MaxForwards,
         setup.mode = "view" /\ FrozenFits /\ phase = "warmup" => pc' = 0,
         hist'.lost = hist.lost, hist'.leaked = hist.leaked, hist'.faults = hist.faults,
         hist'.dropped = hist.dropped,
         UNCHANGED <<setup, phase, data, managed, observed, trap, running, coll, frozen, prof, ld, pins,
                     place, adoption>>
  PROVE  IInv'
<1>1. hist.faults \in Nat
  BY DEF IInv, TypeInv, HistType
<1>2. Frame
  BY <1>1 DEF Frame
<1>3. trap.label = 0 /\ trap.todo = {} /\ NoTrap.label = 0
  BY TrapClosed, NoTrapTyped
<1>4. ModelType' /\ ForwardType' /\ ProfilesType' /\ LoaderType(ld)'
  <2>1. ModelType' /\ LoaderType(ld)'
    BY DEF IInv, TypeInv, ModelType, LoaderType
  <2>2. ForwardType'
    BY DEF IInv, TypeInv, ForwardType
  <2>3. ProfilesType'
    BY DEF IInv, TypeInv, ProfilesType, ProfileType, IdsOf
  <2>4. QED
    BY <2>1, <2>2, <2>3
<1>5. DataInv' /\ ObservedInv'
  BY <1>2, FrameKeepsData
<1>6. PinInv' /\ PlaceInv' /\ PinnedInv' /\ ModeInv' /\ PinsType'
  BY <1>2, FrameKeepsPins
<1>7. PhaseInv'
  BY <1>2, FrameKeepsPhase
<1>8. IdsInv'
  BY <1>2, <1>3, FrameKeepsIds
<1>9. TrapInv'
  BY <1>3 DEF TrapInv
<1>10. CopyInv' /\ CoverInv'
  BY DEF IInv, CopyInv, CoverInv, CopiesHeld, Covered, OnGpu
<1>11. QED
  BY <1>4, <1>5, <1>6, <1>7, <1>8, <1>9, <1>10 DEF IInv, TypeInv

LEMMA StartForwardKeeps ==
  ASSUME IInv, StartForward
  PROVE  IInv'
<1>1. phase \in {"warmup", "profile", "infer"} /\ ~(phase = "warmup" /\ setup.mode = "view" /\ ld.kind = "none")
  BY DEF StartForward, HasForward
<1>2. trap = NoTrap
  BY TrapClosed DEF StartForward
<1>3. /\ pc' \in 0..(Layers + 1) /\ passes' \in 0..MaxForwards /\ passes' < MaxForwards
      /\ HistType' /\ hist' = hist
  BY LayersFacts DEF StartForward, IInv, TypeInv, ForwardType, HistType
<1>4. setup.mode = "view" /\ FrozenFits /\ phase = "warmup" => pc' = 0
  BY <1>1 DEF IInv, IdsInv
<1>5. QED
  BY <1>1, <1>2, <1>3, <1>4, MovesOnKeeps
     DEF StartForward, modelVars, profileVars, adoptionVars

LEMMA SkipKeeps ==
  ASSUME IInv, Skip
  PROVE  IInv'
<1>1. pc \in 1..Layers /\ pc # 0 /\ trap = NoTrap
  BY LayersFacts DEF Skip
<1>2. phase \in {"warmup", "profile", "infer"}
  BY <1>1 DEF IInv, TrapInv
<1>3. pc' \in 0..(Layers + 1) /\ passes' \in 0..MaxForwards /\ passes' < MaxForwards
  BY <1>1, LayersFacts DEF Skip, forwardVars, IInv, TypeInv, ForwardType, TrapInv
<1>4. setup.mode = "view" /\ FrozenFits /\ phase = "warmup" => pc' = 0
  BY <1>1 DEF IInv, IdsInv
<1>5. /\ HistType' /\ hist'.lost = hist.lost /\ hist'.leaked = hist.leaked
      /\ hist'.faults = hist.faults /\ hist'.dropped = hist.dropped
  BY DEF Skip, IInv, TypeInv, HistType
<1>6. QED
  BY <1>1, <1>2, <1>3, <1>4, <1>5, MovesOnKeeps
     DEF Skip, modelVars, profileVars, adoptionVars

LEMMA FinishForwardKeeps ==
  ASSUME IInv, FinishForward
  PROVE  IInv'
<1>1. pc = Layers + 1 /\ pc # 0 /\ pc \notin Labels
  BY LayersFacts DEF FinishForward
<1>2. phase \in {"warmup", "profile", "infer"}
  BY <1>1 DEF IInv, TrapInv
<1>3. trap = NoTrap
  BY <1>1 DEF IInv, TrapInv, TypeInv, ForwardType
<1>4. pc' = 0 /\ passes' \in 0..MaxForwards
  <2>1. passes \in 0..MaxForwards /\ passes < MaxForwards
    BY <1>1 DEF IInv, TrapInv, TypeInv, ForwardType
  <2>2. QED
    BY <2>1, BoundsAssumption DEF FinishForward
<1>5. HistType' /\ hist' = hist
  BY DEF FinishForward, IInv, TypeInv, HistType
<1>6. QED
  BY <1>2, <1>3, <1>4, <1>5, LayersFacts, MovesOnKeeps
     DEF FinishForward, modelVars, profileVars, adoptionVars

LEMMA FrameKeeps ==
  ASSUME IInv, Frame, UNCHANGED <<data, observed>>, pc # 0,
         HistType', ForwardType', ProfilesType', LoaderType(ld'), TrapInv', CopyInv', CoverInv',
         setup.mode = "view" /\ phase = "profile" => coll'.ids = coll.ids,
         ld.kind = "view" /\ trap'.label # 0 /\ Slots(ld.ids, trap'.label) # {} => ld'.at = trap'.label
  PROVE  IInv'
<1>1. DataInv' /\ ObservedInv' /\ ModelType'
  BY FrameKeepsData
<1>2. PinInv' /\ PlaceInv' /\ PinnedInv' /\ ModeInv' /\ PinsType' /\ PhaseInv'
  BY FrameKeepsPins, FrameKeepsPhase
<1>3. ~(setup.mode = "view" /\ FrozenFits /\ phase = "warmup")
  BY DEF IInv, IdsInv
<1>4. IdsInv'
  BY <1>3, FrameKeepsIds
<1>5. QED
  BY <1>1, <1>2, <1>4 DEF IInv, TypeInv

LEMMA ProfilesSame ==
  ASSUME IInv, UNCHANGED <<coll, frozen, prof>>
  PROVE  ProfilesType'
  BY DEF IInv, TypeInv, ProfilesType, ProfileType, IdsOf

LEMMA IdsManaged ==
  ASSUME IInv, NEW l \in Labels
  PROVE  /\ ld.ids[l] \in SUBSET Tensors /\ ld.load[l] \in SUBSET Tensors
         /\ ld.kind \in {"warmup", "layer", "view"} => ld.ids[l] \subseteq managed
         /\ ld.kind = "warmup" => ld.ids[l] \cap OnGpu = {}
<1>1. ld.ids \in IdsType /\ ld.load \in IdsType
  BY DEF IInv, TypeInv, LoaderType
<1>2. ld.kind \in {"warmup", "layer", "view"} => ld.ids[l] \subseteq managed
  BY <1>1, IdsFacts DEF IInv, IdsInv
<1>3. ld.kind = "warmup" => ld.ids[l] \cap OnGpu = {}
  BY <1>2 DEF IInv, DataInv, Host, OnGpu
<1>4. QED
  BY <1>1, <1>2, <1>3, IdsFacts

(* enter *)
LEMMA LoaderEnterFacts ==
  ASSUME IInv, NEW l \in Labels, trap.label = 0, NEW tr, tr.label = l
  PROVE  LET e == LoaderEnter(l)
         IN  /\ LoaderType(e) /\ e.kind = ld.kind /\ e.ids = ld.ids /\ e.load = ld.load
             /\ IF ld.kind \in Held THEN CopiesHeld(e, tr, hist.leaked, OnGpu) ELSE e.bound = {}
             /\ ld.kind = "view" /\ Slots(ld.ids, l) # {} => e.at = l
             /\ ld.kind = "strategy" => Covered(e, hist.dropped \ ld.load[l])
<1> DEFINE e == LoaderEnter(l)
<1>1. LoaderType(ld) /\ ld.ids[l] \in SUBSET Tensors
  BY IdsManaged DEF IInv, TypeInv
<1>2. IF ld.kind \in Held THEN CopiesHeld(ld, trap, hist.leaked, OnGpu) ELSE ld.bound = {}
  BY DEF IInv, CopyInv
<1>3. CASE ld.kind \in Held
  <2>1. e = Retain(ld, ld.ids[l], OnGpu)
    <3>1. CASE ld.kind = "warmup"
      <4>1. e = Retain(ld, ld.ids[l], {})
        BY <3>1 DEF LoaderEnter
      <4>2. QED
        BY <3>1, <4>1, IdsManaged, NothingOnGpu
    <3>2. CASE ld.kind = "layer"
      BY <3>2 DEF LoaderEnter
    <3>3. QED
      BY <1>3, <3>1, <3>2 DEF Held
  <2> HIDE DEF e
  <2>2. LoaderType(e) /\ SameFrame(ld, e)
    BY <1>1, <2>1, RetainFacts
  <2>3. CopiesHeld(e, tr, hist.leaked, OnGpu)
    BY <1>1, <1>2, <1>3, <2>1, CopiesEntered
  <2>4. QED
    BY <1>3, <2>2, <2>3 DEF SameFrame, e, Held
<1>4. CASE ld.kind = "view"
  <2>1. e = ViewEnter(ld, l)
    BY <1>4 DEF LoaderEnter
  <2> HIDE DEF e
  <2>2. /\ LoaderType(e) /\ e.kind = ld.kind /\ e.ids = ld.ids /\ e.load = ld.load
        /\ e.bound = ld.bound /\ (Slots(ld.ids, l) # {} => e.at = l)
    BY <1>1, <2>1, ViewEnterFacts
  <2>3. QED
    BY <1>2, <1>4, <2>2 DEF Held, e
<1>5. CASE ld.kind = "strategy"
  <2>1. e = StrategyEnter(ld, l)
    BY <1>5 DEF LoaderEnter
  <2>2. Covered(ld, hist.dropped)
    BY <1>5 DEF IInv, CoverInv
  <2> HIDE DEF e
  <2>3. LoaderType(e) /\ SameStrategy(ld, e) /\ Covered(e, hist.dropped \ ld.load[l])
    BY <1>1, <2>1, <2>2, StrategyEnterFacts
  <2>4. QED
    BY <1>2, <1>5, <2>3 DEF SameStrategy, Held, e
<1>6. CASE ld.kind \notin Held \cup {"view", "strategy"}
  <2>1. e = ld
    BY <1>6 DEF LoaderEnter, Held
  <2>2. QED
    BY <1>1, <1>2, <1>6, <2>1 DEF Held
<1>7. QED
  BY <1>3, <1>4, <1>5, <1>6

LEMMA EnterTrapKeeps ==
  ASSUME IInv, NEW l \in Labels, EnterTrap(l)
  PROVE  IInv'
<1>1. /\ pc = l /\ trap = NoTrap /\ pc' = pc /\ passes' = passes /\ running' = running
      /\ trap' = [label |-> l, todo |-> IF phase = "warmup" THEN {} ELSE ReadsOf(l), tainted |-> FALSE]
      /\ ld' = LoaderEnter(l)
      /\ hist' = [hist EXCEPT !.dropped = hist.dropped \ ld.load[l]]
      /\ UNCHANGED <<setup, phase, data, managed, observed, coll, frozen, prof, pins, place, adoption>>
  BY DEF EnterTrap, modelVars, profileVars, adoptionVars
<1>2. trap.label = 0 /\ l # 0 /\ trap'.label = l
  BY <1>1, TrapClosed, LayersFacts
<1>3. /\ LoaderType(ld') /\ ld'.kind = ld.kind /\ ld'.ids = ld.ids /\ ld'.load = ld.load
      /\ IF ld.kind \in Held THEN CopiesHeld(ld', trap', hist.leaked, OnGpu) ELSE ld'.bound = {}
      /\ ld.kind = "view" /\ Slots(ld.ids, l) # {} => ld'.at = l
      /\ ld.kind = "strategy" => Covered(ld', hist.dropped \ ld.load[l])
  BY <1>1, <1>2, LoaderEnterFacts
<1>4. /\ hist.faults \in Nat /\ HistType' /\ hist'.dropped = hist.dropped \ ld.load[l]
      /\ hist'.lost = hist.lost /\ hist'.leaked = hist.leaked /\ hist'.faults = hist.faults
  BY <1>1, IdsManaged DEF IInv, TypeInv, HistType
<1>5. Frame
  BY <1>1, <1>3, <1>4 DEF Frame
<1>6. ReadsOf(l) \subseteq Tensors
  BY SetupFacts DEF IInv, TypeInv, ModelType, ReadsOf, IdsType
<1>7. ForwardType'
  BY <1>1, <1>6 DEF IInv, TypeInv, ForwardType
<1>8. TrapInv'
  BY <1>1, <1>2 DEF IInv, TrapInv
<1>9. OnGpu' = OnGpu
  BY <1>1 DEF OnGpu
<1>10. CopyInv' /\ CoverInv'
  BY <1>3, <1>4, <1>9 DEF CopyInv, CoverInv
<1>11. ProfilesType'
  BY <1>1, ProfilesSame
<1>12. coll'.ids = coll.ids /\ pc # 0
  BY <1>1, <1>2
<1>13. ld.kind = "view" /\ trap'.label # 0 /\ Slots(ld.ids, trap'.label) # {} => ld'.at = trap'.label
  BY <1>2, <1>3
<1>14. QED
  BY <1>1, <1>3, <1>4, <1>5, <1>7, <1>8, <1>10, <1>11, <1>12, <1>13, FrameKeeps

LEMMA FailFacts ==
  ASSUME HistType
  PROVE  LET h == Fail(hist)
         IN  /\ h \in [faults : Nat, leaked : SUBSET Tensors, lost : SUBSET Tensors,
                       dropped : SUBSET Tensors, incomplete : {h.incomplete}]
             /\ h.faults = hist.faults + 1 /\ h.leaked = hist.leaked /\ h.lost = hist.lost
             /\ h.dropped = hist.dropped
  BY DEF HistType, Fail

(* an enter that fails *)
LEMMA EntersPartFacts ==
  ASSUME IInv, NEW l \in Labels, NEW S \in SUBSET Tensors, trap.label = 0,
         ld.kind \in {"warmup", "layer", "strategy"}, ld.kind # "strategy" => S \subseteq ld.ids[l]
  PROVE  LET e == EntersPart(l, S)
         IN  /\ LoaderType(e) /\ e.kind = ld.kind /\ e.ids = ld.ids /\ e.load = ld.load
             /\ ld.kind = "warmup" => CopiesHeld(e, trap, hist.leaked, OnGpu)
             /\ ld.kind = "layer" => CopiesHeld(e, trap, hist.leaked \cup Fresh(ld, S, OnGpu), OnGpu)
             /\ ld.kind = "strategy" => e.bound = {} /\ Covered(e, hist.dropped \cup (S \ ld.map))
<1> DEFINE e == EntersPart(l, S)
<1>1. LoaderType(ld)
  BY DEF IInv, TypeInv
<1>2. ld.kind \in Held => CopiesHeld(ld, trap, hist.leaked, OnGpu)
  BY DEF IInv, CopyInv
<1>3. CASE ld.kind = "warmup"
  <2>1. S \cap OnGpu = {}
    BY <1>3, IdsManaged
  <2>2. e = WarmupExit(Retain(ld, S, OnGpu), l)
    BY <1>3, <2>1, NothingOnGpu DEF EntersPart
  <2> HIDE DEF e
  <2>3. LoaderType(e) /\ SameFrame(ld, e) /\ CopiesHeld(e, trap, hist.leaked, OnGpu)
    BY <1>1, <1>2, <1>3, <2>2, CopiesUndone DEF Held
  <2>4. QED
    BY <1>3, <2>3 DEF SameFrame, e
<1>4. CASE ld.kind = "layer"
  <2>1. e = Retain(ld, S, OnGpu)
    BY <1>4 DEF EntersPart
  <2> HIDE DEF e
  <2>2. LoaderType(e) /\ SameFrame(ld, e)
    BY <1>1, <2>1, RetainFacts
  <2>3. CopiesHeld(e, trap, hist.leaked \cup Fresh(ld, S, OnGpu), OnGpu)
    BY <1>1, <1>2, <1>4, <2>1, CopiesLeft DEF Held
  <2>4. QED
    BY <1>4, <2>2, <2>3 DEF SameFrame, e
<1>5. CASE ld.kind = "strategy"
  <2>1. e = StrategyEnterFails(ld, l, S)
    BY <1>5 DEF EntersPart
  <2>2. Covered(ld, hist.dropped) /\ ld.bound = {}
    BY <1>5 DEF IInv, CoverInv, CopyInv, Held
  <2> HIDE DEF e
  <2>3. LoaderType(e) /\ SameStrategy(ld, e) /\ Covered(e, hist.dropped \cup (S \ ld.map))
    BY <1>1, <2>1, <2>2, StrategyEnterFailsFacts
  <2>4. QED
    BY <1>5, <2>2, <2>3 DEF SameStrategy, e
<1>6. QED
  BY <1>3, <1>4, <1>5

LEMMA EnterFailsKeeps ==
  ASSUME IInv, NEW l \in Labels, NEW S \in SUBSET Tensors, EnterFails(l, S)
  PROVE  IInv'
<1>1. /\ pc = l /\ trap = NoTrap /\ ld.kind \in {"warmup", "layer", "strategy"}
      /\ ld.kind # "strategy" => S \subseteq ld.ids[l]
      /\ hist' = CASE ld.kind = "strategy" ->
                        [Fail(hist) EXCEPT !.incomplete = TRUE, !.dropped = @ \cup (S \ ld.map)]
                   [] ld.kind = "layer"    -> [Fail(hist) EXCEPT !.leaked = @ \cup Fresh(ld, S, OnGpu)]
                   [] OTHER                -> Fail(hist)
      /\ ld' = EntersPart(l, S) /\ pc' = 0 /\ trap' = trap /\ passes' = passes /\ running' = running
      /\ UNCHANGED <<setup, phase, data, managed, observed, coll, frozen, prof, pins, place, adoption>>
  BY DEF EnterFails, modelVars, profileVars, adoptionVars
<1>2. trap.label = 0 /\ pc # 0
  BY <1>1, TrapClosed, LayersFacts
<1>3. /\ LoaderType(ld') /\ ld'.kind = ld.kind /\ ld'.ids = ld.ids /\ ld'.load = ld.load
      /\ ld.kind = "warmup" => CopiesHeld(ld', trap, hist.leaked, OnGpu)
      /\ ld.kind = "layer" => CopiesHeld(ld', trap, hist.leaked \cup Fresh(ld, S, OnGpu), OnGpu)
      /\ ld.kind = "strategy" => ld'.bound = {} /\ Covered(ld', hist.dropped \cup (S \ ld.map))
  BY <1>1, <1>2, EntersPartFacts
<1>4. HistType /\ Fresh(ld, S, OnGpu) \subseteq Tensors
  BY DEF IInv, TypeInv, Fresh
<1>5. /\ HistType' /\ hist'.lost = hist.lost /\ hist'.faults = hist.faults + 1
      /\ ld.kind = "strategy" => hist'.dropped = hist.dropped \cup (S \ ld.map) /\ hist'.leaked = hist.leaked
      /\ ld.kind = "layer" => hist'.leaked = hist.leaked \cup Fresh(ld, S, OnGpu)
      /\ ld.kind = "warmup" => hist'.leaked = hist.leaked
  <2>1. CASE ld.kind = "strategy"
    <3>1. hist' = [Fail(hist) EXCEPT !.incomplete = TRUE, !.dropped = @ \cup (S \ ld.map)]
      BY <1>1, <2>1
    <3>2. QED
      BY <1>4, <2>1, <3>1, FailFacts DEF HistType
  <2>2. CASE ld.kind = "layer"
    <3>1. hist' = [Fail(hist) EXCEPT !.leaked = @ \cup Fresh(ld, S, OnGpu)]
      BY <1>1, <2>2
    <3>2. QED
      BY <1>4, <2>2, <3>1, FailFacts DEF HistType
  <2>3. CASE ld.kind = "warmup"
    <3>1. hist' = Fail(hist)
      BY <1>1, <2>3
    <3>2. QED
      BY <1>4, <2>3, <3>1, FailFacts DEF HistType
  <2>4. QED
    BY <1>1, <2>1, <2>2, <2>3
<1>6. Frame
  <2>1. hist'.faults >= hist.faults /\ hist.leaked \subseteq hist'.leaked
    BY <1>1, <1>4, <1>5 DEF HistType
  <2>2. QED
    BY <1>1, <1>3, <1>5, <2>1 DEF Frame
<1>7. ForwardType' /\ TrapInv'
  BY <1>1, <1>2, LayersFacts DEF IInv, TypeInv, ForwardType, TrapInv
<1>8. OnGpu' = OnGpu
  BY <1>1 DEF OnGpu
<1>9. CopyInv' /\ CoverInv'
  BY <1>1, <1>3, <1>5, <1>8 DEF CopyInv, CoverInv, Held
<1>10. ProfilesType' /\ coll'.ids = coll.ids
  BY <1>1, ProfilesSame
<1>11. trap'.label = 0
  BY <1>1, <1>2
<1>12. QED
  BY <1>1, <1>2, <1>3, <1>5, <1>6, <1>7, <1>9, <1>10, <1>11, FrameKeeps

(* a read *)
LEMMA ReadsInTrap ==
  ASSUME IInv, trap.todo # {}
  PROVE  /\ Min(trap.todo) \in trap.todo /\ trap.todo \subseteq Tensors
         /\ trap.label \in Labels /\ pc = trap.label /\ pc # 0 /\ phase \in {"profile", "infer"}
         /\ ld.kind \in {"layer", "view", "strategy", "blocks"}
         /\ ld.kind = "view" \/ ld.kind = "layer" => phase = "profile"
         /\ ld.kind = "strategy" \/ ld.kind = "blocks" => phase = "infer"
<1>1. trap.todo \subseteq Tensors /\ trap.label \in Labels \cup {0}
  BY DEF IInv, TypeInv, ForwardType
<1>2. Min(trap.todo) \in trap.todo
  BY <1>1, TensorsAssumption, LeastOfSet
<1>3. trap.label # 0 /\ pc = trap.label
  BY NoTrapTyped DEF IInv, TrapInv
<1>4. phase \in {"profile", "infer"}
  BY <1>3 DEF IInv, TrapInv
<1>5. QED
  BY <1>1, <1>2, <1>3, <1>4 DEF IInv, PhaseInv

LEMMA ReadLoaderFacts ==
  ASSUME IInv, Read
  PROVE  /\ LoaderType(ld') /\ ld'.kind = ld.kind /\ ld'.ids = ld.ids /\ ld'.load = ld.load
         /\ ld'.bound = ld.bound /\ ld'.at = ld.at
         /\ ld.kind # "strategy" => ld' = ld
         /\ ld.kind = "strategy" => Covered(ld', hist.dropped)
<1> DEFINE t == Min(trap.todo)
           through == ThroughLoader(t) /\ ld.kind = "strategy"
           after == IF through THEN StrategyGet(ld, t) ELSE ld
           copy == ThroughLoader(t) /\ ld.kind = "strategy" /\ t \in ld.map \ ld.pass
           kernel == <<trap.label, t>>
           sched == [k \in DOMAIN after.sched |-> after.sched[k] \ {kernel}]
<1>1. ld' = IF copy THEN [after EXCEPT !.sched = sched] ELSE after
  BY DEF Read
<1>2. t \in Tensors /\ LoaderType(ld)
  BY ReadsInTrap DEF Read, IInv, TypeInv
<1>3. /\ LoaderType(after) /\ SameStrategy(ld, after)
      /\ ld.kind = "strategy" => Covered(after, hist.dropped)
      /\ ld.kind # "strategy" => after = ld
  <2>1. ld.kind = "strategy" => Covered(ld, hist.dropped)
    BY DEF IInv, CoverInv
  <2>2. CASE through
    BY <1>2, <2>1, <2>2, StrategyGetFacts
  <2>3. CASE ~through
    BY <1>2, <2>1, <2>3 DEF SameStrategy
  <2>4. QED
    BY <2>2, <2>3
<1>4. copy => ld.kind = "strategy"
  OBVIOUS
<1>5. DOMAIN sched = DOMAIN after.sched
  OBVIOUS
<1> HIDE DEF after, copy, sched
<1>6. CASE copy
  <2>1. ld' = [after EXCEPT !.sched = sched]
    BY <1>1, <1>6
  <2>2. LoaderType(ld')
    BY <1>3, <1>5, <2>1 DEF LoaderType
  <2>3. ld'.uncovered = after.uncovered /\ ld'.events = after.events /\ SameStrategy(after, ld')
    BY <1>3, <2>1 DEF LoaderType, SameStrategy
  <2>4. QED
    BY <1>3, <1>4, <1>6, <2>2, <2>3 DEF SameStrategy, Covered
<1>7. CASE ~copy
  BY <1>1, <1>3, <1>7 DEF SameStrategy
<1>8. QED
  BY <1>6, <1>7

LEMMA ReadKeeps ==
  ASSUME IInv, Read
  PROVE  IInv'
<1> DEFINE t == Min(trap.todo)
<1>1. trap.todo # {}
  BY DEF Read
<1>2. /\ t \in trap.todo /\ t \in Tensors /\ trap.todo \subseteq Tensors /\ trap.label \in Labels
      /\ pc = trap.label /\ pc # 0 /\ phase \in {"profile", "infer"}
      /\ ld.kind \in {"layer", "view", "strategy", "blocks"}
      /\ ld.kind = "view" \/ ld.kind = "layer" => phase = "profile"
      /\ ld.kind = "strategy" \/ ld.kind = "blocks" => phase = "infer"
  BY <1>1, ReadsInTrap
<1>3. /\ data' = (IF Promoted(t) THEN Change(data, {t}, "gpu") ELSE data)
      /\ observed' = (IF Promoted(t) THEN observed \cup {t} ELSE observed)
      /\ trap' = [trap EXCEPT !.todo = trap.todo \ {t}, !.tainted = trap.tainted \/ Promoted(t)]
      /\ running' \subseteq running \cup {<<trap.label, t>>}
      /\ hist' = hist /\ pc' = pc /\ passes' = passes
      /\ UNCHANGED <<setup, phase, managed, coll, frozen, prof, pins, place, adoption>>
  BY DEF Read, profileVars, adoptionVars
<1>4. /\ LoaderType(ld') /\ ld'.kind = ld.kind /\ ld'.ids = ld.ids /\ ld'.load = ld.load
      /\ ld'.bound = ld.bound /\ ld'.at = ld.at
      /\ ld.kind # "strategy" => ld' = ld
      /\ ld.kind = "strategy" => Covered(ld', hist.dropped)
  BY ReadLoaderFacts
<1>5. HistType' /\ HistType /\ hist.faults \in Nat
  BY <1>3 DEF IInv, TypeInv, HistType
<1>6. Frame
  BY <1>3, <1>4, <1>5 DEF Frame
<1>7. trap'.label = trap.label /\ trap'.todo \subseteq trap.todo /\ ForwardType'
  <2> DEFINE tainted == trap.tainted \/ Promoted(t)
  <2>1. trap' = [trap EXCEPT !.todo = trap.todo \ {t}, !.tainted = tainted]
    BY <1>3
  <2>2. trap \in [label : Labels \cup {0}, todo : SUBSET Tensors, tainted : {trap.tainted}]
    BY DEF IInv, TypeInv, ForwardType
  <2>3. running' \subseteq Labels \X Tensors /\ pc' = pc /\ passes' = passes
    BY <1>2, <1>3 DEF IInv, TypeInv, ForwardType
  <2> HIDE DEF tainted, t
  <2>4. /\ trap'.label = trap.label /\ trap'.todo = trap.todo \ {t}
        /\ trap' \in [label : Labels \cup {0}, todo : SUBSET Tensors, tainted : {trap'.tainted}]
    BY <2>1, <2>2
  <2>5. QED
    BY <2>3, <2>4 DEF IInv, TypeInv, ForwardType
<1>8. TrapInv'
  BY <1>2, <1>3, <1>7, LayersFacts DEF IInv, TrapInv
<1>9. Promoted(t) => /\ t \in managed \ observed /\ t \notin ld.bound /\ ld.kind \in {"layer", "strategy"}
  BY DEF Promoted, ThroughLoader, Traced
<1>10. data \in [Tensors -> {"host", "gpu", "slot", "blank"}] /\ observed \subseteq managed /\ managed \subseteq Tensors
  BY DEF IInv, TypeInv, ModelType
<1>11. /\ data' \in [Tensors -> {"host", "gpu", "slot", "blank"}]
       /\ \A s \in Tensors : data'[s] = IF Promoted(t) /\ s = t THEN "gpu" ELSE data[s]
       /\ OnGpu' = IF Promoted(t) THEN OnGpu \cup {t} ELSE OnGpu
  BY <1>2, <1>3, <1>10 DEF Change, OnGpu
<1>12. ModelType'
  BY <1>3, <1>9, <1>11 DEF IInv, TypeInv, ModelType
<1>13. ObservedInv'
  BY <1>2, <1>3, <1>4, <1>9, <1>10, <1>11 DEF IInv, ObservedInv, PhaseInv
<1>14. AllIds(ld.ids)' = AllIds(ld.ids) /\ AllIds(prof.load)' = AllIds(prof.load)
  BY <1>3, <1>4 DEF AllIds
<1>15. AllIds(prof.load) \subseteq Tensors
  BY IdsFacts DEF IInv, TypeInv, ProfilesType, ProfileType
<1>16. DataInv'
  <2>1. CASE Promoted(t)
    <3>1. \A s \in Tensors : data'[s] = IF s = t THEN "gpu" ELSE data[s]
      BY <1>11, <2>1
    <3>2. observed' = observed \cup {t} /\ ld.kind \in {"layer", "strategy"}
      BY <1>3, <1>9, <2>1
    <3>3. \A s \in Tensors : data'[s] # "slot" /\ (data'[s] = "blank" => s \in hist.lost)
      BY <3>1, <3>2 DEF IInv, DataInv
    <3>4. phase = "infer" =>
            \A s \in AllIds(prof.load) \ (observed' \cup hist.leaked \cup hist.lost) : data'[s] = "host"
      BY <1>15, <3>1, <3>2 DEF IInv, DataInv, Host
    <3>5. phase = "profile" /\ setup.mode # "view" => \A s \in managed \ observed' : data'[s] = "host"
      BY <1>10, <3>1, <3>2 DEF IInv, DataInv, Host
    <3>6. \A s \in Tensors \ managed : data'[s] = "gpu"
      BY <1>2, <3>1 DEF IInv, DataInv
    <3>7. UNCHANGED <<phase, setup, managed, hist>> /\ ld'.kind \in {"layer", "strategy"}
      BY <1>3, <1>4, <3>2
    <3>8. QED
      BY <1>2, <1>14, <3>3, <3>4, <3>5, <3>6, <3>7 DEF DataInv, Host
  <2>2. CASE ~Promoted(t)
    BY <1>3, <1>6, <2>2, FrameKeepsData
  <2>3. QED
    BY <2>1, <2>2
<1>17. CopyInv' /\ CoverInv'
  <2>1. CASE ld.kind = "layer"
    <3>1. ld' = ld /\ CopiesHeld(ld, trap, hist.leaked, OnGpu)
      BY <1>4, <2>1 DEF IInv, CopyInv, Held
    <3>2. OnGpu \subseteq OnGpu' /\ \A s \in OnGpu' : s \in OnGpu \/ s \notin ld.bound
      BY <1>9, <1>11
    <3>3. CopiesHeld(ld, trap', hist.leaked, OnGpu')
      BY <1>7, <3>1, <3>2 DEF CopiesHeld
    <3>4. QED
      BY <1>3, <2>1, <3>1, <3>3 DEF CopyInv, CoverInv, Held
  <2>2. CASE ld.kind # "layer"
    BY <1>2, <1>3, <1>4, <2>2 DEF IInv, CopyInv, CoverInv, Held
  <2>3. QED
    BY <2>1, <2>2
<1>18. ProfilesType'
  BY <1>3, ProfilesSame
<1>19. PinInv' /\ PlaceInv' /\ PinnedInv' /\ ModeInv' /\ PinsType' /\ PhaseInv'
  BY <1>5, <1>6, FrameKeepsPins, FrameKeepsPhase
<1>20. IdsInv'
  <2>1. coll' = coll /\ (setup.mode = "view" /\ FrozenFits /\ phase = "warmup" => pc' = 0)
    BY <1>2, <1>3
  <2>2. ld.kind = "view" /\ trap'.label # 0 /\ Slots(ld.ids, trap'.label) # {} => ld'.at = trap'.label
    BY <1>4, <1>7 DEF IInv, IdsInv
  <2>3. QED
    BY <1>6, <2>1, <2>2, FrameKeepsIds
<1>21. QED
  BY <1>4, <1>5, <1>7, <1>8, <1>12, <1>13, <1>16, <1>17, <1>18, <1>19, <1>20 DEF IInv, TypeInv

(* an exit *)
LEMMA LoaderExitFacts ==
  ASSUME IInv, NEW l \in Labels, trap.label = l, LoaderExit(l), NEW tr, tr.label = 0
  PROVE  /\ LoaderType(ld') /\ ld'.kind = ld.kind /\ ld'.ids = ld.ids /\ ld'.load = ld.load
         /\ IF ld.kind \in Held THEN CopiesHeld(ld', tr, hist.leaked, OnGpu) ELSE ld'.bound = {}
         /\ ld.kind = "strategy" => Covered(ld', hist'.dropped)
         /\ HistType' /\ hist'.lost = hist.lost /\ hist'.leaked = hist.leaked /\ hist'.faults >= hist.faults
         /\ running' \subseteq running
<1>1. LoaderType(ld) /\ HistType /\ ld.ids[l] \in SUBSET Tensors
  BY IdsManaged DEF IInv, TypeInv
<1>2. IF ld.kind \in Held THEN CopiesHeld(ld, trap, hist.leaked, OnGpu) ELSE ld.bound = {}
  BY DEF IInv, CopyInv
<1>3. CASE ld.kind = "strategy"
  <2> DEFINE gone == Dropped(ld, running') \cap ld'.uncovered
             cut == IF trap.todo # {} /\ ~Raises THEN 1 ELSE 0
             incomplete == hist.incomplete \/ trap.todo # {}
  <2>1. /\ running' \subseteq running /\ ld' = StrategyExit(ld, l, running, running')
        /\ hist' = [hist EXCEPT !.dropped = hist.dropped \cup gone, !.faults = hist.faults + cut,
                                !.incomplete = incomplete]
    BY <1>3 DEF LoaderExit
  <2>2. cut \in Nat
    OBVIOUS
  <2>3. Covered(ld, hist.dropped)
    BY <1>3 DEF IInv, CoverInv
  <2>4. LoaderType(ld') /\ SameStrategy(ld, ld') /\ Covered(ld', hist.dropped \cup gone)
    BY <1>1, <2>1, <2>3, StrategyExitFacts
  <2>5. gone \subseteq Tensors
    BY <2>4 DEF LoaderType
  <2> HIDE DEF gone, cut, incomplete
  <2>6. /\ HistType' /\ hist'.lost = hist.lost /\ hist'.leaked = hist.leaked
        /\ hist'.faults = hist.faults + cut /\ hist'.dropped = hist.dropped \cup gone
    <3> DEFINE dropped == hist.dropped \cup gone
               faults == hist.faults + cut
    <3>1. hist' = [hist EXCEPT !.dropped = dropped, !.faults = faults, !.incomplete = incomplete]
      BY <2>1
    <3>2. dropped \in SUBSET Tensors /\ faults \in Nat
      BY <1>1, <2>2, <2>5 DEF HistType
    <3> HIDE DEF dropped, faults
    <3>3. HistType' /\ hist'.lost = hist.lost /\ hist'.leaked = hist.leaked
          /\ hist'.faults = faults /\ hist'.dropped = dropped
      BY <1>1, <3>1, <3>2 DEF HistType
    <3>4. QED
      BY <3>3 DEF dropped, faults
  <2>7. hist.faults \in Nat
    BY <1>1 DEF HistType
  <2>8. QED
    BY <1>2, <1>3, <2>1, <2>2, <2>4, <2>6, <2>7 DEF SameStrategy, Held
<1>4. CASE ld.kind # "strategy"
  <2>1. /\ running' = running
        /\ ld' = (CASE ld.kind = "warmup" -> WarmupExit(ld, l)
                    [] ld.kind = "layer"  -> LayerExit(ld, l)
                    [] OTHER              -> ld)
        /\ hist' = hist \/ hist' = Fail(hist)
    BY <1>4 DEF LoaderExit
  <2>2. HistType' /\ hist'.lost = hist.lost /\ hist'.leaked = hist.leaked /\ hist'.faults >= hist.faults
    <3>1. hist.faults \in Nat
      BY <1>1 DEF HistType
    <3>2. CASE hist' = hist
      BY <1>1, <3>1, <3>2 DEF HistType
    <3>3. CASE hist' = Fail(hist)
      BY <1>1, <3>1, <3>3, FailFacts DEF HistType
    <3>4. QED
      BY <2>1, <3>2, <3>3
  <2>3. CASE ld.kind = "warmup"
    <3>1. ld' = Release(ld, ld.ids[l])
      BY <2>1, <2>3 DEF WarmupExit
    <3>2. LoaderType(ld') /\ SameFrame(ld, ld')
      BY <1>1, <3>1, ReleaseFacts
    <3>3. CopiesHeld(ld', tr, hist.leaked, OnGpu)
      BY <1>1, <1>2, <2>3, <3>1, CopiesReleased DEF Held
    <3>4. QED
      BY <2>1, <2>2, <2>3, <3>2, <3>3 DEF SameFrame, Held
  <2>4. CASE ld.kind = "layer"
    <3>1. ld' = LayerExit(ld, l)
      BY <2>1, <2>4
    <3>2. LoaderType(ld') /\ SameFrame(ld, ld')
      BY <1>1, <3>1, LayerExitFacts
    <3>3. CopiesHeld(ld', tr, hist.leaked, OnGpu)
      BY <1>1, <1>2, <2>4, <3>1, CopiesExited DEF Held
    <3>4. QED
      BY <2>1, <2>2, <2>4, <3>2, <3>3 DEF SameFrame, Held
  <2>5. CASE ld.kind \notin Held
    <3>1. ld' = ld
      BY <2>1, <2>5 DEF Held
    <3>2. QED
      BY <1>1, <1>2, <1>4, <2>1, <2>2, <2>5, <3>1
  <2>6. QED
    BY <2>3, <2>4, <2>5 DEF Held
<1>5. QED
  BY <1>3, <1>4

LEMMA RecordedFacts ==
  ASSUME IInv, NEW l \in Labels, coll' = Recorded(l), UNCHANGED <<frozen, prof>>
  PROVE  /\ ProfilesType'
         /\ setup.mode = "view" /\ phase = "profile" => coll'.ids = coll.ids
<1>1. coll \in [seen : {coll.seen}, ids : IdsType, timed : {coll.timed}]
  BY DEF IInv, TypeInv, ProfilesType
<1> DEFINE found == coll.ids[l] \cup (Seen \cap Traced)
           seen == With(coll.seen, l)
           timed == coll.timed \cup {l}
<1>2. coll.ids[l] \subseteq Tensors /\ ld.ids[l] \subseteq Tensors /\ found \subseteq Tensors
  <2>1. Traced \subseteq Tensors
    BY DEF IInv, TypeInv, ModelType, Traced
  <2>2. QED
    BY <1>1, <2>1, IdsManaged DEF IdsType
<1>3. /\ phase = "warmup" => coll' = [coll EXCEPT !.seen = seen, !.ids[l] = found \cup ld.ids[l]]
      /\ phase = "profile" /\ setup.mode = "torch_function"
           => coll' = [coll EXCEPT !.seen = seen, !.ids[l] = found, !.timed = timed]
      /\ phase = "profile" /\ setup.mode # "torch_function" => coll' = coll \/ coll' = [coll EXCEPT !.timed = timed]
      /\ phase \notin {"warmup", "profile"} => coll' = coll
  BY DEF Recorded
<1> HIDE DEF found, seen, timed
<1>4. /\ coll' \in [seen : {coll'.seen}, ids : IdsType, timed : {coll'.timed}]
      /\ setup.mode = "view" /\ phase = "profile" => coll'.ids = coll.ids
  <2>1. CASE phase = "warmup"
    <3>1. [coll.ids EXCEPT ![l] = found \cup ld.ids[l]] \in IdsType
      BY <1>1, <1>2 DEF IdsType
    <3>2. coll' = [coll EXCEPT !.seen = seen, !.ids = [coll.ids EXCEPT ![l] = found \cup ld.ids[l]]]
      BY <1>1, <1>3, <2>1
    <3>3. QED
      BY <1>1, <2>1, <3>1, <3>2
  <2>2. CASE phase = "profile" /\ setup.mode = "torch_function"
    <3>1. [coll.ids EXCEPT ![l] = found] \in IdsType
      BY <1>1, <1>2 DEF IdsType
    <3>2. coll' = [coll EXCEPT !.seen = seen, !.ids = [coll.ids EXCEPT ![l] = found], !.timed = timed]
      BY <1>1, <1>3, <2>2
    <3>3. QED
      BY <1>1, <2>2, <3>1, <3>2
  <2>3. CASE phase = "profile" /\ setup.mode # "torch_function"
    BY <1>1, <1>3, <2>3
  <2>4. CASE phase \notin {"warmup", "profile"}
    BY <1>1, <1>3, <2>4
  <2>5. QED
    BY <2>1, <2>2, <2>3, <2>4
<1>5. frozen' = frozen /\ prof' = prof /\ frozen.ids \in IdsType /\ ProfileType(prof)
  BY DEF IInv, TypeInv, ProfilesType
<1>6. ProfileType(prof')
  BY <1>5
<1>7. QED
  BY <1>4, <1>5, <1>6 DEF ProfilesType

(* A trap that ends: the loader has exited, and the layer may be recorded. *)
LEMMA TrapEnds ==
  ASSUME IInv, NEW l \in Labels, trap.label = l, trap' = NoTrap, pc' = 0 \/ pc' = pc + 1,
         LoaderType(ld'), ld'.kind = ld.kind, ld'.ids = ld.ids, ld'.load = ld.load,
         IF ld.kind \in Held THEN CopiesHeld(ld', NoTrap, hist.leaked, OnGpu) ELSE ld'.bound = {},
         ld.kind = "strategy" => Covered(ld', hist'.dropped),
         HistType', hist'.lost = hist.lost, hist'.leaked = hist.leaked, hist'.faults >= hist.faults,
         running' \subseteq running, ProfilesType',
         setup.mode = "view" /\ phase = "profile" => coll'.ids = coll.ids,
         UNCHANGED <<setup, phase, data, managed, observed, passes, frozen, prof, pins, place, adoption>>
  PROVE  IInv'
<1>1. pc = l /\ pc # 0 /\ trap'.label = 0 /\ trap'.todo = {}
  BY LayersFacts, NoTrapTyped DEF IInv, TrapInv
<1>2. phase \in {"warmup", "profile", "infer"} /\ passes < MaxForwards
  BY <1>1 DEF IInv, TrapInv
<1>3. Frame
  BY DEF Frame
<1>4. pc' \in 0..(Layers + 1)
  BY <1>1, LayersFacts
<1>5. ForwardType'
  BY <1>4, NoTrapTyped DEF IInv, TypeInv, ForwardType
<1>6. TrapInv'
  BY <1>1, <1>2 DEF TrapInv
<1>7. OnGpu' = OnGpu
  BY DEF OnGpu
<1>8. CopyInv' /\ CoverInv'
  BY <1>7 DEF CopyInv, CoverInv
<1>9. QED
  BY <1>1, <1>3, <1>5, <1>6, <1>8, FrameKeeps

LEMMA ExitTrapKeeps ==
  ASSUME IInv, ExitTrap
  PROVE  IInv'
<1>1. /\ trap.label # 0 /\ LoaderExit(trap.label) /\ coll' = Recorded(trap.label)
      /\ trap' = NoTrap /\ pc' = pc + 1
      /\ UNCHANGED <<setup, phase, data, managed, observed, passes, frozen, prof, pins, place, adoption>>
  BY DEF ExitTrap, modelVars, adoptionVars
<1>2. trap.label \in Labels
  BY <1>1 DEF IInv, TypeInv, ForwardType
<1>3. ProfilesType' /\ (setup.mode = "view" /\ phase = "profile" => coll'.ids = coll.ids)
  BY <1>1, <1>2, RecordedFacts
<1>4. /\ LoaderType(ld') /\ ld'.kind = ld.kind /\ ld'.ids = ld.ids /\ ld'.load = ld.load
      /\ IF ld.kind \in Held THEN CopiesHeld(ld', NoTrap, hist.leaked, OnGpu) ELSE ld'.bound = {}
      /\ ld.kind = "strategy" => Covered(ld', hist'.dropped)
      /\ HistType' /\ hist'.lost = hist.lost /\ hist'.leaked = hist.leaked /\ hist'.faults >= hist.faults
      /\ running' \subseteq running
  BY <1>1, <1>2, LoaderExitFacts, NoTrapTyped
<1>5. QED
  BY <1>1, <1>2, <1>3, <1>4, TrapEnds

LEMMA BodyRaisesKeeps ==
  ASSUME IInv, BodyRaises
  PROVE  IInv'
<1>1. /\ trap.todo # {} /\ LoaderExit(trap.label) /\ coll' = Recorded(trap.label)
      /\ trap' = NoTrap /\ pc' = 0
      /\ UNCHANGED <<setup, phase, data, managed, observed, passes, frozen, prof, pins, place, adoption>>
  BY DEF BodyRaises, modelVars, adoptionVars
<1>2. trap.label \in Labels
  BY <1>1, ReadsInTrap
<1>3. ProfilesType' /\ (setup.mode = "view" /\ phase = "profile" => coll'.ids = coll.ids)
  BY <1>1, <1>2, RecordedFacts
<1>4. /\ LoaderType(ld') /\ ld'.kind = ld.kind /\ ld'.ids = ld.ids /\ ld'.load = ld.load
      /\ IF ld.kind \in Held THEN CopiesHeld(ld', NoTrap, hist.leaked, OnGpu) ELSE ld'.bound = {}
      /\ ld.kind = "strategy" => Covered(ld', hist'.dropped)
      /\ HistType' /\ hist'.lost = hist.lost /\ hist'.leaked = hist.leaked /\ hist'.faults >= hist.faults
      /\ running' \subseteq running
  BY <1>1, <1>2, LoaderExitFacts, NoTrapTyped
<1>5. QED
  BY <1>1, <1>2, <1>3, <1>4, TrapEnds

LEMMA TimingFailsKeeps ==
  ASSUME IInv, TimingFails
  PROVE  IInv'
<1> DEFINE l == trap.label
<1>1. /\ phase = "profile" /\ l # 0
      /\ ld' = (IF ld.kind = "layer" THEN LayerExit(ld, l) ELSE ld)
      /\ hist' = Fail(hist) /\ trap' = NoTrap /\ pc' = 0 /\ running' = running
      /\ UNCHANGED <<setup, phase, data, managed, observed, passes, coll, frozen, prof, pins, place, adoption>>
  BY DEF TimingFails, modelVars, profileVars, adoptionVars
<1>2. l \in Labels
  BY <1>1 DEF IInv, TypeInv, ForwardType
<1>3. LoaderType(ld) /\ HistType /\ hist.faults \in Nat
  BY DEF IInv, TypeInv, HistType
<1>4. HistType' /\ hist'.lost = hist.lost /\ hist'.leaked = hist.leaked /\ hist'.faults >= hist.faults
  BY <1>1, <1>3, FailFacts DEF HistType
<1>5. ProfilesType'
  BY <1>1, ProfilesSame
<1>6. ld.kind \in {"view", "layer"}
  BY <1>1 DEF IInv, PhaseInv
<1>7. /\ LoaderType(ld') /\ ld'.kind = ld.kind /\ ld'.ids = ld.ids /\ ld'.load = ld.load
      /\ IF ld.kind \in Held THEN CopiesHeld(ld', NoTrap, hist.leaked, OnGpu) ELSE ld'.bound = {}
  <2>1. CASE ld.kind = "layer"
    <3>1. ld' = LayerExit(ld, l) /\ CopiesHeld(ld, trap, hist.leaked, OnGpu)
      BY <1>1, <2>1 DEF IInv, CopyInv, Held
    <3>2. LoaderType(ld') /\ SameFrame(ld, ld')
      BY <1>2, <1>3, <3>1, LayerExitFacts
    <3>3. CopiesHeld(ld', NoTrap, hist.leaked, OnGpu)
      BY <1>2, <1>3, <3>1, CopiesExited, NoTrapTyped
    <3>4. QED
      BY <2>1, <3>2, <3>3 DEF SameFrame, Held
  <2>2. CASE ld.kind = "view"
    BY <1>1, <1>3, <2>2 DEF IInv, CopyInv, Held
  <2>3. QED
    BY <1>6, <2>1, <2>2
<1>8. QED
  BY <1>1, <1>2, <1>4, <1>5, <1>6, <1>7, TrapEnds

-----------------------------------------------------------------------------
(* The registries *)
LEMMA PinAllFacts ==
  ASSUME NEW p, PinsTyped(p), NEW S \in SUBSET Int
  PROVE  LET e == PinAll(p, S)
         IN  /\ PinsTyped(e) /\ e.mode = p.mode /\ e.lost = p.lost
             /\ Registries(p) /\ (\A s \in S : s >= -Layers) => Registries(e)
             /\ \A s : IsPinned(p, s) => IsPinned(e, s)
             /\ p.mode # "none" => \A s \in S : IsPinned(e, s)
<1> DEFINE e == PinAll(p, S)
           new == {s \in S : ~IsPinned(p, s)}
<1>1. new \in SUBSET Int
  OBVIOUS
<1>2. \A s \in S : IsPinned(p, s) \/ s \in new
  OBVIOUS
<1>3. /\ p.mode = "in_place" => e = [p EXCEPT !.main = p.main \cup new, !.driver = p.driver \cup new]
      /\ p.mode = "copy" => e = [p EXCEPT !.copied = p.copied \cup new]
      /\ p.mode = "none" => e = p
  BY DEF PinAll
<1>4. (\A s \in S : s >= -Layers) => \A s \in new : s >= -Layers
  OBVIOUS
<1> HIDE DEF e, new
<1>5. CASE p.mode = "in_place"
  <2>1. /\ PinsTyped(e) /\ e.mode = p.mode /\ e.lost = p.lost /\ e.view = p.view /\ e.copied = p.copied
        /\ e.main = p.main \cup new /\ e.driver = p.driver \cup new
    BY <1>1, <1>3, <1>5 DEF PinsTyped
  <2>2. Registries(p) /\ (\A s \in S : s >= -Layers) => Registries(e)
    BY <1>4, <2>1 DEF Registries, BlockName
  <2>3. QED
    BY <1>2, <2>1, <2>2 DEF e, IsPinned
<1>6. CASE p.mode = "copy"
  <2>1. /\ PinsTyped(e) /\ e.mode = p.mode /\ e.lost = p.lost /\ e.view = p.view
        /\ e.copied = p.copied \cup new /\ e.main = p.main /\ e.driver = p.driver
    BY <1>1, <1>3, <1>6 DEF PinsTyped
  <2>2. Registries(p) => Registries(e)
    BY <2>1 DEF Registries, BlockName
  <2>3. QED
    BY <1>2, <2>1, <2>2 DEF e, IsPinned
<1>7. CASE p.mode = "none"
  BY <1>3, <1>7 DEF e
<1>8. QED
  BY <1>5, <1>6, <1>7 DEF PinsTyped

LEMMA BlockNameFacts ==
  ASSUME NEW p, IsFiniteSet(p.lost)
  PROVE  BlockName(p) \in Int /\ BlockName(p) < -Layers
  BY LayersFacts, FS_CardinalityType DEF BlockName

LEMMA PinViewFacts ==
  ASSUME NEW p, PinsTyped(p), Registries(p)
  PROVE  LET e == PinViewBlock(p, BlockName(p))
         IN  /\ PinsTyped(e) /\ Registries(e) /\ e.mode = p.mode /\ e.lost = p.lost
             /\ \A s : IsPinned(p, s) => IsPinned(e, s)
<1> DEFINE b == BlockName(p)
           e == PinViewBlock(p, b)
<1>1. b \in Int
  BY BlockNameFacts DEF Registries
<1>2. e = p \/ e = [p EXCEPT !.view = p.view \cup {b}, !.driver = p.driver \cup {b}]
  BY DEF PinViewBlock
<1>3. CASE e = p
  BY <1>3
<1>4. CASE e = [p EXCEPT !.view = p.view \cup {b}, !.driver = p.driver \cup {b}]
  <2> HIDE DEF e, b
  <2>1. /\ PinsTyped(e) /\ e.mode = p.mode /\ e.lost = p.lost /\ e.main = p.main
        /\ e.view = p.view \cup {b} /\ e.driver = p.driver \cup {b} /\ e.copied = p.copied
    BY <1>1, <1>4 DEF PinsTyped
  <2>2. BlockName(e) = BlockName(p) /\ BlockName(p) = b
    BY <2>1 DEF BlockName, b
  <2>3. Registries(e)
    BY <2>1, <2>2 DEF Registries
  <2>4. QED
    BY <2>1, <2>3 DEF e, b, IsPinned
<1>5. QED
  BY <1>2, <1>3, <1>4

(* A view block that could not be unregistered is lost, and the next has another name. *)
LEMMA ReleaseViewFacts ==
  ASSUME NEW p, PinsTyped(p), Registries(p), NEW stuck
  PROVE  LET e == ReleaseView(p, stuck)
         IN  /\ PinsTyped(e) /\ Registries(e) /\ e.mode = p.mode /\ e.view = {} /\ e.main = p.main
             /\ e.lost = p.lost \cup (p.view \cap stuck)
             /\ \A s : IsPinned(p, s) /\ s # BlockName(p) => IsPinned(e, s)
<1> DEFINE b == BlockName(p)
           e == ReleaseView(p, stuck)
           gone == p.view \cap stuck
<1>1. b \in Int /\ b < -Layers /\ Layers \in Nat /\ Cardinality(p.lost) \in Nat /\ IsFiniteSet(p.lost)
  BY BlockNameFacts, LayersFacts, FS_CardinalityType DEF Registries
<1>2. e = [p EXCEPT !.view = {}, !.driver = p.driver \ (p.view \ stuck), !.lost = p.lost \cup gone]
  BY DEF ReleaseView
<1>3. gone = {} \/ gone = {b}
  BY DEF Registries
<1>4. gone \subseteq Int
  BY DEF PinsTyped
<1> HIDE DEF e, gone
<1>5. /\ PinsTyped(e) /\ e.mode = p.mode /\ e.main = p.main /\ e.view = {} /\ e.copied = p.copied
      /\ e.driver = p.driver \ (p.view \ stuck) /\ e.lost = p.lost \cup gone
  BY <1>2, <1>4 DEF PinsTyped
<1>6. b \notin p.lost /\ b \notin p.main
  BY <1>1 DEF Registries
<1>7. e.driver = e.main \cup e.view \cup e.lost
  BY <1>5, <1>6 DEF Registries, gone
<1>8. IsFiniteSet(e.lost) /\ BlockName(e) <= b /\ (gone # {} => BlockName(e) < b)
  <2>1. CASE gone = {}
    BY <1>1, <1>5, <2>1 DEF BlockName
  <2>2. CASE gone = {b}
    <3> DEFINE lost == p.lost
    <3>1. e.lost = lost \cup {b} /\ IsFiniteSet(lost) /\ b \notin lost
      BY <1>1, <1>5, <1>6, <2>2
    <3> HIDE DEF lost, b
    <3>2. IsFiniteSet(lost \cup {b}) /\ Cardinality(lost \cup {b}) = Cardinality(lost) + 1
      BY <3>1, FS_AddElement
    <3>3. IsFiniteSet(e.lost) /\ Cardinality(e.lost) = Cardinality(p.lost) + 1
      BY <3>1, <3>2 DEF lost
    <3>4. QED
      BY <1>1, <3>3 DEF BlockName, b
  <2>3. QED
    BY <1>3, <2>1, <2>2
<1>9. BlockName(e) \in Int
  BY <1>8, BlockNameFacts
<1>10. \A s \in e.lost : BlockName(e) < s /\ s < -Layers
  <2>1. ASSUME NEW s \in e.lost
        PROVE  BlockName(e) < s /\ s < -Layers
    <3>1. CASE s \in p.lost
      <4>1. b < s /\ s < -Layers /\ s \in Int
        BY <3>1 DEF Registries, PinsTyped
      <4>2. QED
        BY <1>1, <1>8, <1>9, <4>1
    <3>2. CASE s \in gone
      BY <1>1, <1>3, <1>8, <3>2
    <3>3. QED
      BY <1>5, <3>1, <3>2
  <2>2. QED
    BY <2>1
<1>11. Registries(e)
  BY <1>5, <1>7, <1>8, <1>10 DEF Registries
<1>12. \A s : IsPinned(p, s) /\ s # b => IsPinned(e, s)
  BY <1>5 DEF IsPinned, Registries
<1>13. QED
  BY <1>5, <1>11, <1>12 DEF e, gone

LEMMA ReleaseAllFacts ==
  ASSUME NEW p, PinsTyped(p), Registries(p), NEW stuck
  PROVE  LET e == ReleaseAll(p, stuck)
         IN  /\ PinsTyped(e) /\ Registries(e) /\ e.mode = p.mode /\ e.lost = p.lost
             /\ e.main = p.main \cap stuck /\ e.view = p.view
<1> DEFINE e == ReleaseAll(p, stuck)
<1>1. e = [p EXCEPT !.main = p.main \cap stuck, !.driver = p.driver \ (p.main \ stuck)]
  BY DEF ReleaseAll
<1> HIDE DEF e
<1>2. /\ PinsTyped(e) /\ e.mode = p.mode /\ e.lost = p.lost /\ e.view = p.view
      /\ e.main = p.main \cap stuck /\ e.driver = p.driver \ (p.main \ stuck)
  BY <1>1 DEF PinsTyped
<1>3. BlockName(p) \in Int /\ BlockName(p) < -Layers /\ -Layers \in Int
  BY BlockNameFacts, LayersFacts DEF Registries
<1>4. \A s \in p.main : s \notin p.lost /\ s # BlockName(p)
  BY <1>3 DEF Registries, PinsTyped
<1>5. BlockName(e) = BlockName(p)
  BY <1>2 DEF BlockName
<1>6. e.driver = e.main \cup e.view \cup e.lost
  BY <1>2, <1>4 DEF Registries
<1>7. Registries(e)
  BY <1>2, <1>5, <1>6 DEF Registries
<1>8. QED
  BY <1>2, <1>7 DEF e

-----------------------------------------------------------------------------
(* Phases: between two forwards no trap is open *)
LEMMA AtRest ==
  ASSUME IInv, pc = 0, UNCHANGED <<trap, pc>>, passes' \in 0..MaxForwards, running' \subseteq running
  PROVE  ForwardType' /\ TrapInv' /\ trap'.label = 0
<1>1. trap = NoTrap /\ trap.label = 0 /\ trap.todo = {}
  BY TrapClosed
<1>2. ForwardType'
  BY DEF IInv, TypeInv, ForwardType
<1>3. QED
  BY <1>1, <1>2 DEF TrapInv

LEMMA Passes ==
  ASSUME IInv
  PROVE  passes \in 0..MaxForwards /\ 0 \in 0..MaxForwards
  BY BoundsAssumption DEF IInv, TypeInv, ForwardType

LEMMA FreshCopies ==
  ASSUME NEW d, d.map = {}, d.bound = {}, d.count = [t \in Tensors |-> 0], NEW G,
         d.kind = "layer" => d.refs \subseteq G, NEW tr, tr.label = 0, NEW leaked
  PROVE  CopiesHeld(d, tr, leaked, G)
  BY DEF CopiesHeld

(* Before there is a model to speak of. *)
LEMMA NewFacts ==
  ASSUME IInv, phase = "new"
  PROVE  /\ pc = 0 /\ managed = {} /\ observed = {} /\ ~frozen.known /\ AllIds(frozen.ids) = {}
         /\ prof = NoProfile /\ setup.profile = NoProfile /\ ld.kind = "none" /\ ld.bound = {}
         /\ data \in [Tensors -> {"host", "gpu", "slot", "blank"}] /\ \A t \in Tensors : data[t] = "host"
<1>1. pc = 0
  BY DEF IInv, TrapInv
<1>2. managed = {} /\ observed = {} /\ ~frozen.known /\ AllIds(frozen.ids) = {}
  BY DEF IInv, ObservedInv, IdsInv
<1>3. prof = NoProfile /\ setup.profile = NoProfile /\ ld.kind = "none"
  BY DEF IInv, PhaseInv
<1>4. ld.bound = {}
  BY <1>3 DEF IInv, CopyInv, Held
<1>5. data \in [Tensors -> {"host", "gpu", "slot", "blank"}] /\ \A t \in Tensors : data[t] = "host"
  BY DEF IInv, TypeInv, ModelType, DataInv, Host
<1>6. QED
  BY <1>1, <1>2, <1>3, <1>4, <1>5

LEMMA InitializeWarmupKeeps ==
  ASSUME IInv, InitializeWarmup
  PROVE  IInv'
<1> DEFINE owned == [l \in Labels |-> setup.own[l] \cap managed']
<1>1. /\ phase = "new" /\ phase' = "warmup"
      /\ pins' = (IF ~setup.blocks /\ setup.pinned THEN PinAll(pins, Tensors) ELSE pins)
      /\ data' = Change(data, setup.excluded, "gpu") /\ managed' = Tensors \ setup.excluded
      /\ ld' = (IF setup.mode = "torch_function" THEN NoLoader ELSE Loader("warmup", owned))
      /\ UNCHANGED <<setup, observed, trap, pc, passes, running, frozen, prof, hist, place, adoption>>
  BY DEF InitializeWarmup, NonOffloaded, ShouldPinInPreprocess, forwardVars, adoptionVars
<1>2. /\ pc = 0 /\ managed = {} /\ observed = {} /\ ~frozen.known /\ AllIds(frozen.ids) = {}
      /\ prof = NoProfile /\ setup.profile = NoProfile /\ ld.kind = "none" /\ ld.bound = {}
      /\ data \in [Tensors -> {"host", "gpu", "slot", "blank"}] /\ \A t \in Tensors : data[t] = "host"
  BY <1>1, NewFacts
<1>3. setup \in Setups /\ setup.own \in IdsType /\ setup.excluded \subseteq Tensors
  BY SetupFacts DEF IInv, TypeInv, ModelType
<1>4. owned \in IdsType /\ AllIds(owned) \subseteq managed' /\ managed' \subseteq Tensors
  BY <1>1, <1>3 DEF IdsType, AllIds
<1>5. ForwardType' /\ TrapInv' /\ trap'.label = 0
  BY <1>1, <1>2, AtRest, Passes
<1>6. ProfilesType'
  <2>1. coll \in [seen : {coll.seen}, ids : IdsType, timed : {coll.timed}]
    BY DEF IInv, TypeInv, ProfilesType
  <2> DEFINE seen == Kept(InOrder, {l \in Labels : setup.own[l] \cap managed' # {}})
  <2>2. coll' = coll \/ coll' = [coll EXCEPT !.seen = seen, !.ids = owned]
    BY DEF InitializeWarmup
  <2> HIDE DEF seen, owned
  <2>3. coll' \in [seen : {coll'.seen}, ids : IdsType, timed : {coll'.timed}]
    BY <1>4, <2>1, <2>2
  <2>4. ProfileType(prof')
    BY <1>1 DEF IInv, TypeInv, ProfilesType
  <2>5. QED
    BY <1>1, <2>3, <2>4 DEF IInv, TypeInv, ProfilesType
<1> HIDE DEF owned
<1>7. HistType' /\ hist.lost \subseteq Tensors
  BY <1>1 DEF IInv, TypeInv, HistType
<1>8. /\ LoaderType(ld') /\ ld'.kind = (IF setup.mode = "torch_function" THEN "none" ELSE "warmup")
      /\ ld'.map = {} /\ ld'.bound = {}
      /\ ld'.kind = "warmup" => ld'.ids = owned /\ ld'.count = [t \in Tensors |-> 0]
  BY <1>1, <1>4, NoLoaderFacts, LoaderFacts DEF Kinds
<1>9. /\ data' \in [Tensors -> {"host", "gpu", "slot", "blank"}]
      /\ \A t \in Tensors : data'[t] = IF t \in setup.excluded THEN "gpu" ELSE "host"
  BY <1>1, <1>2, <1>3 DEF Change
<1>10. ModelType'
  BY <1>1, <1>2, <1>3, <1>4, <1>9 DEF ModelType, Phases
<1>11. /\ PinsType' /\ pins'.mode = pins.mode /\ pins'.lost = pins.lost /\ Registries(pins')
       /\ pins.mode # "none" /\ ~setup.blocks => \A t \in Tensors : IsPinned(pins', t)
  <2>1. PinsTyped(pins) /\ Registries(pins) /\ (pins.mode # "none" => setup.pinned)
    BY DEF IInv, TypeInv, PinsType, PinInv, ModeInv, Pinning
  <2>2. Tensors \in SUBSET Int /\ \A t \in Tensors : t >= -Layers
    BY TensorsAssumption, LayersFacts
  <2>3. CASE ~setup.blocks /\ setup.pinned
    BY <1>1, <2>1, <2>2, <2>3, PinAllFacts DEF PinsType
  <2>4. CASE ~(~setup.blocks /\ setup.pinned)
    BY <1>1, <2>1, <2>4 DEF PinsType
  <2>5. QED
    BY <2>3, <2>4
<1>12. PhaseInv'
  BY <1>1, <1>2, <1>8 DEF PhaseInv
<1>13. CopyInv' /\ CoverInv'
  BY <1>5, <1>8, FreshCopies DEF CopyInv, CoverInv, Held
<1>14. DataInv'
  BY <1>1, <1>2, <1>8, <1>9 DEF DataInv, Host
<1>15. ObservedInv'
  BY <1>1, <1>2 DEF ObservedInv
<1>16. IdsInv'
  <2>1. AllIds(frozen.ids)' = AllIds(frozen.ids)
    BY <1>1 DEF AllIds
  <2>2. ld'.kind \in {"warmup", "layer", "view"} => AllIds(ld'.ids) \subseteq managed'
    BY <1>4, <1>8
  <2>3. ~FrozenFits'
    BY <1>1, <1>2 DEF FrozenFits
  <2>4. (AllIds(frozen.ids) \subseteq managed)'
    BY <1>2, <2>1
  <2>5. (ld.kind \in {"warmup", "layer", "view"} => AllIds(ld.ids) \subseteq managed)'
    BY <2>2 DEF AllIds
  <2>6. QED
    BY <1>8, <2>3, <2>4, <2>5 DEF IdsInv
<1>17. PinInv'
  BY <1>1, <1>11 DEF IInv, PinInv
<1>18. PlaceInv'
  BY <1>1 DEF IInv, PlaceInv
<1>19. PinnedInv' /\ ModeInv'
  BY <1>1, <1>2, <1>8, <1>11 DEF IInv, PinnedInv, ModeInv, Pinning
<1>20. QED
  BY <1>5, <1>6, <1>7, <1>8, <1>10, <1>11, <1>12, <1>13, <1>14, <1>15, <1>16, <1>17, <1>18, <1>19
     DEF IInv, TypeInv

LEMMA PreprocessFailsKeeps ==
  ASSUME IInv, PreprocessFails
  PROVE  IInv'
<1>1. PICK t \in Tensors : pins' = PinAll(pins, {s \in Tensors : s < t})
  BY DEF PreprocessFails
<1>2. /\ phase = "new" /\ phase' = phase /\ hist' = Fail(hist)
      /\ UNCHANGED <<setup, data, managed, observed, trap, pc, passes, running, coll, frozen, prof, ld,
                     place, adoption>>
  BY DEF PreprocessFails, modelVars, forwardVars, profileVars, adoptionVars
<1>3. /\ pc = 0 /\ prof = NoProfile /\ setup.profile = NoProfile /\ ld.kind = "none" /\ ld.bound = {}
  BY <1>2, NewFacts
<1>4. ForwardType' /\ TrapInv'
  BY <1>2, <1>3, AtRest, Passes
<1>5. HistType' /\ hist'.faults # 0 /\ hist'.lost = hist.lost /\ hist'.leaked = hist.leaked
  <2>1. HistType /\ hist.faults \in Nat
    BY DEF IInv, TypeInv, HistType
  <2>2. QED
    BY <1>2, <2>1, FailFacts DEF HistType
<1>6. ProfilesType'
  BY <1>2, ProfilesSame
<1>7. /\ PinsType' /\ pins'.mode = pins.mode /\ Registries(pins')
  <2>1. PinsTyped(pins) /\ Registries(pins)
    BY DEF IInv, TypeInv, PinsType, PinInv
  <2> DEFINE S == {s \in Tensors : s < t}
  <2>2. S \in SUBSET Int /\ \A s \in S : s >= -Layers
    <3>1. S \subseteq Nat
      BY TensorsAssumption
    <3>2. QED
      BY <3>1, LayersFacts
  <2> HIDE DEF S
  <2>3. pins' = PinAll(pins, S)
    BY <1>1 DEF S
  <2>4. QED
    BY <2>1, <2>2, <2>3, PinAllFacts DEF PinsType
<1>8. LoaderType(ld') /\ ModelType'
  BY <1>2 DEF IInv, TypeInv, ModelType
<1>9. PhaseInv' /\ ObservedInv' /\ PlaceInv'
  BY <1>2 DEF IInv, PhaseInv, ObservedInv, PlaceInv
<1>10. CopyInv' /\ CoverInv'
  BY <1>2, <1>3 DEF CopyInv, CoverInv, Held
<1>11. DataInv'
  <2>1. AllIds(ld.ids)' = AllIds(ld.ids) /\ AllIds(prof.load)' = AllIds(prof.load)
    BY <1>2 DEF AllIds
  <2>2. QED
    BY <1>2, <1>5, <2>1 DEF IInv, DataInv, Host
<1>12. IdsInv'
  BY <1>2 DEF IInv, IdsInv, FrozenFits, Discovered, AllIds
<1>13. PinInv'
  BY <1>2, <1>5, <1>7 DEF PinInv
<1>14. PinnedInv' /\ ModeInv'
  BY <1>2, <1>3, <1>7 DEF IInv, PinnedInv, ModeInv, Pinning
<1>15. QED
  BY <1>4, <1>5, <1>6, <1>7, <1>8, <1>9, <1>10, <1>11, <1>12, <1>13, <1>14 DEF IInv, TypeInv

(* At the end of discovery. *)
LEMMA ProfileReady ==
  ASSUME IInv, CanProfile
  PROVE  /\ phase = "warmup" /\ pc = 0 /\ prof = NoProfile /\ setup.profile = NoProfile
         /\ ld.kind \in {"none", "warmup"} /\ managed \subseteq Tensors /\ observed \subseteq managed
         /\ ProfileIds \in IdsType /\ AllIds(ProfileIds) \subseteq managed
         /\ data \in [Tensors -> {"host", "gpu", "slot", "blank"}]
         /\ \A t \in Tensors : data[t] # "slot" /\ (data[t] = "blank" => t \in hist.lost)
         /\ \A t \in Tensors \ managed : data[t] = "gpu"
         /\ setup.mode = "view" => observed = {}
         /\ setup.mode = "view" /\ FitsBudget(ProfileIds, setup.size, setup.budget) => ProfileIds = Discovered
<1>1. phase = "warmup" /\ pc = 0
  BY DEF CanProfile
<1>2. prof = NoProfile /\ setup.profile = NoProfile /\ ld.kind \in {"none", "warmup"}
  BY <1>1 DEF IInv, PhaseInv
<1>3. ProfileIds \in IdsType /\ AllIds(ProfileIds) \subseteq managed /\ (~frozen.known => ProfileIds = Discovered)
  BY ProfileIdsFacts
<1>4. managed \subseteq Tensors /\ observed \subseteq managed /\ data \in [Tensors -> {"host", "gpu", "slot", "blank"}]
  BY DEF IInv, TypeInv, ModelType
<1>5. /\ \A t \in Tensors : data[t] # "slot" /\ (data[t] = "blank" => t \in hist.lost)
      /\ \A t \in Tensors \ managed : data[t] = "gpu"
  BY <1>1, <1>2 DEF IInv, DataInv
<1>6. setup.mode = "view" => observed = {}
  BY <1>1 DEF IInv, ObservedInv
<1>7. setup.mode = "view" /\ FitsBudget(ProfileIds, setup.size, setup.budget) /\ frozen.known => ProfileIds = Discovered
  BY <1>1 DEF IInv, IdsInv, FrozenFits, ProfileIds
<1>8. QED
  BY <1>1, <1>2, <1>3, <1>4, <1>5, <1>6, <1>7

LEMMA FrozenFacts == Frozen.known = TRUE /\ Frozen.ids = ProfileIds
  BY DEF Frozen

LEMMA FrozenProfilesTyped ==
  ASSUME IInv, CanProfile, frozen' = Frozen, UNCHANGED <<coll, prof>>
  PROVE  ProfilesType'
<1>1. frozen'.ids \in IdsType
  BY ProfileReady, FrozenFacts
<1>2. ProfileType(prof)' /\ coll \in [seen : {coll.seen}, ids : IdsType, timed : {coll.timed}]
  BY DEF IInv, TypeInv, ProfilesType, ProfileType, IdsOf
<1>3. QED
  BY <1>1, <1>2 DEF ProfilesType

LEMMA PinsOfTensors ==
  ASSUME IInv
  PROVE  /\ PinsTyped(pins) /\ Registries(pins) /\ ViewBlock = BlockName(pins)
         /\ \A t \in Tensors : t # BlockName(pins)
<1>1. PinsTyped(pins) /\ Registries(pins)
  BY DEF IInv, TypeInv, PinsType, PinInv
<1>2. BlockName(pins) \in Int /\ BlockName(pins) < -Layers
  BY <1>1, BlockNameFacts DEF Registries
<1>3. \A t \in Tensors : t # BlockName(pins)
  BY <1>2, LayersFacts, TensorsAssumption
<1>4. QED
  BY <1>1, <1>3 DEF ViewBlock, BlockName

LEMMA InitializeProfileKeeps ==
  ASSUME IInv, InitializeProfile
  PROVE  IInv'
<1>1. /\ CanProfile /\ frozen' = Frozen /\ phase' = "profile" /\ passes' = 0
      /\ UNCHANGED <<setup, managed, observed, trap, pc, running, coll, prof, hist, place, adoption>>
  BY DEF InitializeProfile, adoptionVars
<1>2. /\ phase = "warmup" /\ pc = 0 /\ prof = NoProfile /\ setup.profile = NoProfile
      /\ ld.kind \in {"none", "warmup"} /\ managed \subseteq Tensors /\ observed \subseteq managed
      /\ ProfileIds \in IdsType /\ AllIds(ProfileIds) \subseteq managed
      /\ data \in [Tensors -> {"host", "gpu", "slot", "blank"}]
      /\ \A t \in Tensors : data[t] # "slot" /\ (data[t] = "blank" => t \in hist.lost)
      /\ \A t \in Tensors \ managed : data[t] = "gpu"
      /\ setup.mode = "view" => observed = {}
      /\ setup.mode = "view" /\ FitsBudget(ProfileIds, setup.size, setup.budget) => ProfileIds = Discovered
  BY <1>1, ProfileReady
<1>3. ForwardType' /\ TrapInv' /\ trap'.label = 0
  BY <1>1, <1>2, AtRest, Passes
<1>4. ProfilesType' /\ frozen'.known = TRUE /\ frozen'.ids = ProfileIds
  BY <1>1, FrozenProfilesTyped, FrozenFacts
<1>5. HistType' /\ PlaceInv'
  BY <1>1 DEF IInv, TypeInv, HistType, PlaceInv
<1>6. AllIds(frozen'.ids) \subseteq managed' /\ Discovered' = Discovered
  BY <1>1, <1>2, <1>4 DEF Discovered
<1>7. CASE setup.mode # "view"
  <2>1. ld' = LayerLoader(ProfileIds, managed, OnGpu) /\ UNCHANGED <<data, pins>>
    BY <1>7 DEF InitializeProfile
  <2>2. /\ LoaderType(ld') /\ ld'.kind = "layer" /\ ld'.ids = ProfileIds
        /\ ld'.map = {} /\ ld'.bound = {} /\ ld'.count = [t \in Tensors |-> 0]
        /\ ld'.refs \subseteq OnGpu
    <3> DEFINE ids == ProfileIds
               G == OnGpu
    <3>1. ids \in IdsType /\ managed \in SUBSET Tensors /\ ld' = LayerLoader(ids, managed, G)
      BY <1>2, <2>1
    <3> HIDE DEF ids, G
    <3>2. BuiltForLayers(ld', ids, G)
      BY <3>1, LayerLoaderFacts
    <3>3. QED
      BY <3>2 DEF BuiltForLayers, ids, G
  <2>3. ModelType' /\ PinsType'
    BY <1>1, <2>1 DEF IInv, TypeInv, ModelType, Phases, PinsType
  <2>4. PhaseInv'
    BY <1>1, <1>2, <1>7, <2>2 DEF PhaseInv
  <2>5. CopyInv' /\ CoverInv'
    <3>1. CopiesHeld(ld', trap', hist'.leaked, OnGpu)
      BY <1>3, <2>2, FreshCopies
    <3>2. OnGpu' = OnGpu
      BY <2>1 DEF OnGpu
    <3>3. QED
      BY <2>2, <3>1, <3>2 DEF CopyInv, CoverInv, Held
  <2>6. DataInv'
    <3>1. \A t \in managed \ observed : data[t] = "host"
      BY <1>2, <1>7 DEF IInv, DataInv, Host
    <3>2. QED
      BY <1>1, <1>2, <2>1, <2>2, <3>1 DEF DataInv, Host
  <2>7. ObservedInv'
    BY <1>1, <1>7, <2>1, <2>2 DEF IInv, ObservedInv
  <2>8. IdsInv'
    <3>1. (AllIds(frozen.ids) \subseteq managed)' /\ (AllIds(ld.ids) \subseteq managed)'
      BY <1>1, <1>2, <1>4, <2>2 DEF AllIds
    <3>2. QED
      BY <1>1, <1>7, <2>2, <3>1 DEF IdsInv
  <2>9. PinInv' /\ PinnedInv' /\ ModeInv'
    BY <1>1, <1>2, <2>1, <2>2 DEF IInv, PinInv, PinnedInv, ModeInv, Pinning
  <2>10. QED
    BY <1>3, <1>4, <1>5, <2>2, <2>3, <2>4, <2>5, <2>6, <2>7, <2>8, <2>9 DEF IInv, TypeInv
<1>8. CASE setup.mode = "view"
  <2>1. /\ FitsBudget(ProfileIds, setup.size, setup.budget)
        /\ ld' = Loader("view", ProfileIds)
        /\ data' = IntoViews(data, ProfileIds, managed) /\ pins' = PinViewBlock(pins, ViewBlock)
    BY <1>8 DEF InitializeProfile, ViewLoader
  <2>2. LoaderType(ld') /\ ld'.kind = "view" /\ ld'.ids = ProfileIds /\ ld'.bound = {}
    BY <1>2, <2>1, LoaderFacts DEF Kinds
  <2>3. AllIds(ProfileIds) \subseteq Tensors
    BY <1>2
  <2>4. /\ data' \in [Tensors -> {"host", "gpu", "slot", "blank"}]
        /\ \A t \in Tensors : data'[t] = IF t \in AllIds(ProfileIds) THEN "slot" ELSE "gpu"
    BY <1>2, <2>1 DEF IntoViews, Change
  <2>5. ModelType'
    BY <1>1, <2>4 DEF IInv, TypeInv, ModelType, Phases
  <2>6. /\ PinsType' /\ Registries(pins') /\ pins'.mode = pins.mode /\ pins'.lost = pins.lost
        /\ \A s : IsPinned(pins, s) => IsPinned(pins', s)
    BY <2>1, PinsOfTensors, PinViewFacts DEF PinsType
  <2>7. PhaseInv'
    BY <1>1, <1>2, <1>8, <2>2 DEF PhaseInv
  <2>8. CopyInv' /\ CoverInv'
    BY <2>2 DEF CopyInv, CoverInv, Held
  <2>9. (AllIds(frozen.ids) \subseteq managed)' /\ (AllIds(ld.ids) \subseteq managed)'
        /\ AllIds(ld.ids)' = AllIds(ProfileIds)
    BY <1>1, <1>2, <1>4, <2>2 DEF AllIds
  <2>10. DataInv'
    BY <1>1, <1>2, <1>8, <2>2, <2>4, <2>9 DEF DataInv
  <2>11. ObservedInv'
    BY <1>1, <1>2, <1>8 DEF ObservedInv
  <2>12. IdsInv'
    <3>1. FrozenFits'
      BY <1>1, <1>4, <2>1 DEF FrozenFits
    <3>2. QED
      BY <1>1, <1>2, <1>3, <1>4, <1>6, <1>8, <2>1, <2>2, <2>9, <3>1 DEF IdsInv
  <2>13. PinInv' /\ PinnedInv' /\ ModeInv'
    BY <1>1, <1>2, <2>2, <2>6 DEF IInv, PinInv, PinnedInv, ModeInv, Pinning
  <2>14. QED
    BY <1>3, <1>4, <1>5, <2>2, <2>5, <2>6, <2>7, <2>8, <2>10, <2>11, <2>12, <2>13 DEF IInv, TypeInv
<1>9. QED
  BY <1>7, <1>8

LEMMA ProfileRefusedKeeps ==
  ASSUME IInv, ProfileRefused
  PROVE  IInv'
<1>1. /\ CanProfile /\ ~frozen.known /\ frozen' = Frozen
      /\ setup.mode = "view" => ~FitsBudget(ProfileIds, setup.size, setup.budget)
      /\ hist' = hist \/ hist' = Fail(hist)
      /\ UNCHANGED <<setup, data, managed, observed, phase, trap, pc, passes, running, coll, prof, ld, pins,
                     place, adoption>>
  BY DEF ProfileRefused, modelVars, forwardVars, adoptionVars
<1>2. /\ phase = "warmup" /\ pc = 0 /\ ld.kind \in {"none", "warmup"}
      /\ ProfileIds \in IdsType /\ AllIds(ProfileIds) \subseteq managed
  BY <1>1, ProfileReady
<1>3. ForwardType' /\ TrapInv' /\ trap'.label = 0
  BY <1>1, <1>2, AtRest, Passes
<1>4. ProfilesType' /\ frozen'.known = TRUE /\ frozen'.ids = ProfileIds
  BY <1>1, FrozenProfilesTyped, FrozenFacts
<1>5. HistType' /\ hist'.lost = hist.lost /\ hist'.leaked = hist.leaked /\ hist'.faults >= hist.faults
      /\ hist.faults \in Nat
  <2>1. HistType /\ hist.faults \in Nat
    BY DEF IInv, TypeInv, HistType
  <2>2. CASE hist' = hist
    BY <2>1, <2>2 DEF HistType
  <2>3. CASE hist' = Fail(hist)
    BY <2>1, <2>3, FailFacts DEF HistType
  <2>4. QED
    BY <1>1, <2>2, <2>3
<1>6. ModelType' /\ PinsType' /\ LoaderType(ld') /\ PlaceInv' /\ PhaseInv'
  BY <1>1 DEF IInv, TypeInv, ModelType, PinsType, PlaceInv, PhaseInv
<1>7. CopyInv' /\ CoverInv'
  <2>1. OnGpu' = OnGpu
    BY <1>1 DEF OnGpu
  <2>2. QED
    BY <1>1, <1>2, <1>5, <2>1 DEF IInv, CopyInv, CoverInv, Held
<1>8. DataInv'
  <2>1. AllIds(ld.ids)' = AllIds(ld.ids) /\ AllIds(prof.load)' = AllIds(prof.load)
    BY <1>1 DEF AllIds
  <2>2. QED
    BY <1>1, <1>5, <2>1 DEF IInv, DataInv, Host
<1>9. ObservedInv'
  BY <1>1, <1>2 DEF IInv, ObservedInv
<1>10. IdsInv'
  <2>1. ~(setup.mode = "view" /\ FrozenFits)'
    BY <1>1, <1>4 DEF FrozenFits
  <2>2. (AllIds(frozen.ids) \subseteq managed)' /\ AllIds(ld.ids)' = AllIds(ld.ids)
    BY <1>1, <1>2, <1>4 DEF AllIds
  <2>3. QED
    BY <1>1, <1>2, <2>1, <2>2 DEF IInv, IdsInv
<1>11. PinInv' /\ PinnedInv' /\ ModeInv'
  BY <1>1, <1>2, <1>5 DEF IInv, PinInv, PinnedInv, ModeInv, Pinning
<1>12. QED
  BY <1>3, <1>4, <1>5, <1>6, <1>7, <1>8, <1>9, <1>10, <1>11 DEF IInv, TypeInv

LEMMA ProfileSetupFailsKeeps ==
  ASSUME IInv, ProfileSetupFails
  PROVE  IInv'
<1>1. PICK failed \in {{}} \cup {{t} : t \in AllIds(ProfileIds)}, stuck \in SUBSET {ViewBlock}, moved \in BOOLEAN :
        /\ data' = RestoreOrBlank(IF moved THEN IntoViews(data, ProfileIds, managed) ELSE data,
                                  Home, ProfileIds, failed)
        /\ pins' = ReleaseView(PinViewBlock(pins, ViewBlock), stuck)
        /\ hist' = [Fail(hist) EXCEPT !.lost = @ \cup failed]
  BY DEF ProfileSetupFails
<1>2. /\ CanProfile /\ setup.mode = "view" /\ FitsBudget(ProfileIds, setup.size, setup.budget)
      /\ frozen' = Frozen /\ ld' = NoLoader
      /\ UNCHANGED <<setup, managed, observed, phase, trap, pc, passes, running, coll, prof, place, adoption>>
  BY DEF ProfileSetupFails, forwardVars, adoptionVars
<1>3. /\ phase = "warmup" /\ pc = 0 /\ prof = NoProfile /\ setup.profile = NoProfile
      /\ managed \subseteq Tensors /\ observed = {}
      /\ ProfileIds \in IdsType /\ AllIds(ProfileIds) \subseteq managed /\ ProfileIds = Discovered
      /\ data \in [Tensors -> {"host", "gpu", "slot", "blank"}]
      /\ \A t \in Tensors : data[t] # "slot" /\ (data[t] = "blank" => t \in hist.lost)
      /\ \A t \in Tensors \ managed : data[t] = "gpu"
  BY <1>2, ProfileReady
<1>4. ForwardType' /\ TrapInv' /\ trap'.label = 0
  BY <1>2, <1>3, AtRest, Passes
<1>5. ProfilesType' /\ frozen'.ids = ProfileIds
  BY <1>2, FrozenProfilesTyped, FrozenFacts
<1>6. failed \subseteq Tensors
  BY <1>3
<1>7. HistType' /\ hist'.lost = hist.lost \cup failed /\ hist'.faults # 0
  <2>1. HistType /\ hist.faults \in Nat
    BY DEF IInv, TypeInv, HistType
  <2>2. QED
    BY <1>1, <1>6, <2>1, FailFacts DEF HistType
<1>8. /\ LoaderType(ld') /\ ld'.kind = "none" /\ ld'.bound = {}
  BY <1>2, NoLoaderFacts
<1>9. /\ data' \in [Tensors -> {"host", "gpu", "slot", "blank"}]
      /\ \A t \in Tensors : data'[t] # "slot" /\ (data'[t] = "blank" => t \in hist'.lost)
      /\ \A t \in Tensors \ managed : data'[t] = "gpu"
  <2> DEFINE before == IF moved THEN IntoViews(data, ProfileIds, managed) ELSE data
  <2>1. /\ \A t \in Tensors \ AllIds(ProfileIds) :
             before[t] = IF moved /\ t \in managed THEN "gpu" ELSE data[t]
    BY DEF IntoViews, Change
  <2>2. \A t \in Tensors : data'[t] = IF t \notin AllIds(ProfileIds) THEN before[t]
                                      ELSE IF t \in failed THEN "blank"
                                      ELSE IF t \in hist.lost THEN "blank" ELSE "host"
    BY <1>1 DEF RestoreOrBlank, Home
  <2>3. data' = [t \in Tensors |-> data'[t]]
    BY <1>1 DEF RestoreOrBlank
  <2> HIDE DEF before
  <2>4. ASSUME NEW t \in Tensors
        PROVE  /\ data'[t] \in {"host", "gpu", "blank"} /\ (data'[t] = "blank" => t \in hist'.lost)
               /\ t \notin managed => data'[t] = "gpu"
    BY <1>3, <1>7, <2>1, <2>2
  <2>5. QED
    BY <2>3, <2>4
<1>10. ModelType'
  BY <1>2, <1>9 DEF IInv, TypeInv, ModelType
<1>11. /\ PinsType' /\ Registries(pins') /\ pins'.mode = pins.mode
       /\ \A t \in Tensors : IsPinned(pins, t) => IsPinned(pins', t)
  <2> DEFINE p == PinViewBlock(pins, ViewBlock)
  <2>1. /\ PinsTyped(p) /\ Registries(p) /\ p.mode = pins.mode /\ p.lost = pins.lost
        /\ \A s : IsPinned(pins, s) => IsPinned(p, s)
    BY PinsOfTensors, PinViewFacts
  <2>2. BlockName(p) = BlockName(pins)
    BY <2>1 DEF BlockName
  <2>3. pins' = ReleaseView(p, stuck)
    BY <1>1
  <2> HIDE DEF p
  <2>4. QED
    BY <2>1, <2>2, <2>3, PinsOfTensors, ReleaseViewFacts DEF PinsType
<1>12. PhaseInv'
  BY <1>2, <1>3, <1>8 DEF IInv, PhaseInv
<1>13. CopyInv' /\ CoverInv'
  BY <1>8 DEF CopyInv, CoverInv, Held
<1>14. DataInv'
  BY <1>2, <1>3, <1>8, <1>9 DEF DataInv
<1>15. ObservedInv' /\ PlaceInv'
  BY <1>2, <1>3 DEF IInv, ObservedInv, PlaceInv
<1>16. IdsInv'
  <2>1. (AllIds(frozen.ids) \subseteq managed)'
    BY <1>2, <1>3, <1>5 DEF AllIds
  <2>2. Discovered' = Discovered
    BY <1>2 DEF Discovered
  <2>3. QED
    BY <1>2, <1>3, <1>5, <1>8, <2>1, <2>2 DEF IdsInv
<1>17. PinInv'
  BY <1>2, <1>3, <1>7, <1>11 DEF PinInv
<1>18. PinnedInv' /\ ModeInv'
  BY <1>2, <1>3, <1>8, <1>11 DEF IInv, PinnedInv, ModeInv, Pinning
<1>19. QED
  BY <1>4, <1>5, <1>7, <1>8, <1>10, <1>11, <1>12, <1>13, <1>14, <1>15, <1>16, <1>17, <1>18 DEF IInv, TypeInv

-----------------------------------------------------------------------------
(* Inference: the loader of a profile *)
LEMMA BuildFacts ==
  ASSUME NEW pr, ProfileType(pr), NEW d \in [Tensors -> {"host", "gpu", "slot", "blank"}],
         NEW p, PinsTyped(p), Registries(p), NEW m \in SUBSET Tensors, BuildLoader(pr, d, p, m)
  PROVE  /\ LoaderType(ld') /\ ld'.load = pr.load /\ ld'.bound = {}
         /\ PinsTyped(pins') /\ Registries(pins') /\ pins'.mode = p.mode /\ pins'.lost = p.lost
         /\ \A s : IsPinned(p, s) => IsPinned(pins', s)
         /\ pr.loader = "strategy" => ld'.kind = "strategy" /\ ld'.uncovered = {} /\ data' = d
         /\ pr.loader # "strategy" => ld'.kind = "blocks" /\ data' = IntoSlots(pr.load)
<1>1. pr.load \in IdsType /\ pr.release \in IdsType /\ IdsOf(pr) \in IdsType
  BY DEF ProfileType
<1>2. CASE pr.loader = "strategy"
  <2> DEFINE ids == IdsOf(pr)
             load == pr.load
             release == pr.release
             order == OrderOf(pr)
             G == {t \in Tensors : d[t] = "gpu"}
  <2>1. ids \in IdsType /\ load \in IdsType /\ release \in IdsType
    BY <1>1
  <2>2. ld' = StrategyLoader(order, ids, load, release, m, G) /\ data' = d /\ pins' = p
    BY <1>2 DEF BuildLoader
  <2> HIDE DEF ids, load, release, order, G
  <2>3. BuiltForStrategy(ld', ids, load)
    BY <2>1, <2>2, StrategyLoaderFacts
  <2>4. QED
    BY <1>2, <2>2, <2>3 DEF BuiltForStrategy, load
<1>3. CASE pr.loader # "strategy"
  <2> DEFINE ids == IdsOf(pr)
             load == pr.load
             B == HostBlocks(load)
  <2>1. ids \in IdsType /\ load \in IdsType
    BY <1>1
  <2>2. ld' = BlockLoader(ids, load) /\ data' = IntoSlots(pr.load) /\ pins' = PinAll(p, B)
    BY <1>3 DEF BuildLoader
  <2>3. B \in SUBSET Int /\ \A s \in B : s >= -Layers
    BY LayersFacts DEF HostBlocks, HostBlock
  <2> HIDE DEF ids, load, B
  <2>4. LoaderType(ld') /\ ld'.kind = "blocks" /\ ld'.load = load /\ ld'.bound = {}
    BY <2>1, <2>2, BlockLoaderFacts
  <2>5. /\ PinsTyped(pins') /\ Registries(pins') /\ pins'.mode = p.mode /\ pins'.lost = p.lost
        /\ \A s : IsPinned(p, s) => IsPinned(pins', s)
    BY <2>2, <2>3, PinAllFacts
  <2>6. QED
    BY <1>3, <2>2, <2>4, <2>5 DEF load
<1>4. QED
  BY <1>2, <1>3

(* d and p are the weights and the pins as the profile, or the adoption, leaves
   them. *)
LEMMA InferenceBegins ==
  ASSUME IInv, ProfileType(prof)', NEW d \in [Tensors -> {"host", "gpu", "slot", "blank"}],
         NEW p, PinsTyped(p), Registries(p), BuildLoader(prof', d, p, managed),
         phase' = "infer", pc = 0, passes' \in 0..MaxForwards,
         \A t \in Tensors : d[t] # "slot" /\ (d[t] = "blank" => t \in hist.lost),
         \A t \in Tensors \ managed : d[t] = "gpu", \A t \in observed : d[t] = "gpu",
         \A t \in AllIds(prof'.load) \ (hist.leaked \cup hist.lost) : d[t] = "host",
         AllIds(prof'.load) \subseteq managed \ observed,
         p.mode = pins.mode, hist'.faults = 0 => hist.faults = 0 /\ p.lost = {},
         \A t \in Tensors : IsPinned(pins, t) => IsPinned(p, t),
         \/ setup.profile = NoProfile /\ phase = "profile" /\ (prof'.loader = "strategy" => ~setup.blocks)
         \/ setup.profile # NoProfile /\ phase = "restored" /\ prof' = prof /\ p = pins,
         HistType', hist'.lost = hist.lost, hist'.leaked = hist.leaked,
         UNCHANGED <<setup, managed, observed, trap, pc, running, coll, frozen, place, adoption>>
  PROVE  IInv'
<1> DEFINE load == prof'.load
<1>1. ForwardType' /\ TrapInv' /\ trap'.label = 0
  BY AtRest
<1>2. managed \in SUBSET Tensors /\ observed \subseteq managed /\ setup \in Setups
  BY DEF IInv, TypeInv, ModelType
<1>3. /\ LoaderType(ld') /\ ld'.load = load /\ ld'.bound = {}
      /\ PinsTyped(pins') /\ Registries(pins') /\ pins'.mode = p.mode /\ pins'.lost = p.lost
      /\ \A s : IsPinned(p, s) => IsPinned(pins', s)
      /\ prof'.loader = "strategy" => ld'.kind = "strategy" /\ ld'.uncovered = {} /\ data' = d
      /\ prof'.loader # "strategy" => ld'.kind = "blocks" /\ data' = IntoSlots(load)
  <2> DEFINE pr == prof'
  <2>1. ProfileType(pr) /\ BuildLoader(pr, d, p, managed)
    BY DEF ProfileType, IdsOf
  <2> HIDE DEF pr
  <2>2. /\ LoaderType(ld') /\ ld'.load = pr.load /\ ld'.bound = {}
        /\ PinsTyped(pins') /\ Registries(pins') /\ pins'.mode = p.mode /\ pins'.lost = p.lost
        /\ \A s : IsPinned(p, s) => IsPinned(pins', s)
        /\ pr.loader = "strategy" => ld'.kind = "strategy" /\ ld'.uncovered = {} /\ data' = d
        /\ pr.loader # "strategy" => ld'.kind = "blocks" /\ data' = IntoSlots(pr.load)
    BY <1>2, <2>1, BuildFacts
  <2>3. QED
    BY <2>2 DEF pr
<1>4. AllIds(prof.load)' = AllIds(load)
  BY DEF AllIds
<1> HIDE DEF load
<1>5. load = prof'.load
  BY DEF load
<1>6. AllIds(load) \subseteq managed \ observed /\ \A t \in AllIds(load) \ (hist.leaked \cup hist.lost) : d[t] = "host"
  BY <1>5
<1>7. ld'.kind = "blocks" => \A t \in Tensors : data'[t] = IF t \in AllIds(load) THEN "slot" ELSE "gpu"
  BY <1>3 DEF IntoSlots
<1>8. ModelType'
  <2>1. data' \in [Tensors -> {"host", "gpu", "slot", "blank"}]
    BY <1>3 DEF IntoSlots
  <2>2. QED
    BY <1>2, <2>1 DEF ModelType, Phases
<1>9. ProfilesType'
  BY DEF IInv, TypeInv, ProfilesType
<1>10. PhaseInv'
  BY <1>3, <1>5 DEF IInv, PhaseInv
<1>11. CopyInv' /\ CoverInv'
  BY <1>3 DEF CopyInv, CoverInv, Covered, Held
<1>12. DataInv'
  <2>1. CASE ld'.kind = "strategy"
    <3>1. data' = d
      BY <1>3, <2>1
    <3>2. QED
      BY <1>2, <1>4, <1>6, <2>1, <3>1 DEF DataInv, Host
  <2>2. CASE ld'.kind = "blocks"
    BY <1>2, <1>4, <1>6, <1>7, <2>2 DEF DataInv, Host
  <2>3. QED
    BY <1>3, <2>1, <2>2
<1>13. ObservedInv'
  BY <1>2, <1>3, <1>6, <1>7 DEF ObservedInv
<1>14. IdsInv'
  <2>1. (AllIds(frozen.ids) \subseteq managed)'
    BY DEF IInv, IdsInv, AllIds
  <2>2. QED
    BY <1>1, <1>3, <2>1 DEF IdsInv
<1>15. PinInv'
  BY <1>3 DEF IInv, PinInv
<1>16. PlaceInv'
  BY DEF IInv, PlaceInv
<1>17. PinnedInv' /\ ModeInv'
  <2>1. ModeInv' /\ pins'.mode = pins.mode
    BY <1>3 DEF IInv, ModeInv, Pinning
  <2>2. CASE setup.profile = NoProfile
    BY <1>2, <1>3, <2>1, <2>2 DEF IInv, PinnedInv, Pinning
  <2>3. CASE setup.profile # NoProfile
    <3>1. AllIds(prof.load)' = AllIds(prof.load) /\ phase = "restored" /\ prof' = prof /\ p = pins
      BY <2>3 DEF AllIds
    <3>2. QED
      BY <1>3, <2>1, <2>3, <3>1 DEF IInv, PinnedInv, Pinning
  <2>4. QED
    BY <2>2, <2>3
<1>18. QED
  BY <1>1, <1>3, <1>8, <1>9, <1>10, <1>11, <1>12, <1>13, <1>14, <1>15, <1>16, <1>17
     DEF IInv, TypeInv, PinsType

(* What the profile leaves behind. *)
LEMMA ProfileLeaves ==
  ASSUME IInv, CanInfer, NEW failed \in SUBSET Tensors
  PROVE  LET d == AfterProfile(failed)
         IN  /\ d \in [Tensors -> {"host", "gpu", "slot", "blank"}]
             /\ \A t \in Tensors : d[t] # "slot" /\ (d[t] = "blank" => t \in hist.lost \cup failed)
             /\ \A t \in Tensors \ managed : d[t] = "gpu"
             /\ \A t \in observed : d[t] = "gpu"
             /\ \A t \in AllIds(StatIds) \ (hist.leaked \cup hist.lost \cup failed) : d[t] = "host"
<1> DEFINE v == ViewsBack(failed)
           d == AfterProfile(failed)
<1>1. /\ phase = "profile" /\ ld.kind = (IF setup.mode = "view" THEN "view" ELSE "layer")
      /\ trap.label = 0 /\ AllIds(ld.ids) \subseteq managed
      /\ data \in [Tensors -> {"host", "gpu", "slot", "blank"}] /\ managed \subseteq Tensors
      /\ observed \subseteq managed /\ ld.bound \subseteq Tensors
  BY TrapClosed DEF CanInfer, IInv, PhaseInv, IdsInv, TypeInv, ModelType, LoaderType
<1>2. AllIds(StatIds) \subseteq managed \ observed
  BY StatIdsFacts
<1>3. d = [t \in Tensors |-> IF t \in ld.bound THEN "gpu" ELSE v[t]]
  BY DEF AfterProfile, Change
<1>4. CASE setup.mode = "view"
  <2>1. ld.bound = {} /\ observed = {} /\ \A t \in Tensors : (data[t] = "slot" /\ t \in AllIds(ld.ids)) \/ data[t] = "gpu"
    BY <1>1, <1>4 DEF IInv, CopyInv, Held, ObservedInv, DataInv
  <2>2. AllIds(StatIds) \subseteq AllIds(ld.ids)
    <3>1. ld.ids = Discovered
      BY <1>1, <1>4 DEF IInv, IdsInv
    <3>2. \A l \in Labels : StatIds[l] \subseteq Discovered[l]
      BY <1>2, StatIdsFacts, IdsFacts DEF Discovered
    <3>3. QED
      BY <3>1, <3>2 DEF AllIds
  <2>3. v = [t \in Tensors |-> IF t \notin AllIds(ld.ids) THEN data[t] ELSE IF t \in failed THEN "blank"
                               ELSE IF t \in hist.lost THEN "blank" ELSE "host"]
    BY <1>1, <1>4 DEF ViewsBack, RestoreOrBlank, Home
  <2> HIDE DEF v, d
  <2>4. d \in [Tensors -> {"host", "gpu", "slot", "blank"}]
    BY <1>1, <1>3, <2>1, <2>3
  <2>5. \A t \in Tensors : d[t] = IF t \notin AllIds(ld.ids) THEN "gpu" ELSE IF t \in failed THEN "blank"
                                  ELSE IF t \in hist.lost THEN "blank" ELSE "host"
    BY <1>3, <2>1, <2>3
  <2>6. QED
    BY <1>1, <1>2, <2>1, <2>2, <2>4, <2>5 DEF d
<1>5. CASE setup.mode # "view"
  <2>1. v = data /\ ld.kind = "layer"
    BY <1>1, <1>5 DEF ViewsBack
  <2>2. \A t \in ld.bound : t \in hist.leaked
    BY <1>1, <2>1 DEF IInv, CopyInv, CopiesHeld, Held
  <2>3. /\ \A t \in Tensors : data[t] # "slot" /\ (data[t] = "blank" => t \in hist.lost)
        /\ \A t \in managed \ observed : data[t] = "host"
        /\ \A t \in Tensors \ managed : data[t] = "gpu"
        /\ \A t \in observed : data[t] = "gpu"
    BY <1>1, <1>5, <2>1 DEF IInv, DataInv, ObservedInv, Host
  <2> HIDE DEF v, d
  <2>4. d \in [Tensors -> {"host", "gpu", "slot", "blank"}]
        /\ \A t \in Tensors : d[t] = IF t \in ld.bound THEN "gpu" ELSE data[t]
    BY <1>1, <1>3, <2>1
  <2>5. QED
    BY <1>1, <1>2, <2>2, <2>3, <2>4 DEF d
<1>6. QED
  BY <1>4, <1>5

LEMMA CanInferFacts ==
  ASSUME IInv, CanInfer
  PROVE  /\ phase = "profile" /\ pc = 0 /\ setup.profile = NoProfile /\ prof = NoProfile
         /\ PinsTyped(pins) /\ Registries(pins) /\ \A t \in Tensors : t # BlockName(pins)
<1>1. phase = "profile" /\ pc = 0
  BY DEF CanInfer
<1>2. setup.profile = NoProfile /\ prof = NoProfile
  BY <1>1 DEF IInv, PhaseInv
<1>3. QED
  BY <1>1, <1>2, PinsOfTensors

LEMMA InitializeInferenceKeeps ==
  ASSUME IInv, InitializeInference
  PROVE  IInv'
<1>1. PICK stuck \in SUBSET pins.view :
        /\ hist' = IF stuck # {} THEN Fail(hist) ELSE hist
        /\ BuildLoader(prof', AfterProfile({}), ReleaseView(pins, stuck), managed)
  BY DEF InitializeInference
<1>2. /\ CanInfer /\ prof' = Profile(TimedLabels, StatIds) /\ phase' = "infer" /\ passes' = 0
      /\ UNCHANGED <<setup, managed, observed, trap, pc, running, coll, frozen, place, adoption>>
  BY DEF InitializeInference, adoptionVars
<1>3. /\ phase = "profile" /\ pc = 0 /\ setup.profile = NoProfile /\ prof = NoProfile
      /\ PinsTyped(pins) /\ Registries(pins) /\ \A t \in Tensors : t # BlockName(pins)
  BY <1>2, CanInferFacts
<1>4. HistType' /\ hist'.lost = hist.lost /\ hist'.leaked = hist.leaked
      /\ (hist'.faults = 0 => hist.faults = 0 /\ stuck = {})
  <2>1. HistType /\ hist.faults \in Nat
    BY DEF IInv, TypeInv, HistType
  <2>2. CASE stuck = {}
    BY <1>1, <2>1, <2>2 DEF HistType
  <2>3. CASE stuck # {}
    BY <1>1, <2>1, <2>3, FailFacts DEF HistType
  <2>4. QED
    BY <2>2, <2>3
<1> DEFINE d == AfterProfile({})
           p == ReleaseView(pins, stuck)
<1>5. /\ d \in [Tensors -> {"host", "gpu", "slot", "blank"}]
      /\ \A t \in Tensors : d[t] # "slot" /\ (d[t] = "blank" => t \in hist.lost)
      /\ \A t \in Tensors \ managed : d[t] = "gpu"
      /\ \A t \in observed : d[t] = "gpu"
      /\ \A t \in AllIds(StatIds) \ (hist.leaked \cup hist.lost) : d[t] = "host"
  <2> DEFINE none == {}
             e == AfterProfile(none)
  <2>1. none \in SUBSET Tensors
    OBVIOUS
  <2> HIDE DEF none
  <2>2. /\ e \in [Tensors -> {"host", "gpu", "slot", "blank"}]
        /\ \A t \in Tensors : e[t] # "slot" /\ (e[t] = "blank" => t \in hist.lost \cup none)
        /\ \A t \in Tensors \ managed : e[t] = "gpu"
        /\ \A t \in observed : e[t] = "gpu"
        /\ \A t \in AllIds(StatIds) \ (hist.leaked \cup hist.lost \cup none) : e[t] = "host"
    BY <1>2, <2>1, ProfileLeaves
  <2> HIDE DEF e
  <2>3. d = e
    BY DEF e, none
  <2> HIDE DEF d
  <2>4. QED
    BY <2>2, <2>3 DEF none
<1>6. /\ PinsTyped(p) /\ Registries(p) /\ p.mode = pins.mode /\ p.lost = pins.lost \cup (pins.view \cap stuck)
      /\ \A s : IsPinned(pins, s) /\ s # BlockName(pins) => IsPinned(p, s)
  BY <1>3, ReleaseViewFacts
<1>7. BuildLoader(prof', d, p, managed)
  BY <1>1
<1>8. /\ ProfileType(prof)' /\ AllIds(prof'.load) \subseteq AllIds(StatIds)
      /\ (prof'.loader = "strategy" => ~setup.blocks)
  <2> DEFINE pr == Profile(TimedLabels, StatIds)
             order == TimedLabels
             ids == StatIds
  <2>1. ids \in IdsType
    BY StatIdsFacts
  <2> HIDE DEF order, ids
  <2>2. /\ ProfileType(Profile(order, ids)) /\ AllIds(Profile(order, ids).load) \subseteq AllIds(ids)
        /\ Profile(order, ids).loader = "strategy" => ~setup.blocks
    BY <2>1, ProfileFacts
  <2>3. prof' = Profile(order, ids)
    BY <1>2 DEF order, ids
  <2>4. QED
    BY <2>2, <2>3 DEF ids, ProfileType, IdsOf
<1>9. AllIds(StatIds) \subseteq managed \ observed
  BY StatIdsFacts
<1>10. p.lost = {} \/ hist'.faults # 0
  BY <1>4, <1>6 DEF IInv, PinInv
<1> HIDE DEF d, p
<1>11. passes' \in 0..MaxForwards
  BY <1>2, Passes
<1>12. \A t \in Tensors : IsPinned(pins, t) => IsPinned(p, t)
  BY <1>3, <1>6
<1>13. \A t \in AllIds(prof'.load) \ (hist.leaked \cup hist.lost) : d[t] = "host"
  BY <1>5, <1>8
<1>14. AllIds(prof'.load) \subseteq managed \ observed
  BY <1>8, <1>9
<1>15. QED
  BY <1>2, <1>3, <1>4, <1>5, <1>6, <1>7, <1>8, <1>10, <1>11, <1>12, <1>13, <1>14, InferenceBegins

(* Inference refused half-way: nothing is read any more. *)
LEMMA InferenceStops ==
  ASSUME IInv, CanInfer, phase' = "broken", ld' = NoLoader, HistType', hist'.faults # 0,
         data' \in [Tensors -> {"host", "gpu", "slot", "blank"}],
         \A t \in Tensors : data'[t] # "slot" /\ (data'[t] = "blank" => t \in hist'.lost),
         \A t \in observed : data'[t] = "gpu",
         PinsType', Registries(pins'), pins'.mode = pins.mode,
         UNCHANGED <<setup, managed, observed, trap, pc, passes, running, coll, frozen, prof, place, adoption>>
  PROVE  IInv'
<1>1. phase = "profile" /\ pc = 0 /\ setup.profile = NoProfile /\ prof = NoProfile
  BY CanInferFacts
<1>2. ForwardType' /\ TrapInv'
  BY <1>1, AtRest, Passes
<1>3. ProfilesType'
  BY ProfilesSame
<1>4. LoaderType(ld') /\ ld'.kind = "none" /\ ld'.bound = {}
  BY NoLoaderFacts
<1>5. ModelType'
  BY DEF IInv, TypeInv, ModelType, Phases
<1>6. PhaseInv'
  BY <1>1, <1>4 DEF IInv, PhaseInv
<1>7. CopyInv' /\ CoverInv'
  BY <1>4 DEF CopyInv, CoverInv, Held
<1>8. DataInv'
  <2>1. AllIds(prof.load)' = {}
    BY <1>1, NoProfileFacts DEF AllIds
  <2>2. QED
    BY <1>4, <2>1 DEF DataInv
<1>9. ObservedInv'
  BY <1>4 DEF ObservedInv
<1>10. IdsInv'
  <2>1. (AllIds(frozen.ids) \subseteq managed)'
    BY DEF IInv, IdsInv, AllIds
  <2>2. QED
    BY <1>4, <2>1 DEF IdsInv
<1>11. PinInv' /\ PlaceInv'
  BY DEF IInv, PinInv, PlaceInv
<1>12. PinnedInv' /\ ModeInv'
  BY <1>1, <1>4 DEF IInv, PinnedInv, ModeInv, Pinning
<1>13. QED
  BY <1>2, <1>3, <1>4, <1>5, <1>6, <1>7, <1>8, <1>9, <1>10, <1>11, <1>12 DEF IInv, TypeInv

LEMMA InferenceFailsKeeps ==
  ASSUME IInv, InferenceFails
  PROVE  IInv'
<1>1. /\ CanInfer /\ phase' = "broken" /\ ld' = NoLoader
      /\ UNCHANGED <<setup, managed, observed, trap, pc, passes, running, coll, frozen, prof, place, adoption>>
  BY DEF InferenceFails, forwardVars, profileVars, adoptionVars
<1>2. PinsTyped(pins) /\ Registries(pins) /\ managed \subseteq Tensors
  BY <1>1, CanInferFacts DEF IInv, TypeInv, ModelType
<1>3. HistType /\ hist.faults \in Nat
  BY DEF IInv, TypeInv, HistType
<1> DEFINE p == ReleaseView(pins, {})
           none == {}
<1>4. PinsTyped(p) /\ Registries(p) /\ p.mode = pins.mode
  BY <1>2, ReleaseViewFacts
<1>5. none \in SUBSET Tensors
  OBVIOUS
<1> HIDE DEF p
<1>6. ASSUME NEW t \in AllIds(ld.ids), ld.kind = "view", data' = AfterProfile({t}),
             hist' = [Fail(hist) EXCEPT !.lost = @ \cup {t}], pins' = p
      PROVE  IInv'
  <2> DEFINE failed == {t}
  <2>1. failed \in SUBSET Tensors
    <3>1. ld.ids \in IdsType
      BY DEF IInv, TypeInv, LoaderType
    <3>2. QED
      BY <3>1, IdsFacts
  <2>2. data' = AfterProfile(failed) /\ hist' = [Fail(hist) EXCEPT !.lost = @ \cup failed]
    BY <1>6
  <2> HIDE DEF failed
  <2>3. HistType' /\ hist'.faults # 0 /\ hist'.lost = hist.lost \cup failed
    BY <1>3, <2>1, <2>2, FailFacts DEF HistType
  <2>4. /\ data' \in [Tensors -> {"host", "gpu", "slot", "blank"}]
        /\ \A s \in Tensors : data'[s] # "slot" /\ (data'[s] = "blank" => s \in hist.lost \cup failed)
        /\ \A s \in observed : data'[s] = "gpu"
    BY <1>1, <2>1, <2>2, ProfileLeaves
  <2>5. PinsType' /\ Registries(pins') /\ pins'.mode = pins.mode
    BY <1>4, <1>6 DEF PinsType
  <2>6. QED
    BY <1>1, <2>3, <2>4, <2>5, InferenceStops
<1>7. ASSUME NEW k \in Labels, NEW load, load = Profile(TimedLabels, StatIds).load,
             NEW emptied, emptied = IF setup.blocks THEN UNION {load[l] : l \in 1..(k - 1)} ELSE {},
             NEW filled, filled \subseteq HostBlocks(load),
             data' = EmptiedBefore(AfterProfile({}), [l \in Labels |-> load[l] \cap emptied], k),
             hist' = [Fail(hist) EXCEPT !.lost = @ \cup emptied], pins' = PinAll(p, filled)
      PROVE  IInv'
  <2>1. load \in IdsType /\ AllIds(load) \subseteq AllIds(StatIds) /\ AllIds(StatIds) \subseteq managed \ observed
    <3> DEFINE order == TimedLabels
               ids == StatIds
    <3>1. ids \in IdsType /\ AllIds(ids) \subseteq managed \ observed
      BY StatIdsFacts
    <3> HIDE DEF order, ids
    <3>2. ProfileType(Profile(order, ids)) /\ AllIds(Profile(order, ids).load) \subseteq AllIds(ids)
      BY <3>1, ProfileFacts
    <3>3. load = Profile(order, ids).load
      BY <1>7 DEF order, ids
    <3>4. QED
      BY <3>1, <3>2, <3>3 DEF ids, ProfileType
  <2>2. 1..(k - 1) \subseteq Labels
    BY LayersFacts
  <2>3. emptied \subseteq AllIds(load) /\ emptied \subseteq Tensors /\ emptied \cap observed = {}
    <3>1. emptied \subseteq AllIds(load)
      BY <1>7, <2>2 DEF AllIds
    <3>2. QED
      BY <1>2, <2>1, <3>1
  <2>4. HistType' /\ hist'.faults # 0 /\ hist'.lost = hist.lost \cup emptied
    BY <1>3, <1>7, <2>3, FailFacts DEF HistType
  <2> DEFINE d == AfterProfile(none)
  <2>5. /\ d \in [Tensors -> {"host", "gpu", "slot", "blank"}]
        /\ \A t \in Tensors : d[t] # "slot" /\ (d[t] = "blank" => t \in hist.lost \cup none)
        /\ \A t \in observed : d[t] = "gpu"
    <3> HIDE DEF none
    <3>1. QED
      BY <1>1, <1>5, ProfileLeaves
  <2> DEFINE gone == UNION {[l \in Labels |-> load[l] \cap emptied][i] : i \in 1..(k - 1)}
  <2>6. gone \subseteq emptied
    BY <2>2
  <2>7. data' = [t \in Tensors |-> IF t \in gone THEN "blank" ELSE d[t]]
    BY <1>7 DEF EmptiedBefore, Change
  <2> HIDE DEF d, gone
  <2>8. /\ data' \in [Tensors -> {"host", "gpu", "slot", "blank"}]
        /\ \A t \in Tensors : data'[t] # "slot" /\ (data'[t] = "blank" => t \in hist'.lost)
    BY <2>4, <2>5, <2>6, <2>7
  <2>9. \A t \in observed : data'[t] = "gpu"
    <3>1. \A t \in observed : t \in Tensors /\ t \notin gone
      BY <1>2, <2>3, <2>6 DEF IInv, TypeInv, ModelType
    <3>2. QED
      BY <2>5, <2>7, <3>1
  <2>10. PinsType' /\ Registries(pins') /\ pins'.mode = pins.mode
    <3>1. filled \in SUBSET Int /\ \A s \in filled : s >= -Layers
      BY <1>7, LayersFacts DEF HostBlocks, HostBlock
    <3>2. QED
      BY <1>4, <1>7, <3>1, PinAllFacts DEF PinsType
  <2>11. QED
    BY <1>1, <2>4, <2>8, <2>9, <2>10, InferenceStops
<1>8. CASE \E t \in AllIds(ld.ids) :
             /\ ld.kind = "view" /\ data' = AfterProfile({t})
             /\ hist' = [Fail(hist) EXCEPT !.lost = @ \cup {t}] /\ pins' = p
  BY <1>6, <1>8
<1>9. ASSUME NEW k \in Labels,
             LET load == Profile(TimedLabels, StatIds).load
                 emptied == IF setup.blocks THEN UNION {load[l] : l \in 1..(k - 1)} ELSE {}
                 filled == {b \in HostBlocks(load) : setup.blocks /\ -b < k}
             IN  /\ data' = EmptiedBefore(AfterProfile({}), [l \in Labels |-> load[l] \cap emptied], k)
                 /\ hist' = [Fail(hist) EXCEPT !.lost = @ \cup emptied]
                 /\ pins' = PinAll(p, filled)
      PROVE  IInv'
  <2> DEFINE load == Profile(TimedLabels, StatIds).load
             emptied == IF setup.blocks THEN UNION {load[l] : l \in 1..(k - 1)} ELSE {}
             filled == {b \in HostBlocks(load) : setup.blocks /\ -b < k}
             less == [l \in Labels |-> load[l] \cap emptied]
  <2>1. /\ data' = EmptiedBefore(AfterProfile({}), less, k)
        /\ hist' = [Fail(hist) EXCEPT !.lost = @ \cup emptied] /\ pins' = PinAll(p, filled)
    BY <1>9
  <2>2. filled \subseteq HostBlocks(load)
    OBVIOUS
  <2> HIDE DEF filled
  <2>3. QED
    BY <1>7, <2>1, <2>2
<1>10. QED
  BY <1>1, <1>8, <1>9 DEF InferenceFails, p

LEMMA InitializeRestoredKeeps ==
  ASSUME IInv, InitializeRestored
  PROVE  IInv'
<1>1. /\ phase = "restored" /\ phase' = "infer" /\ BuildLoader(prof, data, pins, managed)
      /\ UNCHANGED <<setup, managed, observed, trap, pc, passes, running, coll, frozen, prof, hist, place, adoption>>
  BY DEF InitializeRestored, forwardVars, profileVars, adoptionVars
<1>2. pc = 0 /\ passes' \in 0..MaxForwards
  BY <1>1, Passes DEF IInv, TrapInv
<1>3. prof = setup.profile /\ setup.profile # NoProfile /\ ld.kind = "none" /\ observed = {}
  BY <1>1 DEF IInv, PhaseInv, ObservedInv
<1>4. /\ data \in [Tensors -> {"host", "gpu", "slot", "blank"}] /\ PinsTyped(pins) /\ Registries(pins)
      /\ HistType' /\ ProfileType(prof)'
  BY <1>1 DEF IInv, TypeInv, ModelType, PinsType, PinInv, HistType, ProfilesType, ProfileType, IdsOf
<1>5. /\ \A t \in Tensors : data[t] # "slot" /\ (data[t] = "blank" => t \in hist.lost)
      /\ \A t \in Tensors \ managed : data[t] = "gpu"
      /\ \A t \in AllIds(prof.load) : data[t] = "host"
  BY <1>1, <1>3 DEF IInv, DataInv, Host
<1>6. AllIds(prof.load) \subseteq managed
  <2>1. prof.load \in IdsType
    BY DEF IInv, TypeInv, ProfilesType, ProfileType
  <2>2. AllIds(prof.load) \subseteq Tensors
    BY <2>1, IdsFacts
  <2>3. QED
    BY <1>5, <2>2
<1>7. hist'.faults = 0 => hist.faults = 0 /\ pins.lost = {}
  BY <1>1 DEF IInv, PinInv
<1>8. AllIds(prof'.load) = AllIds(prof.load) /\ prof' = prof
  BY <1>1
<1>9. BuildLoader(prof', data, pins, managed)
  BY <1>1 DEF BuildLoader, OrderOf, IdsOf
<1>10. QED
  BY <1>1, <1>2, <1>3, <1>4, <1>5, <1>6, <1>7, <1>8, <1>9, InferenceBegins

-----------------------------------------------------------------------------
(* Adopting a saved profile *)
LEMMA SavedFacts ==
  ASSUME IInv, phase = "saved"
  PROVE  /\ pc = 0 /\ managed = {} /\ observed = {} /\ ld.kind = "none" /\ ld.bound = {}
         /\ prof = setup.profile /\ setup.profile # NoProfile /\ \A t \in Tensors : data[t] = "host"
         /\ DOMAIN place = DOMAIN StorageSizes /\ DOMAIN place \subseteq Nat
         /\ adoption.pins \subseteq DOMAIN place
         /\ PinsTyped(pins) /\ Registries(pins)
         /\ Pinning # "none" => \A s \in DOMAIN place : place[s].pinned => IsPinned(pins, s)
<1>1. pc = 0
  BY DEF IInv, TrapInv
<1>2. managed = {} /\ observed = {} /\ \A t \in Tensors : data[t] = "host"
  BY DEF IInv, ObservedInv, DataInv, Host
<1>3. ld.kind = "none" /\ prof = setup.profile /\ setup.profile # NoProfile
  BY DEF IInv, PhaseInv
<1>4. ld.bound = {}
  BY <1>3 DEF IInv, CopyInv, Held
<1>5. DOMAIN place = DOMAIN StorageSizes /\ DOMAIN place \subseteq Nat /\ adoption.pins \subseteq DOMAIN place
  BY StoragesAssumption DEF IInv, PlaceInv
<1>6. /\ PinsTyped(pins) /\ Registries(pins)
      /\ Pinning # "none" => \A s \in DOMAIN place : place[s].pinned => IsPinned(pins, s)
  BY DEF IInv, TypeInv, PinsType, PinInv, PinnedInv
<1>7. QED
  BY <1>1, <1>2, <1>3, <1>4, <1>5, <1>6

LEMMA AdoptionKeeps ==
  ASSUME IInv, phase = "saved", HistType', hist'.lost = hist.lost, hist'.leaked = hist.leaked,
         hist'.faults = 0 => hist.faults = 0, PlaceInv',
         PinsType', Registries(pins'), pins'.mode = pins.mode, pins'.lost = pins.lost,
         Pinning # "none" => \A s \in DOMAIN place' : place'[s].pinned => IsPinned(pins', s),
         UNCHANGED <<setup, phase, data, managed, observed, trap, pc, passes, running, coll, frozen, prof, ld>>
  PROVE  IInv'
<1>1. /\ pc = 0 /\ managed = {} /\ observed = {} /\ ld.kind = "none" /\ ld.bound = {}
      /\ prof = setup.profile /\ setup.profile # NoProfile /\ \A t \in Tensors : data[t] = "host"
  BY SavedFacts
<1>2. ForwardType' /\ TrapInv'
  BY <1>1, AtRest, Passes
<1>3. ProfilesType'
  BY ProfilesSame
<1>4. ModelType' /\ LoaderType(ld')
  BY DEF IInv, TypeInv, ModelType
<1>5. PhaseInv' /\ ObservedInv'
  BY DEF IInv, PhaseInv, ObservedInv
<1>6. CopyInv' /\ CoverInv'
  BY <1>1 DEF CopyInv, CoverInv, Held
<1>7. DataInv'
  BY <1>1 DEF DataInv, Host
<1>8. IdsInv'
  BY DEF IInv, IdsInv, FrozenFits, Discovered, AllIds
<1>9. PinInv'
  BY DEF IInv, PinInv
<1>10. PinnedInv' /\ ModeInv'
  BY <1>1 DEF IInv, PinnedInv, ModeInv, Pinning
<1>11. QED
  BY <1>2, <1>3, <1>4, <1>5, <1>6, <1>7, <1>8, <1>9, <1>10 DEF IInv, TypeInv

LEMMA PlannedPins ==
  ASSUME NEW current, NEW target, NEW spec, NEW cap
  PROVE  PlanStateTransition(current, target, spec, cap).pins \subseteq DOMAIN current
  BY DEF PlanStateTransition, Ordered, StatePlan

LEMMA PlanKeeps ==
  ASSUME IInv, Plan
  PROVE  IInv'
<1>1. PICK cap \in Capacities : PlanStateAdoption(prof, setup.storage, setup.size, Pinning, cap)
  BY DEF Plan
<1>2. /\ phase = "saved" /\ place' = place
      /\ UNCHANGED <<setup, phase, data, managed, observed, trap, pc, passes, running, coll, frozen, prof, ld,
                     pins, hist>>
  BY <1>1 DEF Plan, PlanStateAdoption, adoptVars, modelVars, forwardVars, profileVars
<1> DEFINE target == TargetFromProfile(place, prof, setup.storage, setup.size, Pinning)
           plan == PlanStateTransition(place, target.target, target.spec, cap)
<1>3. plan.pins \subseteq DOMAIN place
  BY PlannedPins
<1>4. adoption' = Adoption(target, plan, cap)
  BY <1>1 DEF PlanStateAdoption, PlanFor
<1> HIDE DEF target, plan
<1>5. adoption' \in [status : {adoption'.status}, cap : {adoption'.cap}, spec : {adoption'.spec},
                     moves : {adoption'.moves}, todo : {adoption'.todo}, pins : SUBSET DOMAIN place,
                     host : {adoption'.host}]
  BY <1>3, <1>4 DEF Adoption, NoAdoption
<1>6. PlaceInv'
  BY <1>2, <1>5 DEF IInv, PlaceInv
<1>7. HistType' /\ PinsType' /\ Registries(pins')
  BY <1>2 DEF IInv, TypeInv, HistType, PinsType, PinInv
<1>8. QED
  BY <1>2, <1>6, <1>7, SavedFacts, AdoptionKeeps

LEMMA PartialFacts ==
  Partial \in [status : {Partial.status}, cap : {Partial.cap}, spec : {Partial.spec},
               moves : {Partial.moves}, todo : {Partial.todo}, pins : {{}}, host : {Partial.host}]
  BY DEF Partial, NoAdoption

LEMMA MovedFacts ==
  ASSUME IInv, phase = "saved", NEW m
  PROVE  /\ DOMAIN Moved(m) = DOMAIN place
         /\ \A s \in DOMAIN place :
              /\ Moved(m)[s] \in [dev : {Moved(m)[s].dev}, n : {Moved(m)[s].n}, pinned : BOOLEAN]
              /\ Moved(m)[s].pinned => place[s].pinned
  BY DEF IInv, PlaceInv, Moved

LEMMA MigrateStorageKeeps ==
  ASSUME IInv, MigrateStorage
  PROVE  IInv'
<1>1. /\ phase = "saved"
      /\ UNCHANGED <<setup, phase, data, managed, observed, trap, pc, passes, running, coll, frozen, prof, ld,
                     pins, hist>>
  BY DEF MigrateStorage, adoptVars, modelVars, forwardVars, profileVars
<1> DEFINE m == Head(adoption.todo)
<1>2. place' = Moved(m) /\ adoption' = [adoption EXCEPT !.todo = Tail(@), !.host = @ + HostGain(m)]
  BY DEF MigrateStorage, Migrate
<1>3. /\ DOMAIN Moved(m) = DOMAIN place
      /\ \A s \in DOMAIN place :
           /\ Moved(m)[s] \in [dev : {Moved(m)[s].dev}, n : {Moved(m)[s].n}, pinned : BOOLEAN]
           /\ Moved(m)[s].pinned => place[s].pinned
  BY <1>1, MovedFacts
<1> HIDE DEF m
<1>4. PlaceInv'
  <2>1. adoption' \in [status : {adoption'.status}, cap : {adoption'.cap}, spec : {adoption'.spec},
                       moves : {adoption'.moves}, todo : {adoption'.todo}, pins : SUBSET DOMAIN place,
                       host : {adoption'.host}]
    BY <1>2 DEF IInv, PlaceInv
  <2>2. QED
    BY <1>1, <1>2, <1>3, <2>1 DEF IInv, PlaceInv
<1>5. HistType' /\ PinsType' /\ Registries(pins')
  BY <1>1 DEF IInv, TypeInv, HistType, PinsType, PinInv
<1>6. Pinning # "none" => \A s \in DOMAIN place' : place'[s].pinned => IsPinned(pins', s)
  BY <1>1, <1>2, <1>3, SavedFacts
<1>7. QED
  BY <1>1, <1>4, <1>5, <1>6, AdoptionKeeps

LEMMA PinStorageKeeps ==
  ASSUME IInv, PinStorage
  PROVE  IInv'
<1> DEFINE s == Min(adoption.pins)
<1>1. /\ phase = "saved" /\ adoption.pins # {} /\ pins' = PinAll(pins, {s})
      /\ place' = [place EXCEPT ![s].pinned = TRUE] /\ adoption' = [adoption EXCEPT !.pins = @ \ {s}]
      /\ UNCHANGED <<setup, phase, data, managed, observed, trap, pc, passes, running, coll, frozen, prof, ld, hist>>
  BY DEF PinStorage, PinNext, adoptVars, modelVars, forwardVars, profileVars
<1>2. /\ DOMAIN place \subseteq Nat /\ adoption.pins \subseteq DOMAIN place /\ PinsTyped(pins) /\ Registries(pins)
      /\ Pinning # "none" => \A r \in DOMAIN place : place[r].pinned => IsPinned(pins, r)
  BY <1>1, SavedFacts
<1>3. s \in adoption.pins
  BY <1>1, <1>2, LeastOfSet
<1> HIDE DEF s
<1> DEFINE S == {s}
<1>4. S \in SUBSET Int /\ \A r \in S : r >= -Layers
  BY <1>2, <1>3, LayersFacts
<1>5. pins' = PinAll(pins, S) /\ s \in S
  BY <1>1
<1> HIDE DEF S
<1>6. /\ PinsTyped(pins') /\ Registries(pins') /\ pins'.mode = pins.mode /\ pins'.lost = pins.lost
      /\ \A r : IsPinned(pins, r) => IsPinned(pins', r)
      /\ Pinning # "none" => IsPinned(pins', s)
  BY <1>2, <1>4, <1>5, PinAllFacts DEF Pinning
<1>7. PlaceInv'
  <2>1. adoption' \in [status : {adoption'.status}, cap : {adoption'.cap}, spec : {adoption'.spec},
                       moves : {adoption'.moves}, todo : {adoption'.todo}, pins : SUBSET DOMAIN place,
                       host : {adoption'.host}]
    BY <1>1 DEF IInv, PlaceInv
  <2>2. DOMAIN place' = DOMAIN place
        /\ \A r \in DOMAIN place : place'[r] \in [dev : {place'[r].dev}, n : {place'[r].n}, pinned : BOOLEAN]
    BY <1>1 DEF IInv, PlaceInv
  <2>3. QED
    BY <1>1, <2>1, <2>2 DEF IInv, PlaceInv
<1>8. Pinning # "none" => \A r \in DOMAIN place' : place'[r].pinned => IsPinned(pins', r)
  <2>1. \A r \in DOMAIN place' : r \in DOMAIN place /\ (r = s \/ place'[r] = place[r])
    BY <1>1
  <2>2. QED
    BY <1>2, <1>6, <2>1
<1>9. HistType'
  BY <1>1 DEF IInv, TypeInv, HistType
<1>10. QED
  BY <1>1, <1>6, <1>7, <1>8, <1>9, AdoptionKeeps DEF PinsType

LEMMA AdoptionFailsKeeps ==
  ASSUME IInv, AdoptionFails
  PROVE  IInv'
<1>1. /\ phase = "saved" /\ hist' = Fail(hist) /\ adoption' = Partial
      /\ place' = place \/ place' = Moved(Head(adoption.todo))
      /\ UNCHANGED <<setup, phase, data, managed, observed, trap, pc, passes, running, coll, frozen, prof, ld, pins>>
  BY DEF AdoptionFails, MigrateFails, PinFails, adoptVars, modelVars, forwardVars, profileVars
<1>2. HistType' /\ hist'.lost = hist.lost /\ hist'.leaked = hist.leaked /\ hist'.faults # 0
  <2>1. HistType /\ hist.faults \in Nat
    BY DEF IInv, TypeInv, HistType
  <2>2. QED
    BY <1>1, <2>1, FailFacts DEF HistType
<1>3. /\ DOMAIN place' = DOMAIN place
      /\ \A s \in DOMAIN place :
           /\ place'[s] \in [dev : {place'[s].dev}, n : {place'[s].n}, pinned : BOOLEAN]
           /\ place'[s].pinned => place[s].pinned
  <2> DEFINE m == Head(adoption.todo)
  <2>1. CASE place' = place
    BY <2>1 DEF IInv, PlaceInv
  <2>2. CASE place' = Moved(m)
    <3> HIDE DEF m
    <3>1. QED
      BY <1>1, <2>2, MovedFacts
  <2>3. QED
    BY <1>1, <2>1, <2>2
<1>4. PlaceInv'
  BY <1>1, <1>3, PartialFacts DEF IInv, PlaceInv
<1>5. PinsType' /\ Registries(pins')
  BY <1>1 DEF IInv, TypeInv, PinsType, PinInv
<1>6. Pinning # "none" => \A s \in DOMAIN place' : place'[s].pinned => IsPinned(pins', s)
  BY <1>1, <1>3, SavedFacts
<1>7. QED
  BY <1>1, <1>2, <1>4, <1>5, <1>6, AdoptionKeeps

LEMMA PairCounts == Cardinality({"cpu", "gpu"}) = 2
<1>1. IsFiniteSet({"cpu"}) /\ Cardinality({"cpu"}) = 1
  BY FS_Singleton
<1>2. {"cpu"} \cup {"gpu"} = {"cpu", "gpu"} /\ "gpu" \notin {"cpu"}
  OBVIOUS
<1> DEFINE S == {"cpu"}
<1>3. IsFiniteSet(S) /\ Cardinality(S) = 1 /\ "gpu" \notin S
  BY <1>1
<1> HIDE DEF S
<1>4. Cardinality(S \cup {"gpu"}) = 2
  BY <1>3, FS_AddElement
<1>5. QED
  BY <1>2, <1>4 DEF S

(* Every storage lies where all its tensors are to go. *)
LEMMA EstablishedFacts ==
  ASSUME IInv, phase = "saved", Established(prof, setup.storage, setup.size, Pinning), NEW t \in Tensors
  PROVE  LET s == setup.storage[t]
         IN  /\ s \in DOMAIN place
             /\ place[s].dev = IF t \in ManagedTensors(prof) THEN "cpu" ELSE "gpu"
             /\ t \in ManagedTensors(prof) /\ prof.loader = "strategy" /\ Pinning # "none" => place[s].pinned
<1> DEFINE s == setup.storage[t]
           dests == Destinations(prof, setup.storage, s)
           target == TargetFromProfile(place, prof, setup.storage, setup.size, Pinning)
           storages == TargetStorages(place, prof, setup.storage, Pinning)
<1>1. setup.storage \in [Tensors -> DOMAIN StorageSizes] /\ DOMAIN place = DOMAIN StorageSizes
  BY SetupFacts, SavedFacts DEF IInv, TypeInv, ModelType
<1>2. s \in DOMAIN place /\ place[s] \in [dev : {place[s].dev}, n : {place[s].n}, pinned : BOOLEAN]
  BY <1>1 DEF IInv, PlaceInv
<1>3. target.err = "none" /\ \A r \in DOMAIN place :
        place[r].dev = target.target[r].dev /\ (target.target[r].pinned => place[r].pinned)
  BY DEF Established
<1>4. target.target = storages /\ ~(Cardinality(dests) > 1)
  <2> DEFINE many == \E r \in DOMAIN place : Cardinality(Destinations(prof, setup.storage, r)) > 1
  <2>1. many => target.err # "none"
    BY DEF TargetFromProfile
  <2>2. ~many
    BY <1>3, <2>1
  <2>3. ~(Cardinality(dests) > 1)
    BY <1>2, <2>2
  <2>4. target.target = storages
    BY <1>3, <2>2 DEF TargetFromProfile
  <2>5. QED
    BY <2>3, <2>4
<1>5. dests \subseteq {"cpu", "gpu"} /\ (IF t \in ManagedTensors(prof) THEN "cpu" ELSE "gpu") \in dests
  BY <1>1 DEF Destinations
<1> HIDE DEF target
<1>6. "cpu" \in dests <=> t \in ManagedTensors(prof)
  <2>1. ASSUME "cpu" \in dests, "gpu" \in dests
        PROVE  FALSE
    <3>1. dests = {"cpu", "gpu"}
      BY <1>5, <2>1
    <3> HIDE DEF dests
    <3>2. QED
      BY <1>4, <3>1, PairCounts
  <2>2. QED
    BY <1>5, <2>1
<1>7. /\ storages[s].dev = (IF "cpu" \in dests THEN "cpu" ELSE "gpu")
      /\ "cpu" \in dests /\ prof.loader = "strategy" /\ Pinning # "none" => storages[s].pinned
  BY <1>2 DEF TargetStorages
<1> HIDE DEF dests, storages
<1>8. QED
  BY <1>2, <1>3, <1>4, <1>6, <1>7

LEMMA RestoreAdoptedKeeps ==
  ASSUME IInv, RestoreAdopted
  PROVE  IInv'
<1>1. /\ phase = "saved" /\ Established(prof, setup.storage, setup.size, Pinning)
      /\ managed' = ManagedTensors(prof) /\ phase' = "restored" /\ place' = << >> /\ adoption' = NoAdoption
      /\ data' = [t \in Tensors |-> IF place[setup.storage[t]].dev = "cpu" THEN "host" ELSE "gpu"]
      /\ UNCHANGED <<setup, observed, trap, pc, passes, running, coll, frozen, prof, ld, pins, hist>>
  BY DEF RestoreAdopted, forwardVars, profileVars
<1>2. /\ pc = 0 /\ managed = {} /\ observed = {} /\ ld.kind = "none" /\ ld.bound = {}
      /\ prof = setup.profile /\ setup.profile # NoProfile
      /\ Pinning # "none" => \A s \in DOMAIN place : place[s].pinned => IsPinned(pins, s)
  BY <1>1, SavedFacts
<1>3. ForwardType' /\ TrapInv'
  BY <1>1, <1>2, AtRest, Passes
<1>4. ProfilesType' /\ HistType' /\ PinsType' /\ LoaderType(ld')
  BY <1>1, ProfilesSame DEF IInv, TypeInv, HistType, PinsType
<1>5. managed' \subseteq Tensors /\ AllIds(prof.load) \subseteq managed' /\ AllIds(prof.load) \subseteq Tensors
  <2>1. prof.load \in IdsType /\ prof.views \subseteq Tensors
    BY DEF IInv, TypeInv, ProfilesType, ProfileType
  <2>2. LoadedTensors(prof) = AllIds(prof.load) /\ AllIds(prof.load) \subseteq Tensors
    BY <2>1 DEF LoadedTensors, AllIds, IdsType
  <2>3. QED
    BY <1>1, <2>1, <2>2 DEF ManagedTensors
<1>6. \A t \in Tensors : data'[t] = IF t \in managed' THEN "host" ELSE "gpu"
  BY <1>1, EstablishedFacts
<1>7. ModelType'
  BY <1>1, <1>2, <1>5 DEF IInv, TypeInv, ModelType, Phases
<1>8. PhaseInv'
  BY <1>1, <1>2 DEF IInv, PhaseInv
<1>9. CopyInv' /\ CoverInv'
  BY <1>1, <1>2 DEF CopyInv, CoverInv, Held
<1>10. DataInv'
  <2>1. AllIds(prof.load)' = AllIds(prof.load)
    BY <1>1 DEF AllIds
  <2>2. QED
    BY <1>1, <1>2, <1>5, <1>6, <2>1 DEF DataInv, Host
<1>11. ObservedInv'
  BY <1>1, <1>2 DEF ObservedInv
<1>12. IdsInv'
  <2>1. (AllIds(frozen.ids) \subseteq managed)'
    BY <1>1, <1>2 DEF IInv, IdsInv, AllIds
  <2>2. QED
    BY <1>1, <1>2, <2>1 DEF IdsInv
<1>13. PinInv'
  BY <1>1 DEF IInv, PinInv
<1>14. PlaceInv'
  <2>1. DOMAIN place' = {}
    BY <1>1
  <2>2. QED
    BY <1>1, <2>1 DEF PlaceInv, NoAdoption
<1>15. PinnedInv' /\ ModeInv'
  <2>1. \A t \in AllIds(prof.load) : prof.loader = "strategy" /\ Pinning # "none" => IsPinned(pins, setup.storage[t])
    BY <1>1, <1>2, <1>5, EstablishedFacts
  <2>2. AllIds(prof.load)' = AllIds(prof.load)
    BY <1>1 DEF AllIds
  <2>3. QED
    BY <1>1, <1>2, <2>1, <2>2 DEF IInv, PinnedInv, ModeInv, Pinning
<1>16. QED
  BY <1>3, <1>4, <1>7, <1>8, <1>9, <1>10, <1>11, <1>12, <1>13, <1>14, <1>15 DEF IInv, TypeInv

-----------------------------------------------------------------------------
(* Shutdown *)
LEMMA ShutdownKeeps ==
  ASSUME IInv, Shutdown
  PROVE  IInv'
<1>1. PICK failed \in {{}} \cup {{t} : t \in AllIds(ld.ids)},
           stuck \in {{}} \cup {{s} : s \in pins.main \cup pins.view} :
        /\ failed # {} => ld.kind = "view" /\ stuck = {}
        /\ hist' = [hist EXCEPT !.lost = @ \cup failed,
                      !.faults = @ + (IF failed \cup stuck # {} THEN 1 ELSE 0)]
        /\ data' = OutOfSlots(ViewsBack(failed), ld)
        /\ pins' = ReleaseAll(ReleaseView(pins, stuck), stuck)
  BY DEF Shutdown
<1>2. /\ pc = 0 /\ phase' = "down" /\ ld' = NoLoader /\ running' = {}
      /\ UNCHANGED <<setup, managed, observed, trap, pc, passes, coll, frozen, prof, place, adoption>>
  BY DEF Shutdown, profileVars
<1>3. ForwardType' /\ TrapInv'
  BY <1>2, AtRest, Passes
<1>4. ProfilesType'
  BY <1>2, ProfilesSame
<1>5. ld.ids \in IdsType /\ AllIds(ld.ids) \subseteq Tensors /\ failed \subseteq Tensors
  <2>1. ld.ids \in IdsType
    BY DEF IInv, TypeInv, LoaderType
  <2>2. QED
    BY <2>1, IdsFacts
<1>6. /\ HistType' /\ hist'.lost = hist.lost \cup failed /\ hist'.leaked = hist.leaked
      /\ hist'.faults = 0 => hist.faults = 0 /\ stuck = {}
  <2>1. HistType /\ hist.faults \in Nat
    BY DEF IInv, TypeInv, HistType
  <2> DEFINE lost == hist.lost \cup failed
             faults == hist.faults + (IF failed \cup stuck # {} THEN 1 ELSE 0)
  <2>2. hist' = [hist EXCEPT !.lost = lost, !.faults = faults]
    BY <1>1
  <2>3. faults \in Nat /\ (faults = 0 => hist.faults = 0 /\ stuck = {}) /\ lost \subseteq Tensors
    BY <1>5, <2>1 DEF HistType
  <2> HIDE DEF lost, faults
  <2>4. HistType' /\ hist'.lost = lost /\ hist'.leaked = hist.leaked /\ hist'.faults = faults
    BY <2>1, <2>2, <2>3 DEF HistType
  <2>5. QED
    BY <2>3, <2>4 DEF lost
<1>7. LoaderType(ld') /\ ld'.kind = "none" /\ ld'.bound = {}
  BY <1>2, NoLoaderFacts
<1>8. PhaseInv'
  BY <1>2, <1>7 DEF IInv, PhaseInv
<1>9. CopyInv' /\ CoverInv'
  BY <1>7 DEF CopyInv, CoverInv, Held
<1>10. data \in [Tensors -> {"host", "gpu", "slot", "blank"}] /\ setup \in Setups
       /\ managed \subseteq Tensors /\ observed \subseteq managed
  BY DEF IInv, TypeInv, ModelType
<1>11. /\ ModelType'
       /\ \A t \in Tensors : data'[t] # "slot" /\ (data'[t] = "blank" => t \in hist.lost \cup failed)
       /\ \A t \in observed : data'[t] = "gpu"
       /\ \A t \in AllIds(prof.load) \ (observed \cup hist.leaked \cup hist.lost \cup failed) : data'[t] = "host"
  <2> DEFINE v == ViewsBack(failed)
  <2>1. data' = [t \in Tensors |-> IF ld.kind = "blocks" /\ v[t] = "slot" THEN "host" ELSE v[t]]
    BY <1>1 DEF OutOfSlots
  <2>2. AllIds(prof.load) \subseteq Tensors
    <3>1. prof.load \in IdsType
      BY DEF IInv, TypeInv, ProfilesType, ProfileType
    <3>2. QED
      BY <3>1, IdsFacts
  <2>3. phase \in Phases /\ (phase \in {"new", "warmup", "profile"} => AllIds(prof.load) = {})
    BY NoProfileFacts DEF IInv, TypeInv, ModelType, PhaseInv
  <2>4. CASE ld.kind = "view"
    <3>1. /\ phase = "profile" /\ observed = {}
          /\ \A t \in Tensors : (data[t] = "slot" /\ t \in AllIds(ld.ids)) \/ data[t] = "gpu"
      BY <2>3, <2>4 DEF IInv, PhaseInv, ObservedInv, DataInv, Phases
    <3>2. v = [t \in Tensors |-> IF t \notin AllIds(ld.ids) THEN data[t] ELSE IF t \in failed THEN "blank"
                                 ELSE IF t \in hist.lost THEN "blank" ELSE "host"]
      BY <2>4 DEF ViewsBack, RestoreOrBlank, Home
    <3> HIDE DEF v
    <3>3. \A t \in Tensors : data'[t] = IF t \notin AllIds(ld.ids) THEN "gpu" ELSE IF t \in failed THEN "blank"
                                        ELSE IF t \in hist.lost THEN "blank" ELSE "host"
      BY <2>1, <2>4, <3>1, <3>2
    <3>4. data' \in [Tensors -> {"host", "gpu", "slot", "blank"}]
      BY <2>1, <3>3
    <3>5. QED
      BY <1>2, <1>10, <2>3, <3>1, <3>3, <3>4 DEF ModelType, Phases
  <2>5. CASE ld.kind # "view"
    <3>1. v = data
      BY <2>5 DEF ViewsBack
    <3> HIDE DEF v
    <3>2. data' \in [Tensors -> {"host", "gpu", "slot", "blank"}]
      BY <1>10, <2>1, <3>1
    <3>3. ModelType'
      BY <1>2, <1>10, <3>2 DEF ModelType, Phases
    <3>4. \A t \in observed : data'[t] = "gpu"
      BY <1>10, <2>1, <3>1 DEF IInv, ObservedInv
    <3>5. CASE ld.kind = "blocks"
      <4>1. \A t \in Tensors : data[t] = IF t \notin AllIds(prof.load) THEN "gpu"
                                         ELSE IF phase = "infer" THEN "slot" ELSE "host"
        BY <3>5 DEF IInv, DataInv
      <4>2. QED
        BY <2>1, <2>2, <3>1, <3>3, <3>4, <3>5, <4>1
    <3>6. CASE ld.kind # "blocks"
      <4>1. data' = data
        BY <1>10, <2>1, <3>1, <3>6
      <4>2. \A t \in Tensors : data[t] # "slot" /\ (data[t] = "blank" => t \in hist.lost)
        BY <2>5, <3>6 DEF IInv, DataInv
      <4>3. \A t \in AllIds(prof.load) \ (observed \cup hist.leaked \cup hist.lost) : data[t] = "host"
        BY <2>2, <2>3, <3>6 DEF IInv, DataInv, Host, Phases
      <4>4. QED
        BY <3>3, <3>4, <4>1, <4>2, <4>3
    <3>7. QED
      BY <3>5, <3>6
  <2>6. QED
    BY <2>4, <2>5
<1>12. DataInv'
  <2>1. AllIds(prof.load)' = AllIds(prof.load)
    BY <1>2 DEF AllIds
  <2>2. QED
    BY <1>2, <1>6, <1>7, <1>11, <2>1 DEF DataInv, Host
<1>13. ObservedInv'
  BY <1>2, <1>7, <1>11 DEF ObservedInv
<1>14. IdsInv'
  <2>1. (AllIds(frozen.ids) \subseteq managed)'
    BY <1>2 DEF IInv, IdsInv, AllIds
  <2>2. QED
    BY <1>2, <1>7, <2>1 DEF IdsInv
<1>15. /\ PinsType' /\ Registries(pins') /\ pins'.mode = pins.mode
       /\ hist'.faults = 0 => pins'.lost = {} /\ pins'.driver = {}
  <2> DEFINE p == ReleaseView(pins, stuck)
  <2>1. PinsTyped(pins) /\ Registries(pins) /\ (hist.faults = 0 => pins.lost = {})
    BY DEF IInv, TypeInv, PinsType, PinInv
  <2>2. /\ PinsTyped(p) /\ Registries(p) /\ p.mode = pins.mode /\ p.view = {}
        /\ p.lost = pins.lost \cup (pins.view \cap stuck)
    BY <2>1, ReleaseViewFacts
  <2>3. pins' = ReleaseAll(p, stuck)
    BY <1>1
  <2> HIDE DEF p
  <2>4. /\ PinsTyped(pins') /\ Registries(pins') /\ pins'.mode = p.mode /\ pins'.lost = p.lost
        /\ pins'.main = p.main \cap stuck /\ pins'.view = p.view
    BY <2>2, <2>3, ReleaseAllFacts
  <2>5. ASSUME hist'.faults = 0
        PROVE  pins'.lost = {} /\ pins'.driver = {}
    <3>1. pins'.lost = {} /\ pins'.main = {} /\ pins'.view = {}
      BY <1>6, <2>1, <2>2, <2>4, <2>5
    <3>2. QED
      BY <2>4, <3>1 DEF Registries
  <2>6. QED
    BY <2>2, <2>4, <2>5 DEF PinsType
<1>16. PinInv' /\ PlaceInv'
  BY <1>2, <1>15 DEF IInv, PinInv, PlaceInv
<1>17. PinnedInv' /\ ModeInv'
  BY <1>2, <1>7, <1>15 DEF IInv, PinnedInv, ModeInv, Pinning
<1>18. QED
  BY <1>3, <1>4, <1>6, <1>7, <1>8, <1>9, <1>11, <1>12, <1>13, <1>14, <1>15, <1>16, <1>17 DEF IInv, TypeInv

LEMMA ShutdownFailsKeeps ==
  ASSUME IInv, ShutdownFails
  PROVE  IInv'
<1>1. /\ pc = 0 /\ ld.kind \in {"strategy", "blocks"} /\ data' = OutOfSlots(data, ld)
      /\ phase' = "broken" /\ hist' = Fail(hist)
      /\ UNCHANGED <<setup, managed, observed, trap, pc, passes, running, coll, frozen, prof, ld, pins, place, adoption>>
  BY DEF ShutdownFails, forwardVars, profileVars, adoptionVars
<1>2. phase \in {"infer", "broken"}
  BY <1>1 DEF IInv, TypeInv, ModelType, Phases, PhaseInv
<1>3. ForwardType' /\ TrapInv'
  BY <1>1, AtRest, Passes
<1>4. ProfilesType' /\ PinsType' /\ LoaderType(ld')
  BY <1>1, ProfilesSame DEF IInv, TypeInv, PinsType
<1>5. HistType' /\ hist'.lost = hist.lost /\ hist'.leaked = hist.leaked /\ hist'.dropped = hist.dropped
      /\ hist'.faults # 0
  <2>1. HistType /\ hist.faults \in Nat
    BY DEF IInv, TypeInv, HistType
  <2>2. QED
    BY <1>1, <2>1, FailFacts DEF HistType
<1>6. /\ data \in [Tensors -> {"host", "gpu", "slot", "blank"}] /\ setup \in Setups
      /\ managed \subseteq Tensors /\ observed \subseteq managed
      /\ data' = [t \in Tensors |-> IF ld.kind = "blocks" /\ data[t] = "slot" THEN "host" ELSE data[t]]
  BY <1>1 DEF IInv, TypeInv, ModelType, OutOfSlots
<1>7. ModelType'
  BY <1>1, <1>6 DEF ModelType, Phases
<1>8. PhaseInv'
  BY <1>1 DEF IInv, PhaseInv
<1>9. CopyInv' /\ CoverInv'
  BY <1>1, <1>5 DEF IInv, CopyInv, CoverInv, Covered, Held
<1>10. DataInv'
  <2>1. AllIds(prof.load)' = AllIds(prof.load)
    BY <1>1 DEF AllIds
  <2>2. CASE ld.kind = "blocks"
    <3>1. \A t \in Tensors : data[t] = IF t \notin AllIds(prof.load) THEN "gpu"
                                       ELSE IF phase = "infer" THEN "slot" ELSE "host"
      BY <2>2 DEF IInv, DataInv
    <3>2. \A t \in Tensors : data'[t] = IF t \notin AllIds(prof.load) THEN "gpu" ELSE "host"
      BY <1>6, <2>2, <3>1
    <3>3. QED
      BY <1>1, <2>1, <2>2, <3>2 DEF DataInv
  <2>3. CASE ld.kind = "strategy"
    <3>1. data' = data
      BY <1>6, <2>3
    <3>2. QED
      BY <1>1, <1>2, <1>5, <2>1, <2>3, <3>1 DEF IInv, DataInv, Host
  <2>4. QED
    BY <1>1, <2>2, <2>3
<1>11. ObservedInv'
  BY <1>1, <1>2, <1>6 DEF IInv, ObservedInv
<1>12. IdsInv'
  <2>1. (AllIds(frozen.ids) \subseteq managed)'
    BY <1>1 DEF IInv, IdsInv, AllIds
  <2>2. QED
    BY <1>1, <2>1 DEF IdsInv
<1>13. PinInv' /\ PlaceInv'
  BY <1>1, <1>5 DEF IInv, PinInv, PlaceInv
<1>14. PinnedInv' /\ ModeInv'
  BY <1>1, <1>2 DEF IInv, PinnedInv, ModeInv, Pinning
<1>15. QED
  BY <1>3, <1>4, <1>5, <1>7, <1>8, <1>9, <1>10, <1>11, <1>12, <1>13, <1>14 DEF IInv, TypeInv

-----------------------------------------------------------------------------
(* Every step keeps the invariant. *)
LEMMA StutterKeeps ==
  ASSUME IInv, UNCHANGED vars
  PROVE  IInv'
<1>1. UNCHANGED <<setup, phase, data, managed, observed, trap, pc, passes, coll, frozen,
                  ld, prof, running, pins, hist, place, adoption>>
  BY DEF vars
<1>2. ForwardType' /\ HistType' /\ ModelType' /\ PinsType' /\ LoaderType(ld')
  BY <1>1 DEF IInv, TypeInv, ForwardType, HistType, ModelType, PinsType
<1>3. ProfilesType'
  BY <1>1, ProfilesSame
<1>4. PhaseInv' /\ TrapInv' /\ ObservedInv' /\ PinInv' /\ PlaceInv' /\ ModeInv'
  BY <1>1 DEF IInv, PhaseInv, TrapInv, ObservedInv, PinInv, PlaceInv, ModeInv, Pinning
<1>5. AllIds(ld.ids)' = AllIds(ld.ids) /\ AllIds(prof.load)' = AllIds(prof.load) /\ OnGpu' = OnGpu
      /\ AllIds(frozen.ids)' = AllIds(frozen.ids)
  BY <1>1 DEF AllIds, OnGpu
<1>6. CopyInv' /\ CoverInv'
  BY <1>1, <1>5 DEF IInv, CopyInv, CoverInv
<1>7. DataInv'
  BY <1>1, <1>5 DEF IInv, DataInv, Host
<1>8. IdsInv'
  BY <1>1, <1>5 DEF IInv, IdsInv, FrozenFits, Discovered
<1>9. PinnedInv'
  BY <1>1, <1>5 DEF IInv, PinnedInv, Pinning
<1>10. QED
  BY <1>2, <1>3, <1>4, <1>6, <1>7, <1>8, <1>9 DEF IInv, TypeInv

LEMMA NextKeeps ==
  ASSUME IInv, [Next]_vars
  PROVE  IInv'
<1>1. CASE InitializeWarmup \/ PreprocessFails
  BY <1>1, InitializeWarmupKeeps, PreprocessFailsKeeps
<1>2. CASE StartForward \/ Skip \/ FinishForward
  BY <1>2, StartForwardKeeps, SkipKeeps, FinishForwardKeeps
<1>3. CASE \E l \in Labels : EnterTrap(l) \/ \E S \in SUBSET Tensors : EnterFails(l, S)
  BY <1>3, EnterTrapKeeps, EnterFailsKeeps
<1>4. CASE Read \/ ExitTrap \/ BodyRaises \/ TimingFails
  BY <1>4, ReadKeeps, ExitTrapKeeps, BodyRaisesKeeps, TimingFailsKeeps
<1>5. CASE InitializeProfile \/ ProfileRefused \/ ProfileSetupFails
  BY <1>5, InitializeProfileKeeps, ProfileRefusedKeeps, ProfileSetupFailsKeeps
<1>6. CASE InitializeInference \/ InferenceFails \/ InitializeRestored
  BY <1>6, InitializeInferenceKeeps, InferenceFailsKeeps, InitializeRestoredKeeps
<1>7. CASE Plan \/ MigrateStorage \/ PinStorage \/ AdoptionFails \/ RestoreAdopted
  BY <1>7, PlanKeeps, MigrateStorageKeeps, PinStorageKeeps, AdoptionFailsKeeps, RestoreAdoptedKeeps
<1>8. CASE Shutdown \/ ShutdownFails
  BY <1>8, ShutdownKeeps, ShutdownFailsKeeps
<1>9. CASE UNCHANGED vars
  BY <1>9, StutterKeeps
<1>10. QED
  BY <1>1, <1>2, <1>3, <1>4, <1>5, <1>6, <1>7, <1>8, <1>9 DEF Next

(* In every reachable state the inductive invariant holds: which loader a phase
   has, whose copies are counted, where the weights lie, what is registered. *)
THEOREM Invariance == Spec => []IInv
<1>1. Init => IInv
  BY InitHolds
<1>2. IInv /\ [Next]_vars => IInv'
  BY NextKeeps
<1>3. QED
  BY <1>1, <1>2, PTL DEF Spec

-----------------------------------------------------------------------------
(* What follows from it *)

(* The state of a session keeps its types: the weights have one of four places,
   a trap belongs to the layer that runs. *)
THEOREM TypeCorrect == Spec => []TypeOK
<1>1. ASSUME IInv
      PROVE  TypeOK
  <2>1. /\ phase \in Phases /\ data \in [Tensors -> {"host", "gpu", "slot", "blank"}]
        /\ observed \subseteq managed /\ managed \subseteq Tensors
    BY <1>1 DEF IInv, TypeInv, ModelType
  <2>2. /\ trap.label \in Labels \cup {0} /\ trap.todo \subseteq Tensors
        /\ trap.label # 0 => pc = trap.label
        /\ pc \in 0..(Layers + 1) /\ passes \in 0..MaxForwards /\ running \subseteq Labels \X Tensors
    BY <1>1 DEF IInv, TypeInv, ForwardType, TrapInv
  <2>3. /\ ld.kind \in Kinds
        /\ ld.map \cup ld.bound \cup ld.rescued \cup ld.refs \cup ld.pass \cup ld.uncovered \subseteq Tensors
        /\ DOMAIN ld.sched \subseteq Labels /\ DOMAIN ld.events \subseteq Tensors
    BY <1>1 DEF IInv, TypeInv, LoaderType
  <2>4. pins.mode \in {"none", "copy", "in_place"}
    BY <1>1 DEF IInv, TypeInv, PinsType, PinsTyped
  <2>5. QED
    BY <2>1, <2>2, <2>3, <2>4 DEF TypeOK, Phases, Kinds
<1>2. QED
  BY <1>1, Invariance, PTL

(* What the driver has registered is in a registry or known to be lost, and a
   session without failures gives all of it back (host_pinning.py). *)
THEOREM PinsReturn == Spec => []PinsBalance
<1>1. IInv => PinsBalance
  BY DEF IInv, PinInv, Registries, PinsBalance
<1>2. QED
  BY <1>1, Invariance, PTL

(* A discovery or profile trap takes its copies with it, whichever way it ends:
   the counts of the traps and the tensors bound to a copy agree. *)
THEOREM CopiesGoWithTraps == Spec => []NoCopyOutlivesTrap
<1>1. ASSUME IInv, ld.kind \in {"warmup", "layer"}
      PROVE  LET held == IF trap = NoTrap THEN {} ELSE ld.ids[trap.label] \ OnGpu
             IN  ld.map \cup ld.bound \cup {t \in Tensors : ld.count[t] > 0} \subseteq held \cup hist.leaked
  <2> DEFINE held == IF trap = NoTrap THEN {} ELSE ld.ids[trap.label] \ OnGpu
  <2>1. ld.map \subseteq Tensors /\ ld.bound \subseteq Tensors
    BY <1>1 DEF IInv, TypeInv, LoaderType
  <2>2. \A t \in Tensors :
          /\ (ld.count[t] > 0 <=> t \in ld.map) /\ (t \in ld.map <=> t \in ld.bound)
          /\ t \notin hist.leaked /\ ld.count[t] > 0 =>
               trap.label # 0 /\ t \in ld.ids[trap.label] /\ t \notin OnGpu
    BY <1>1 DEF IInv, CopyInv, CopiesHeld, Held
  <2>3. trap.label # 0 => trap # NoTrap
    BY DEF NoTrap
  <2>4. \A t \in Tensors : ld.count[t] > 0 => t \in held \cup hist.leaked
    BY <2>2, <2>3
  <2>5. QED
    BY <2>1, <2>2, <2>4
<1>2. IInv => NoCopyOutlivesTrap
  BY <1>1 DEF NoCopyOutlivesTrap
<1>3. QED
  BY <1>2, Invariance, PTL

(* Out of the slots of a block, and back on the host when all is over, unless
   it was promoted, left behind by a failed enter or lost. *)
THEOREM WeightsReturn == Spec => []WeightsComeBack
<1>1. IInv => WeightsComeBack
  BY DEF IInv, PhaseInv, DataInv, Host, WeightsComeBack
<1>2. QED
  BY <1>1, Invariance, PTL

(* What a strategy loader copies ahead lies in pinned host memory, after a
   session of its own and after an adoption. *)
THEOREM PinnedLoads == Spec => []LoadsFromPinnedHost
<1>1. ASSUME IInv, ld.kind = "strategy", NEW t \in AllIds(ld.load) \ (observed \cup hist.leaked)
      PROVE  (data[t] = "host" \/ t \in hist.lost) /\ (Pinning # "none" => IsPinned(pins, StorageOf(t)))
  <2>1. phase \in {"infer", "broken"} /\ ld.load = prof.load /\ prof.loader = "strategy"
    BY <1>1 DEF IInv, TypeInv, ModelType, Phases, PhaseInv
  <2>2. t \in AllIds(prof.load) /\ t \in Tensors
    <3>1. ld.load \in IdsType
      BY <1>1 DEF IInv, TypeInv, LoaderType
    <3>2. QED
      BY <2>1, <3>1, IdsFacts
  <2>3. data[t] = "host" \/ t \in hist.lost
    BY <1>1, <2>1, <2>2 DEF IInv, DataInv, Host
  <2>4. CASE setup.profile = NoProfile
    <3>1. ~setup.blocks
      BY <1>1, <2>1, <2>4, NoProfileFacts DEF IInv, PhaseInv
    <3>2. QED
      BY <1>1, <2>2, <2>3, <2>4, <3>1 DEF IInv, PinnedInv, StorageOf
  <2>5. CASE setup.profile # NoProfile
    BY <1>1, <2>1, <2>2, <2>3, <2>5 DEF IInv, PinnedInv, StorageOf
  <2>6. QED
    BY <2>4, <2>5
<1>2. IInv => LoadsFromPinnedHost
  BY <1>1 DEF LoadsFromPinnedHost
<1>3. QED
  BY <1>2, Invariance, PTL

-----------------------------------------------------------------------------
(* What a layer reads.  Excused are the reads that ReadsOwnWeights names. *)
ReadRight(t) ==
  \/ Got(t) = "own"
  \/ /\ Got(t) = "host" /\ setup.mode = "torch_function"
     /\ ~Known(t) \/ hist.incomplete \/ ReadElsewhere(t) \/ RecordedLate(trap.label)
  \/ Got(t) = "stale" /\ ~Known(t)
  \/ Got(t) = "unwaited" /\ t \in hist.dropped
  \/ Got(t) = "blank" /\ t \in hist.lost

LEMMA OwnIsRight ==
  ASSUME NEW t, Got(t) = Own(t)
  PROVE  ReadRight(t)
  BY DEF ReadRight, Own

(* A host tensor that no layer's copy stands for is traced, and promoted. *)
LEMMA HostIsTraced ==
  ASSUME IInv, phase \in {"profile", "infer"}, setup.mode # "view" \/ phase = "infer",
         NEW t \in Tensors, data[t] = "host", ld.kind \in {"layer", "strategy"}
  PROVE  ThroughLoader(t)
<1>1. t \in managed /\ t \notin observed
  BY DEF IInv, DataInv, ObservedInv
<1>2. QED
  BY <1>1 DEF ThroughLoader, Traced

LEMMA ReadsInLayers ==
  ASSUME IInv, NEW t \in trap.todo, ld.kind = "layer"
  PROVE  ReadRight(t)
<1>1. /\ t \in Tensors /\ trap.label \in Labels /\ trap.label # 0 /\ phase = "profile"
      /\ setup.mode # "view"
  BY ReadsInTrap, LayersFacts DEF IInv, PhaseInv
<1>2. /\ data[t] \in {"host", "gpu", "blank"} /\ (data[t] = "blank" => t \in hist.lost)
      /\ ld.refs \subseteq OnGpu /\ (t \in ld.map <=> t \in ld.bound)
      /\ t \in ld.ids[trap.label] \ OnGpu => t \in ld.map
  <2>1. data[t] \in {"host", "gpu", "slot", "blank"}
    BY <1>1 DEF IInv, TypeInv, ModelType
  <2>2. data[t] # "slot" /\ (data[t] = "blank" => t \in hist.lost)
    BY <1>1 DEF IInv, DataInv
  <2>3. /\ ld.refs \subseteq OnGpu /\ (t \in ld.map <=> t \in ld.bound)
        /\ t \in ld.ids[trap.label] \ OnGpu => t \in ld.map
    BY <1>1 DEF IInv, CopyInv, CopiesHeld, Held
  <2>4. QED
    BY <2>1, <2>2, <2>3
<1>3. t \in ld.bound \/ data[t] = "gpu" => Plain(t) = Own(t)
  BY DEF Plain
<1>4. CASE ThroughLoader(t) /\ LoaderGet(t) # "none"
  <2>1. Got(t) = LoaderGet(t)
    BY <1>4 DEF Got
  <2>2. LoaderGet(t) = Own(t)
    <3>1. t \in ld.refs => Plain(t) = Own(t)
      BY <1>2, <1>3 DEF OnGpu
    <3>2. QED
      BY <1>4, <3>1 DEF LoaderGet
  <2>3. QED
    BY <2>1, <2>2, OwnIsRight
<1>5. CASE ~(ThroughLoader(t) /\ LoaderGet(t) # "none") /\ Promoted(t)
  BY <1>5, OwnIsRight DEF Got
<1>6. CASE ~(ThroughLoader(t) /\ LoaderGet(t) # "none") /\ ~Promoted(t)
  <2>1. Got(t) = Plain(t)
    BY <1>6 DEF Got
  <2>2. CASE t \in ld.bound \/ data[t] = "gpu"
    BY <1>3, <2>1, <2>2, OwnIsRight
  <2>3. CASE t \notin ld.bound /\ data[t] = "blank"
    <3>1. Plain(t) = "blank"
      BY <2>3 DEF Plain
    <3>2. QED
      BY <1>2, <2>1, <2>3, <3>1 DEF ReadRight
  <2>4. CASE t \notin ld.bound /\ data[t] = "host"
    <3>1. Plain(t) = "host"
      BY <2>4 DEF Plain
    <3>2. ThroughLoader(t)
      BY <1>1, <2>4, HostIsTraced
    <3>3. setup.mode = "torch_function"
      BY <1>6, <2>4, <3>2 DEF Promoted
    <3>4. ~Known(t)
      BY <1>2, <2>4 DEF Known, OnGpu
    <3>5. QED
      BY <2>1, <3>1, <3>3, <3>4 DEF ReadRight
  <2>5. QED
    BY <1>2, <2>2, <2>3, <2>4
<1>7. QED
  BY <1>4, <1>5, <1>6

LEMMA ReadsInViews ==
  ASSUME IInv, NEW t \in trap.todo, ld.kind = "view"
  PROVE  ReadRight(t)
<1>1. t \in Tensors /\ trap.label \in Labels /\ trap.label # 0
  BY ReadsInTrap, LayersFacts
<1>2. data[t] = "gpu" \/ (data[t] = "slot" /\ t \notin ld.bound)
  BY <1>1 DEF IInv, DataInv, CopyInv, Held
<1>3. Got(t) = Plain(t)
  BY DEF Got, ThroughLoader, Promoted
<1>4. CASE data[t] = "gpu"
  BY <1>3, <1>4, OwnIsRight DEF Plain
<1>5. CASE data[t] = "slot" /\ t \notin ld.bound
  <2>1. Plain(t) = IF ~SlotHolds(ld, t) THEN "stale" ELSE Own(t)
    BY <1>5 DEF Plain
  <2>2. CASE SlotHolds(ld, t)
    BY <1>3, <2>1, <2>2, OwnIsRight
  <2>3. CASE ~SlotHolds(ld, t)
    <3>1. ~Known(t)
      <4>1. ASSUME t \in ld.ids[trap.label]
            PROVE  SlotHolds(ld, t)
        <5>1. CASE t \in SharedIds(ld.ids)
          BY <5>1 DEF SlotHolds
        <5>2. CASE t \notin SharedIds(ld.ids)
          <6>1. t \in Slots(ld.ids, trap.label)
            BY <4>1, <5>2 DEF Slots
          <6>2. ld.at = trap.label
            BY <1>1, <6>1 DEF IInv, IdsInv
          <6>3. QED
            BY <1>1, <6>1, <6>2 DEF SlotHolds
        <5>3. QED
          BY <5>1, <5>2
      <4>2. QED
        BY <2>3, <4>1 DEF Known
    <3>2. QED
      BY <1>3, <2>1, <2>3, <3>1 DEF ReadRight
  <2>4. QED
    BY <2>2, <2>3
<1>6. QED
  BY <1>2, <1>4, <1>5

LEMMA ReadsInBlocks ==
  ASSUME IInv, NEW t \in trap.todo, ld.kind = "blocks"
  PROVE  ReadRight(t)
<1>1. t \in Tensors /\ phase = "infer" /\ ld.bound = {}
  BY ReadsInTrap DEF IInv, CopyInv, Held
<1>2. data[t] \in {"gpu", "slot"}
  BY <1>1 DEF IInv, DataInv
<1>3. Got(t) = Plain(t)
  BY DEF Got, ThroughLoader, Promoted
<1>4. Plain(t) = Own(t)
  BY <1>1, <1>2 DEF Plain
<1>5. QED
  BY <1>3, <1>4, OwnIsRight

-----------------------------------------------------------------------------
(* The kernels keep their copies: which labels have entered since a layer left,
   in the forward under way or the one before. *)
Underway(m) == m < pc \/ m = trap.label
EnteredSince(l) == {m \in Labels : IF l < pc THEN l < m /\ Underway(m) ELSE l < m \/ Underway(m)}

(* A label releases what it reads of what is copied, and is in the order. *)
ReleasesFit(order, ids, load, release) ==
  /\ order \in Seq(Labels)
  /\ \A l \in Labels : release[l] = ids[l] \cap AllIds(load)
  /\ \A l \in Labels : ids[l] # {} => \E i \in DOMAIN order : order[i] = l
PlanFits(d) == ReleasesFit(d.order, d.ids, d.load, d.release)

(* The one layer that reads a tensor has no release scheduled once a label that
   copies the tensor has entered, and one that is scheduled waits for every
   kernel of the layer; a tensor without a copy has a label yet to enter that
   copies it before it is read. *)
SoleReader(d, l, t) == {m \in Labels : t \in d.ids[m]} = {l}
KernelHolds(l, t) ==
  /\ l \in DOMAIN ld.sched => \A m \in EnteredSince(l) : t \notin ld.load[m]
  /\ <<l, t>> \in running =>
       /\ t \in ld.map
       /\ l \in DOMAIN ld.sched /\ t \in AllIds(ld.load) => <<l, t>> \in ld.sched[l]
  /\ t \in managed \ ld.map /\ ~RecordedLate(l) =>
       \E m \in Labels \ EnteredSince(l) : t \in ld.load[m]
KernelInv == \A l \in Labels, t \in Tensors : SoleReader(ld, l, t) => KernelHolds(l, t)

RunInv ==
  /\ coll.seen \in Seq(Labels)
  /\ IF ld.kind = "strategy" THEN PlanFits(ld) /\ (hist.incomplete \/ KernelInv) ELSE running = {}

-----------------------------------------------------------------------------
(* Orders *)
LEMMA GreatestOfSet ==
  ASSUME NEW n \in Nat, NEW S, S \subseteq 1..n, S # {}
  PROVE  Max(S) \in S
<1> DEFINE T == {n - i : i \in S}
<1>1. T \subseteq Nat /\ T # {}
  <2>1. \A i \in S : i \in Nat /\ n - i \in Nat
    OBVIOUS
  <2>2. QED
    BY <2>1
<1>2. PICK m \in T : \A k \in T : ~(<<k, m>> \in OpToRel(<, Nat))
  BY <1>1, WFMin, NatLessThanWellFounded
<1>3. \A k \in T : ~(k < m)
  BY <1>1, <1>2 DEF OpToRel
<1>4. PICK i \in S : m = n - i
  BY <1>2
<1>5. \A j \in S : n - j \in T
  OBVIOUS
<1> HIDE DEF T
<1>6. \A j \in S : ~(n - j < n - i)
  BY <1>3, <1>4, <1>5
<1>7. \A j \in S : i >= j
  BY <1>6
<1>8. QED
  BY <1>4, <1>7 DEF Max

(* Kept lists what it keeps, and nothing else. *)
LEMMA KeptFacts ==
  ASSUME NEW s \in Seq(Labels), NEW S
  PROVE  /\ Kept(s, S) \in Seq(Labels)
         /\ \A i \in DOMAIN s : s[i] \in S => \E n \in DOMAIN Kept(s, S) : Kept(s, S)[n] = s[i]
<1> DEFINE at == {i \in DOMAIN s : s[i] \in S}
           upTo(i) == {j \in at : j <= i}
           C == Cardinality(at)
           pick(n) == CHOOSE i \in at : Cardinality(upTo(i)) = n
<1>1. DOMAIN s = 1..Len(s) /\ Len(s) \in Nat /\ at \subseteq 1..Len(s)
  OBVIOUS
<1>2. IsFiniteSet(at) /\ C \in Nat
  <2>1. at \in SUBSET (1..Len(s)) /\ IsFiniteSet(1..Len(s))
    BY <1>1, FS_Interval
  <2> HIDE DEF at
  <2>2. QED
    BY <2>1, FS_Subset, FS_CardinalityType
<1>3. Kept(s, S) = [n \in 1..C |-> s[pick(n)]]
  BY DEF Kept
<1>4. \A i \in at : IsFiniteSet(upTo(i)) /\ Cardinality(upTo(i)) \in 1..C
  <2> TAKE i \in at
  <2>1. upTo(i) \in SUBSET at /\ i \in upTo(i)
    BY <1>1
  <2>2. IsFiniteSet(upTo(i)) /\ Cardinality(upTo(i)) <= C
    BY <1>2, <2>1, FS_Subset
  <2>3. Cardinality(upTo(i)) \in Nat /\ Cardinality(upTo(i)) # 0
    BY <2>1, <2>2, FS_CardinalityType, FS_EmptySet
  <2> HIDE DEF at, upTo, C
  <2>4. QED
    BY <1>2, <2>2, <2>3
<1>5. \A i, k \in at : Cardinality(upTo(i)) = Cardinality(upTo(k)) => i = k
  <2>1. \A i, k \in at : i < k => Cardinality(upTo(i)) # Cardinality(upTo(k))
    <3> SUFFICES ASSUME NEW i \in at, NEW k \in at, i < k, Cardinality(upTo(i)) = Cardinality(upTo(k))
                 PROVE  FALSE
      OBVIOUS
    <3>1. upTo(i) \in SUBSET upTo(k) /\ k \in upTo(k) /\ k \notin upTo(i)
      BY <1>1
    <3>2. IsFiniteSet(upTo(k))
      BY <1>4
    <3> HIDE DEF upTo
    <3>3. upTo(k) = upTo(i)
      BY <3>1, <3>2, FS_Subset
    <3>4. QED
      BY <3>1, <3>3
  <2> SUFFICES ASSUME NEW i \in at, NEW k \in at, Cardinality(upTo(i)) = Cardinality(upTo(k))
               PROVE  i = k
    OBVIOUS
  <2>2. ~(i < k) /\ ~(k < i)
    BY <2>1
  <2>3. i \in 1..Len(s) /\ k \in 1..Len(s)
    BY <1>1
  <2> HIDE DEF upTo, at
  <2>4. QED
    BY <1>1, <2>2, <2>3
<1>6. \A i \in at : pick(Cardinality(upTo(i))) = i
  <2> TAKE i \in at
  <2> DEFINE n == Cardinality(upTo(i))
  <2>1. \E k \in at : Cardinality(upTo(k)) = n
    OBVIOUS
  <2>2. pick(n) \in at /\ Cardinality(upTo(pick(n))) = n
    <3> HIDE DEF n, at, upTo
    <3>1. QED
      BY <2>1
  <2>3. QED
    BY <1>5, <2>2
<1>7. \A n \in 1..C : s[pick(n)] \in Labels
  <2> DEFINE f == [i \in at |-> Cardinality(upTo(i))]
  <2>1. f \in [at -> 1..C] /\ \A i, k \in at : f[i] = f[k] => i = k
    BY <1>4, <1>5
  <2>2. f \in Injection(at, 1..C)
    <3> HIDE DEF f, at
    <3>1. QED
      BY <2>1 DEF Injection, IsInjective
  <2>3. IsFiniteSet(1..C) /\ Cardinality(1..C) = C
    BY <1>2, FS_Interval
  <2>4. f \in Surjection(at, 1..C)
    <3> HIDE DEF f, at
    <3>1. QED
      BY <2>2, <2>3, FS_Injection
  <2>5. \A n \in 1..C : \E i \in at : f[i] = n
    <3> HIDE DEF f, at
    <3>1. QED
      BY <2>4 DEF Surjection
  <2>6. \A n \in 1..C : \E i \in at : Cardinality(upTo(i)) = n
    BY <2>5
  <2>7. \A n \in 1..C : pick(n) \in at
    <3> HIDE DEF at, upTo
    <3>1. QED
      BY <2>6
  <2>8. \A i \in at : s[i] \in Labels
    BY <1>1
  <2> HIDE DEF at, pick, C
  <2>9. QED
    BY <2>7, <2>8
<1> HIDE DEF pick
<1>8. Kept(s, S) \in Seq(Labels) /\ DOMAIN Kept(s, S) = 1..C
  BY <1>2, <1>3, <1>7
<1>9. ASSUME NEW i \in DOMAIN s, s[i] \in S
      PROVE  \E n \in DOMAIN Kept(s, S) : Kept(s, S)[n] = s[i]
  <2> DEFINE n == Cardinality(upTo(i))
  <2>1. i \in at
    BY <1>9
  <2>2. n \in 1..C /\ pick(n) = i
    BY <1>4, <1>6, <2>1
  <2> HIDE DEF n, at
  <2>3. QED
    BY <1>3, <1>8, <2>2
<1>10. QED
  BY <1>8, <1>9

(* The last release of a tensor that one layer reads is that layer's. *)
LEMMA LastRelease ==
  ASSUME NEW d, PlanFits(d), NEW l \in Labels, NEW t, SoleReader(d, l, t), t \in AllIds(d.load),
         NEW S, t \in S
  PROVE  l \in ReleaseLabels(d, S)
<1> DEFINE I == {i \in DOMAIN d.order : t \in d.release[d.order[i]]}
<1>1. d.order \in Seq(Labels) /\ t \in d.ids[l]
  BY DEF PlanFits, ReleasesFit, SoleReader
<1>2. DOMAIN d.order = 1..Len(d.order) /\ Len(d.order) \in Nat /\ \A i \in DOMAIN d.order : d.order[i] \in Labels
  BY <1>1
<1>3. \A i \in DOMAIN d.order : t \in d.release[d.order[i]] <=> d.order[i] = l
  BY <1>1, <1>2 DEF PlanFits, ReleasesFit, SoleReader
<1>4. I # {}
  BY <1>1, <1>3 DEF PlanFits, ReleasesFit
<1>5. Max(I) \in I
  BY <1>2, <1>4, GreatestOfSet
<1>6. d.order[Max(I)] = l
  BY <1>3, <1>5
<1>7. QED
  BY <1>6 DEF ReleaseLabels

-----------------------------------------------------------------------------
(* What the operations of a strategy loader do to its map and its schedule *)
SamePlan(d, e) ==
  /\ e.kind = d.kind /\ e.ids = d.ids /\ e.order = d.order /\ e.load = d.load /\ e.release = d.release

LEMMA SamePlanFits ==
  ASSUME NEW d, NEW e, SamePlan(d, e), PlanFits(d)
  PROVE  PlanFits(e) /\ \A l, t : SoleReader(e, l, t) <=> SoleReader(d, l, t)
  BY DEF SamePlan, PlanFits, SoleReader

LEMMA EnterSchedule ==
  ASSUME NEW d, LoaderType(d), NEW l \in Labels
  PROVE  LET e == StrategyEnter(d, l)
         IN  /\ SamePlan(d, e) /\ d.map \cup d.load[l] \subseteq e.map
             /\ DOMAIN e.sched \subseteq DOMAIN d.sched
             /\ \A k \in DOMAIN e.sched : e.sched[k] = d.sched[k]
             /\ d.load[l] # {} => DOMAIN e.sched \cap ReleaseLabels(d, d.load[l]) = {}
<1> DEFINE e == StrategyEnter(d, l)
<1>1. CASE d.load[l] = {}
  <2>1. e = d
    BY <1>1 DEF StrategyEnter
  <2>2. QED
    BY <1>1, <2>1 DEF SamePlan
<1>2. CASE d.load[l] # {}
  <2> DEFINE load == d.load[l]
             gone == ReleaseLabels(d, load)
             flight == d.uncovered \cup (load \ d.map)
             sched == Without(d.sched, gone)
             events == [t \in DOMAIN d.events \cup load |-> IF t \in load THEN flight ELSE d.events[t]]
  <2>1. e = [d EXCEPT !.sched = sched, !.map = d.map \cup load, !.uncovered = flight, !.events = events]
    BY <1>2 DEF StrategyEnter
  <2>2. DOMAIN sched = DOMAIN d.sched \ gone /\ \A k \in DOMAIN sched : sched[k] = d.sched[k]
    BY DEF Without, Restrict
  <2> HIDE DEF e, load, gone, flight, sched, events
  <2>3. SamePlan(d, e) /\ e.sched = sched /\ e.map = d.map \cup load
    BY <2>1 DEF LoaderType, SamePlan
  <2>4. QED
    BY <2>2, <2>3 DEF e, load, gone
<1>3. QED
  BY <1>1, <1>2

LEMMA EnterFailsSchedule ==
  ASSUME NEW d, LoaderType(d), NEW l \in Labels, NEW S
  PROVE  SamePlan(d, StrategyEnterFails(d, l, S))
<1> DEFINE e == StrategyEnterFails(d, l, S)
           sched == Without(d.sched, ReleaseLabels(d, d.load[l]))
<1>1. e = [d EXCEPT !.sched = sched, !.map = d.map \cup S, !.uncovered = d.uncovered \cup (S \ d.map)]
  BY DEF StrategyEnterFails
<1> HIDE DEF e, sched
<1>2. SamePlan(d, e)
  BY <1>1 DEF LoaderType, SamePlan
<1>3. QED
  BY <1>2 DEF e

LEMMA GetSchedule ==
  ASSUME NEW d, LoaderType(d), NEW t
  PROVE  LET e == StrategyGet(d, t)
         IN  SamePlan(d, e) /\ e.map = d.map /\ e.sched = d.sched /\ LoaderType(e)
<1> DEFINE e == StrategyGet(d, t)
<1>1. CASE t \notin DOMAIN d.events
  <2>1. e = d
    BY <1>1 DEF StrategyGet
  <2>2. QED
    BY <2>1 DEF SamePlan
<1>2. CASE t \in DOMAIN d.events
  <2> DEFINE events == Without(d.events, {t})
             flight == d.uncovered \ d.events[t]
  <2>1. e = [d EXCEPT !.uncovered = flight, !.events = events]
    BY <1>2 DEF StrategyGet
  <2>2. DOMAIN events \subseteq DOMAIN d.events /\ flight \subseteq d.uncovered
    BY DEF Without, Restrict
  <2> HIDE DEF e, events, flight
  <2>3. SamePlan(d, e) /\ e.map = d.map /\ e.sched = d.sched
    BY <2>1 DEF LoaderType, SamePlan
  <2>4. LoaderType(e)
    BY <2>1, <2>2 DEF LoaderType
  <2>5. QED
    BY <2>3, <2>4 DEF e
<1>3. QED
  BY <1>1, <1>2

(* what a release_memory frees, at most *)
Freeable(d, after) == UNION {d.release[l] : l \in PassedLabels(d, after)}

LEMMA ReleaseSchedule ==
  ASSUME NEW d, LoaderType(d), NEW after
  PROVE  LET e == StrategyReleaseMemory(d, after)
         IN  /\ SamePlan(d, e) /\ LoaderType(e)
             /\ d.map \ Freeable(d, after) \subseteq e.map
             /\ DOMAIN e.sched = DOMAIN d.sched \ PassedLabels(d, after)
             /\ \A l \in DOMAIN e.sched :
                  {k \in d.sched[l] : k[2] \notin Freeable(d, after)} \subseteq e.sched[l]
<1> DEFINE e == StrategyReleaseMemory(d, after)
           passed == PassedLabels(d, after)
           freed == (d.map \cap Freeable(d, after)) \ d.pass
           rest == Without(d.sched, passed)
           sched == [l \in DOMAIN rest |-> {k \in rest[l] : k[2] \notin freed}]
           events == Without(d.events, Dropped(d, after))
<1>1. e = [d EXCEPT !.map = d.map \ freed, !.uncovered = d.uncovered \ freed, !.events = events, !.sched = sched]
  BY DEF StrategyReleaseMemory, Freeable
<1>2. /\ DOMAIN sched = DOMAIN d.sched \ passed
      /\ \A l \in DOMAIN sched : sched[l] = {k \in d.sched[l] : k[2] \notin freed}
  BY DEF Without, Restrict
<1>3. DOMAIN events \subseteq DOMAIN d.events
  BY DEF Without, Restrict
<1>4. freed \subseteq Freeable(d, after)
  OBVIOUS
<1> HIDE DEF e, passed, freed, rest, sched, events
<1>5. SamePlan(d, e) /\ e.map = d.map \ freed /\ e.sched = sched
  BY <1>1 DEF LoaderType, SamePlan
<1>6. LoaderType(e)
  BY <1>1, <1>2, <1>3 DEF LoaderType
<1>7. QED
  BY <1>2, <1>4, <1>5, <1>6 DEF e, passed

LEMMA ExitSchedule ==
  ASSUME NEW d, LoaderType(d), NEW l \in Labels, NEW before, NEW after
  PROVE  LET e == StrategyExit(d, l, before, after)
         IN  /\ SamePlan(d, e)
             /\ d.map \ Freeable(d, after) \subseteq e.map
             /\ DOMAIN e.sched \subseteq (DOMAIN d.sched \ PassedLabels(d, after)) \cup {l}
             /\ l \in DOMAIN e.sched /\ d.release[l] # {} => e.sched[l] = before
             /\ \A m \in DOMAIN e.sched \ {l} :
                  {k \in d.sched[m] : k[2] \notin Freeable(d, after)} \subseteq e.sched[m]
<1> DEFINE e == StrategyExit(d, l, before, after)
           r == StrategyReleaseMemory(d, after)
           sched == [k \in DOMAIN r.sched \cup {l} |-> IF k = l THEN before ELSE r.sched[k]]
<1>1. /\ SamePlan(d, r) /\ LoaderType(r)
      /\ d.map \ Freeable(d, after) \subseteq r.map
      /\ DOMAIN r.sched = DOMAIN d.sched \ PassedLabels(d, after)
      /\ \A m \in DOMAIN r.sched :
           {k \in d.sched[m] : k[2] \notin Freeable(d, after)} \subseteq r.sched[m]
  BY ReleaseSchedule
<1>2. e = IF d.release[l] = {} THEN r ELSE [r EXCEPT !.sched = sched]
  BY DEF StrategyExit
<1>3. DOMAIN sched = DOMAIN r.sched \cup {l} /\ sched[l] = before
      /\ \A m \in DOMAIN sched \ {l} : sched[m] = r.sched[m]
  OBVIOUS
<1> HIDE DEF e, r, sched
<1>4. CASE d.release[l] = {}
  <2>1. e = r
    BY <1>2, <1>4
  <2>2. QED
    BY <1>1, <1>4, <2>1 DEF e
<1>5. CASE d.release[l] # {}
  <2>1. e = [r EXCEPT !.sched = sched]
    BY <1>2, <1>5
  <2>2. SamePlan(d, e) /\ e.map = r.map /\ e.sched = sched
    BY <1>1, <2>1 DEF LoaderType, SamePlan
  <2>3. QED
    BY <1>1, <1>3, <2>2 DEF e
<1>6. QED
  BY <1>4, <1>5

-----------------------------------------------------------------------------
(* Steps *)
LEMMA RunTyped ==
  ASSUME IInv
  PROVE  /\ LoaderType(ld) /\ ld.load \in IdsType
         /\ pc \in Nat /\ pc \in 0..(Layers + 1)
         /\ trap.label \in Labels \cup {0} /\ (trap.label # 0 => pc = trap.label)
         /\ \A l \in Labels : l \in Nat /\ l > 0 /\ l <= Layers
         /\ trap = NoTrap => trap.label = 0
  BY LayersFacts, NoTrapTyped DEF IInv, TypeInv, ForwardType, TrapInv, LoaderType

(* a step that leaves the loader, the kernels and the forward alone *)
LEMMA RunUndisturbed ==
  ASSUME RunInv, coll'.seen \in Seq(Labels), UNCHANGED <<ld, running, trap, pc, managed>>,
         hist.incomplete => hist'.incomplete
  PROVE  RunInv'
<1>1. KernelInv => KernelInv'
  BY DEF KernelInv, KernelHolds, EnteredSince, Underway, SoleReader, AllIds, RecordedLate
<1>2. PlanFits(ld) => PlanFits(ld')
  OBVIOUS
<1>3. QED
  BY <1>1, <1>2 DEF RunInv

(* a step without a strategy loader *)
LEMMA RunIdle ==
  ASSUME RunInv, ld.kind # "strategy", ld'.kind # "strategy", running' \subseteq running,
         coll'.seen \in Seq(Labels)
  PROVE  RunInv'
<1>1. running' = {}
  BY DEF RunInv
<1>2. QED
  BY <1>1 DEF RunInv

LEMMA FailKeepsFlag ==
  ASSUME IInv
  PROVE  Fail(hist).incomplete = hist.incomplete
  BY DEF IInv, TypeInv, HistType, Fail

(* the forward moves on without a trap, over a layer that copies nothing *)
LEMMA ForwardMoves ==
  ASSUME IInv, RunInv, trap = NoTrap, UNCHANGED <<ld, running, trap, coll, managed>>,
         \/ pc = 0 /\ pc' = 1
         \/ pc = Layers + 1 /\ pc' = 0
         \/ pc \in Labels /\ pc' = pc + 1 /\ (hist'.incomplete \/ ld.load[pc] = {}),
         hist.incomplete => hist'.incomplete
  PROVE  RunInv'
<1>1. CASE hist'.incomplete
  BY <1>1 DEF RunInv
<1>2. CASE ~hist'.incomplete
  <2>1. \A l \in Labels : \A m \in EnteredSince(l)' : m \in EnteredSince(l) \/ ld.load[m] = {}
    <3>1. /\ trap.label = 0 /\ trap'.label = 0 /\ pc \in Nat /\ Layers \in Nat
          /\ \A l \in Labels : l \in Nat /\ l > 0 /\ l <= Layers
      BY RunTyped, LayersFacts
    <3>2. CASE pc = 0 /\ pc' = 1
      BY <3>1, <3>2 DEF EnteredSince, Underway
    <3>3. CASE pc = Layers + 1 /\ pc' = 0
      BY <3>1, <3>3 DEF EnteredSince, Underway
    <3>4. CASE pc \in Labels /\ pc' = pc + 1 /\ ld.load[pc] = {}
      <4>1. \A l \in Labels : \A m \in EnteredSince(l)' : m \in EnteredSince(l) \/ m = pc
        BY <3>1, <3>4 DEF EnteredSince, Underway
      <4>2. QED
        BY <3>4, <4>1
    <3>5. QED
      BY <1>2, <3>2, <3>3, <3>4
  <2>2. KernelInv => KernelInv'
    <3> SUFFICES ASSUME KernelInv, NEW l \in Labels, NEW t \in Tensors, SoleReader(ld', l, t)
                 PROVE  KernelHolds(l, t)'
      BY DEF KernelInv
    <3>1. KernelHolds(l, t)
      BY DEF KernelInv
    <3>2. AllIds(ld.load)' = AllIds(ld.load)
      BY DEF AllIds
    <3>3. l \in DOMAIN ld.sched => \A m \in EnteredSince(l)' : t \notin ld.load[m]
      BY <2>1, <3>1 DEF KernelHolds
    <3>4. t \in managed \ ld.map /\ ~RecordedLate(l) =>
            \E m \in Labels \ EnteredSince(l)' : t \in ld.load[m]
      BY <2>1, <3>1 DEF KernelHolds
    <3>5. RecordedLate(l)' <=> RecordedLate(l)
      BY DEF RecordedLate
    <3>6. QED
      BY <3>1, <3>2, <3>3, <3>4, <3>5 DEF KernelHolds
  <2>3. QED
    BY <1>2, <2>2 DEF RunInv
<1>3. QED
  BY <1>1, <1>2

LEMMA RunForward ==
  ASSUME IInv, RunInv, StartForward \/ Skip \/ FinishForward
  PROVE  RunInv'
<1>1. CASE StartForward
  <2>1. trap = NoTrap
    BY <1>1, LayersFacts DEF StartForward, IInv, TrapInv
  <2>2. pc = 0 /\ pc' = 1 /\ hist' = hist /\ UNCHANGED <<ld, running, trap, coll, managed>>
    BY <1>1 DEF StartForward, profileVars, modelVars
  <2>3. QED
    BY <2>1, <2>2, ForwardMoves
<1>2. CASE Skip
  <2>1. /\ trap = NoTrap /\ pc \in Labels /\ pc' = pc + 1 /\ UNCHANGED <<ld, running, trap, coll, managed>>
        /\ hist' = [hist EXCEPT !.incomplete = hist.incomplete \/ ld.load[pc] # {}]
    BY <1>2 DEF Skip, profileVars, modelVars
  <2>2. hist'.incomplete = (hist.incomplete \/ ld.load[pc] # {})
    BY <2>1 DEF IInv, TypeInv, HistType
  <2>3. QED
    BY <2>1, <2>2, ForwardMoves
<1>3. CASE FinishForward
  <2>1. trap = NoTrap
    <3>1. pc = Layers + 1
      BY <1>3 DEF FinishForward
    <3>2. trap.label = 0
      BY <3>1, RunTyped, LayersFacts
    <3>3. QED
      BY <3>2 DEF IInv, TrapInv
  <2>2. pc = Layers + 1 /\ pc' = 0 /\ hist' = hist /\ UNCHANGED <<ld, running, trap, coll, managed>>
    BY <1>3 DEF FinishForward, profileVars, modelVars
  <2>3. QED
    BY <2>1, <2>2, ForwardMoves
<1>4. QED
  BY <1>1, <1>2, <1>3

(* __enter__ takes back the releases of what it copies *)
LEMMA RunEnter ==
  ASSUME IInv, RunInv, NEW l \in Labels, EnterTrap(l)
  PROVE  RunInv'
<1>1. /\ pc = l /\ trap = NoTrap /\ trap'.label = l /\ ld' = LoaderEnter(l)
      /\ hist' = [hist EXCEPT !.dropped = hist.dropped \ ld.load[l]]
      /\ UNCHANGED <<pc, running, coll, managed>>
  BY DEF EnterTrap, profileVars, modelVars
<1>2. hist'.incomplete = hist.incomplete
  BY <1>1 DEF IInv, TypeInv, HistType
<1>3. CASE ld.kind # "strategy"
  <2>1. ld'.kind = ld.kind
    BY <1>1, LoaderEnterFacts, NoTrapTyped
  <2>2. QED
    BY <1>1, <1>3, <2>1, RunIdle DEF RunInv
<1>4. CASE ld.kind = "strategy"
  <2>1. ld' = StrategyEnter(ld, l)
    BY <1>1, <1>4 DEF LoaderEnter
  <2>2. /\ SamePlan(ld, ld') /\ ld.map \cup ld.load[l] \subseteq ld'.map
        /\ DOMAIN ld'.sched \subseteq DOMAIN ld.sched
        /\ \A k \in DOMAIN ld'.sched : ld'.sched[k] = ld.sched[k]
        /\ ld.load[l] # {} => DOMAIN ld'.sched \cap ReleaseLabels(ld, ld.load[l]) = {}
    BY <2>1, RunTyped, EnterSchedule
  <2>3. PlanFits(ld) /\ PlanFits(ld') /\ \A k, t : SoleReader(ld', k, t) <=> SoleReader(ld, k, t)
    BY <1>4, <2>2, SamePlanFits DEF RunInv
  <2>4. AllIds(ld.load)' = AllIds(ld.load)
    BY <2>2 DEF AllIds, SamePlan
  <2>5. \A k \in Labels : \A m \in EnteredSince(k)' : m \in EnteredSince(k) \/ m = l
    BY <1>1, RunTyped DEF EnteredSince, Underway
  <2>6. KernelInv => KernelInv'
    <3> SUFFICES ASSUME KernelInv, NEW k \in Labels, NEW t \in Tensors, SoleReader(ld', k, t)
                 PROVE  KernelHolds(k, t)'
      BY DEF KernelInv
    <3>1. SoleReader(ld, k, t) /\ KernelHolds(k, t)
      BY <2>3 DEF KernelInv
    <3>2. t \in ld.load[l] => k \notin DOMAIN ld'.sched
      <4>1. t \in ld.load[l] => t \in AllIds(ld.load)
        BY DEF AllIds
      <4>2. QED
        BY <2>2, <2>3, <3>1, <4>1, LastRelease
    <3>3. k \in DOMAIN ld'.sched => \A m \in EnteredSince(k)' : t \notin ld'.load[m]
      BY <2>2, <2>5, <3>1, <3>2 DEF KernelHolds, SamePlan
    <3>4. t \in managed' \ ld'.map /\ ~RecordedLate(k)' =>
            \E m \in Labels \ EnteredSince(k)' : t \in ld'.load[m]
      BY <1>1, <2>2, <2>5, <3>1 DEF KernelHolds, RecordedLate, SamePlan
    <3>5. QED
      BY <1>1, <2>2, <2>4, <3>1, <3>3, <3>4 DEF KernelHolds
  <2>7. QED
    BY <1>1, <1>2, <1>4, <2>2, <2>3, <2>6 DEF RunInv, SamePlan
<1>5. QED
  BY <1>3, <1>4

LEMMA RunEnterFails ==
  ASSUME IInv, RunInv, NEW l \in Labels, NEW S \in SUBSET Tensors, EnterFails(l, S)
  PROVE  RunInv'
<1>1. /\ ld' = EntersPart(l, S) /\ UNCHANGED <<running, coll>>
      /\ ld.kind \in {"warmup", "layer", "strategy"}
  BY DEF EnterFails, profileVars
<1>2. CASE ld.kind = "strategy"
  <2>1. ld' = StrategyEnterFails(ld, l, S)
    BY <1>1, <1>2 DEF EntersPart
  <2>2. SamePlan(ld, ld') /\ PlanFits(ld')
    BY <1>2, <2>1, RunTyped, EnterFailsSchedule, SamePlanFits DEF RunInv
  <2>3. hist'.incomplete = TRUE
    <3> DEFINE dropped == hist.dropped \cup (S \ ld.map)
    <3>1. hist' = [Fail(hist) EXCEPT !.incomplete = TRUE, !.dropped = dropped]
      <4>1. hist' = CASE ld.kind = "strategy" ->
                           [Fail(hist) EXCEPT !.incomplete = TRUE, !.dropped = @ \cup (S \ ld.map)]
                      [] ld.kind = "layer"    -> [Fail(hist) EXCEPT !.leaked = @ \cup Fresh(ld, S, OnGpu)]
                      [] OTHER                -> Fail(hist)
        BY DEF EnterFails
      <4>2. hist' = [Fail(hist) EXCEPT !.incomplete = TRUE, !.dropped = @ \cup (S \ ld.map)]
        BY <1>2, <4>1
      <4>3. Fail(hist).dropped = hist.dropped
        BY FailFacts DEF IInv, TypeInv
      <4>4. QED
        BY <4>2, <4>3
    <3>2. HistType /\ Fail(hist) = [hist EXCEPT !.faults = hist.faults + 1]
      BY DEF Fail, IInv, TypeInv
    <3> HIDE DEF dropped
    <3>3. QED
      BY <3>1, <3>2 DEF HistType
  <2>4. QED
    BY <1>1, <1>2, <2>2, <2>3 DEF RunInv, SamePlan
<1>3. CASE ld.kind # "strategy"
  <2>1. ld'.kind = ld.kind
    <3>1. CASE ld.kind = "warmup"
      BY <1>1, <3>1, RunTyped DEF EntersPart, WarmupExit, Release, Retain, LoaderType
    <3>2. CASE ld.kind = "layer"
      BY <1>1, <3>2, RunTyped DEF EntersPart, Retain, LoaderType
    <3>3. QED
      BY <1>1, <1>3, <3>1, <3>2
  <2>2. QED
    BY <1>1, <1>3, <2>1, RunIdle DEF RunInv
<1>4. QED
  BY <1>2, <1>3

(* A read gives the GPU a kernel: no release of the layer's own is scheduled. *)
LEMMA RunRead ==
  ASSUME IInv, RunInv, Read
  PROVE  RunInv'
<1> DEFINE t == Min(trap.todo)
           through == ThroughLoader(t) /\ ld.kind = "strategy"
           after == IF through THEN StrategyGet(ld, t) ELSE ld
           copy == ThroughLoader(t) /\ ld.kind = "strategy" /\ t \in ld.map \ ld.pass
           kernel == <<trap.label, t>>
           sched == [k \in DOMAIN after.sched |-> after.sched[k] \ {kernel}]
<1>1. /\ trap' = [trap EXCEPT !.todo = trap.todo \ {t}, !.tainted = trap.tainted \/ Promoted(t)]
      /\ running' = (IF copy THEN running \cup {kernel} ELSE running)
      /\ ld' = (IF copy THEN [after EXCEPT !.sched = sched] ELSE after)
      /\ UNCHANGED <<pc, coll, hist, managed>>
  BY DEF Read, profileVars
<1>2. /\ t \in Tensors /\ trap.label \in Labels /\ pc = trap.label
      /\ ld'.kind = ld.kind /\ ld'.load = ld.load
  BY ReadsInTrap, ReadLoaderFacts DEF Read
<1>3. trap'.label = trap.label
  BY <1>1 DEF IInv, TypeInv, ForwardType
<1>4. CASE ld.kind # "strategy"
  BY <1>1, <1>2, <1>4, RunIdle DEF RunInv
<1>5. CASE ld.kind = "strategy"
  <2>1. SamePlan(ld, after) /\ after.map = ld.map /\ after.sched = ld.sched /\ LoaderType(after)
    BY RunTyped, GetSchedule DEF SamePlan
  <2>2. /\ SamePlan(ld, ld') /\ ld'.map = ld.map /\ DOMAIN ld'.sched = DOMAIN ld.sched
        /\ \A k \in DOMAIN ld.sched : ld.sched[k] \ {kernel} \subseteq ld'.sched[k]
        /\ \A k \in running' : k \in running \/ (k = kernel /\ t \in ld.map)
    <3>1. CASE copy
      <4>1. ld' = [after EXCEPT !.sched = sched] /\ running' = running \cup {kernel} /\ t \in ld.map
        BY <1>1, <3>1
      <4>2. DOMAIN sched = DOMAIN ld.sched /\ \A k \in DOMAIN ld.sched : sched[k] = ld.sched[k] \ {kernel}
        BY <2>1
      <4> HIDE DEF after, sched, kernel, copy
      <4>3. SamePlan(after, ld') /\ ld'.map = after.map /\ ld'.sched = sched
        BY <2>1, <4>1 DEF LoaderType, SamePlan
      <4>4. QED
        BY <2>1, <4>1, <4>2, <4>3 DEF SamePlan
    <3>2. CASE ~copy
      <4>1. ld' = after /\ running' = running
        BY <1>1, <3>2
      <4> HIDE DEF after, kernel
      <4>2. QED
        BY <2>1, <4>1 DEF SamePlan
    <3>3. QED
      BY <3>1, <3>2
  <2> HIDE DEF after, copy, sched
  <2>3. PlanFits(ld') /\ \A k, u : SoleReader(ld', k, u) <=> SoleReader(ld, k, u)
    BY <1>5, <2>2, SamePlanFits DEF RunInv
  <2>4. EnteredSince(trap.label) = Labels /\ \A k \in Labels : EnteredSince(k)' = EnteredSince(k)
    BY <1>1, <1>2, <1>3, RunTyped DEF EnteredSince, Underway
  <2>5. AllIds(ld.load)' = AllIds(ld.load)
    BY <1>2 DEF AllIds
  <2>6. KernelInv => KernelInv'
    <3> SUFFICES ASSUME KernelInv, NEW k \in Labels, NEW u \in Tensors, SoleReader(ld', k, u)
                 PROVE  KernelHolds(k, u)'
      BY DEF KernelInv
    <3>1. KernelHolds(k, u)
      BY <2>3 DEF KernelInv
    <3>2. k \in DOMAIN ld'.sched => \A m \in EnteredSince(k)' : u \notin ld'.load[m]
      BY <1>2, <2>2, <2>4, <3>1 DEF KernelHolds
    <3>6. u \in managed' \ ld'.map /\ ~RecordedLate(k)' =>
            \E m \in Labels \ EnteredSince(k)' : u \in ld'.load[m]
      BY <1>1, <2>2, <2>4, <3>1 DEF KernelHolds, RecordedLate, SamePlan
    <3>3. CASE <<k, u>> = kernel
      <4>1. k = trap.label /\ u = t
        BY <3>3
      <4>2. u \in AllIds(ld.load) => k \notin DOMAIN ld.sched
        BY <2>4, <3>1, <4>1 DEF KernelHolds, AllIds
      <4>3. <<k, u>> \in running' => u \in ld'.map
        BY <2>2, <3>1, <4>1 DEF KernelHolds
      <4>4. QED
        BY <2>2, <2>5, <3>2, <3>6, <4>2, <4>3 DEF KernelHolds
    <3>4. CASE <<k, u>> # kernel
      <4>1. <<k, u>> \in running' => <<k, u>> \in running
        BY <2>2, <3>4
      <4>2. \A m \in DOMAIN ld.sched : <<k, u>> \in ld.sched[m] => <<k, u>> \in ld'.sched[m]
        BY <2>2, <3>4
      <4>3. QED
        BY <2>2, <2>5, <3>1, <3>2, <3>6, <4>1, <4>2 DEF KernelHolds
    <3>5. QED
      BY <3>3, <3>4
  <2>7. QED
    BY <1>1, <1>2, <1>5, <2>3, <2>6 DEF RunInv
<1>6. QED
  BY <1>4, <1>5

(* __exit__: what is freed was read by layers whose kernels have all run. *)
LEMMA ExitKernels ==
  ASSUME IInv, RunInv, ld.kind = "strategy", NEW l \in Labels, trap.label = l,
         running' \subseteq running, ld' = StrategyExit(ld, l, running, running'),
         KernelInv, pc' = pc + 1, trap'.label = 0, managed' = managed
  PROVE  KernelInv'
<1>1. /\ SamePlan(ld, ld')
      /\ ld.map \ Freeable(ld, running') \subseteq ld'.map
      /\ DOMAIN ld'.sched \subseteq (DOMAIN ld.sched \ PassedLabels(ld, running')) \cup {l}
      /\ l \in DOMAIN ld'.sched /\ ld.release[l] # {} => ld'.sched[l] = running
      /\ \A m \in DOMAIN ld'.sched \ {l} :
           {k \in ld.sched[m] : k[2] \notin Freeable(ld, running')} \subseteq ld'.sched[m]
  BY RunTyped, ExitSchedule
<1>2. PlanFits(ld) /\ \A k, t : SoleReader(ld', k, t) <=> SoleReader(ld, k, t)
  BY <1>1, SamePlanFits DEF RunInv
<1>3. AllIds(ld.load)' = AllIds(ld.load)
  BY <1>1 DEF AllIds, SamePlan
<1>4. /\ EnteredSince(l)' = {}
      /\ \A k \in Labels \ {l} : EnteredSince(k)' \subseteq EnteredSince(k)
  BY RunTyped DEF EnteredSince, Underway
<1> SUFFICES ASSUME NEW k \in Labels, NEW t \in Tensors, SoleReader(ld', k, t)
             PROVE  KernelHolds(k, t)'
  BY DEF KernelInv
<1>5. SoleReader(ld, k, t) /\ KernelHolds(k, t)
  BY <1>2 DEF KernelInv
<1>6. ld'.load = ld.load
  BY <1>1 DEF SamePlan
<1>7. k \in DOMAIN ld'.sched => \A m \in EnteredSince(k)' : t \notin ld'.load[m]
  BY <1>1, <1>4, <1>5, <1>6 DEF KernelHolds
<1>8. ASSUME <<k, t>> \in running'
      PROVE  /\ t \in ld'.map
             /\ k \in DOMAIN ld'.sched /\ t \in AllIds(ld.load) => <<k, t>> \in ld'.sched[k]
  <2>1. <<k, t>> \in running /\ t \in ld.map
        /\ (k \in DOMAIN ld.sched /\ t \in AllIds(ld.load) => <<k, t>> \in ld.sched[k])
    BY <1>5, <1>8 DEF KernelHolds
  <2>2. t \notin Freeable(ld, running')
    <3> SUFFICES ASSUME NEW m \in PassedLabels(ld, running'), t \in ld.release[m]
                 PROVE  FALSE
      BY DEF Freeable
    <3>1. m \in DOMAIN ld.sched /\ ld.sched[m] \cap running' = {} /\ m \in Labels
      BY RunTyped DEF PassedLabels, LoaderType
    <3>2. t \in ld.ids[m] /\ t \in AllIds(ld.load)
      BY <1>2, <3>1 DEF PlanFits, ReleasesFit
    <3>3. m = k
      BY <1>5, <3>1, <3>2 DEF SoleReader
    <3>4. QED
      BY <1>8, <2>1, <3>1, <3>2, <3>3
  <2>3. t \in ld'.map
    BY <1>1, <2>1, <2>2
  <2>4. ASSUME k \in DOMAIN ld'.sched, t \in AllIds(ld.load)
        PROVE  <<k, t>> \in ld'.sched[k]
    <3>1. CASE k = l
      <4>1. t \in ld.release[l]
        BY <1>2, <1>5, <2>4, <3>1 DEF PlanFits, ReleasesFit, SoleReader
      <4>2. QED
        BY <1>1, <2>1, <2>4, <3>1, <4>1
    <3>2. CASE k # l
      <4>1. k \in DOMAIN ld.sched /\ k \in DOMAIN ld'.sched \ {l}
        BY <1>1, <2>4, <3>2
      <4>2. <<k, t>> \in {j \in ld.sched[k] : j[2] \notin Freeable(ld, running')}
        BY <2>1, <2>2, <2>4, <4>1
      <4>3. QED
        BY <1>1, <4>1, <4>2
    <3>3. QED
      BY <3>1, <3>2
  <2>5. QED
    BY <2>3, <2>4
<1>9. ASSUME t \in managed \ ld'.map, ~RecordedLate(k)'
      PROVE  \E m \in Labels \ EnteredSince(k)' : t \in ld.load[m]
  <2>1. ~RecordedLate(k)
    BY <1>1, <1>9 DEF RecordedLate, SamePlan
  <2>2. CASE t \notin ld.map
    BY <1>4, <1>5, <1>9, <2>1, <2>2 DEF KernelHolds
  <2>3. CASE t \in Freeable(ld, running')
    <3>1. PICK m \in PassedLabels(ld, running') : t \in ld.release[m]
      BY <2>3 DEF Freeable
    <3>2. m \in DOMAIN ld.sched /\ m \in Labels
      BY RunTyped DEF PassedLabels, LoaderType
    <3>3. t \in ld.ids[m] /\ t \in AllIds(ld.load)
      BY <1>2, <3>1, <3>2 DEF PlanFits, ReleasesFit
    <3>4. m = k
      BY <1>5, <3>2, <3>3 DEF SoleReader
    <3>5. \A n \in EnteredSince(k) : t \notin ld.load[n]
      BY <1>5, <3>2, <3>4 DEF KernelHolds
    <3>6. QED
      BY <1>4, <3>3, <3>5 DEF AllIds
  <2>4. QED
    BY <1>1, <1>9, <2>2, <2>3
<1>10. QED
  BY <1>3, <1>6, <1>7, <1>8, <1>9 DEF KernelHolds

LEMMA RunExit ==
  ASSUME IInv, RunInv, NEW l \in Labels, trap.label = l, LoaderExit(l), trap'.label = 0,
         managed' = managed, coll'.seen \in Seq(Labels),
         (trap.todo = {} /\ pc' = pc + 1) \/ trap.todo # {}
  PROVE  RunInv'
<1>1. ld'.kind = ld.kind /\ running' \subseteq running
  BY LoaderExitFacts, NoTrapTyped
<1>2. CASE ld.kind # "strategy"
  BY <1>1, <1>2, RunIdle
<1>3. CASE ld.kind = "strategy"
  <2> DEFINE dropped == hist.dropped \cup (Dropped(ld, running') \cap ld'.uncovered)
             faults == hist.faults + (IF trap.todo # {} /\ ~Raises THEN 1 ELSE 0)
             incomplete == hist.incomplete \/ trap.todo # {}
  <2>1. /\ ld' = StrategyExit(ld, l, running, running')
        /\ hist' = [hist EXCEPT !.dropped = dropped, !.faults = faults, !.incomplete = incomplete]
    BY <1>3 DEF LoaderExit
  <2>2. hist'.incomplete = incomplete
    <3> HIDE DEF dropped, faults, incomplete
    <3>1. QED
      BY <2>1 DEF IInv, TypeInv, HistType
  <2> HIDE DEF dropped, faults
  <2>3. SamePlan(ld, ld') /\ PlanFits(ld')
    BY <1>3, <2>1, RunTyped, ExitSchedule, SamePlanFits DEF RunInv
  <2>4. CASE trap.todo # {}
    BY <1>1, <1>3, <2>2, <2>3, <2>4 DEF RunInv
  <2>5. CASE trap.todo = {}
    <3>1. KernelInv => KernelInv'
      BY <1>1, <1>3, <2>1, <2>5, ExitKernels
    <3>2. QED
      BY <1>1, <1>3, <2>2, <2>3, <2>5, <3>1 DEF RunInv
  <2>6. QED
    BY <2>4, <2>5
<1>4. QED
  BY <1>2, <1>3

LEMMA SeenRecorded ==
  ASSUME IInv, RunInv, NEW l \in Labels
  PROVE  Recorded(l).seen \in Seq(Labels)
<1> DEFINE seen == With(coll.seen, l)
           c == Recorded(l)
<1>1. coll \in [seen : {coll.seen}, ids : IdsType, timed : {coll.timed}] /\ coll.seen \in Seq(Labels)
  BY DEF IInv, TypeInv, ProfilesType, RunInv
<1>2. seen \in Seq(Labels)
  BY <1>1 DEF With
<1> HIDE DEF seen
<1>3. c.seen = seen \/ c.seen = coll.seen
  BY <1>1 DEF Recorded, seen
<1>4. QED
  BY <1>1, <1>2, <1>3

LEMMA RunTrapEnds ==
  ASSUME IInv, RunInv, ExitTrap \/ BodyRaises \/ TimingFails
  PROVE  RunInv'
<1>1. CASE ExitTrap
  <2>1. /\ trap.label \in Labels /\ LoaderExit(trap.label) /\ coll' = Recorded(trap.label)
        /\ trap' = NoTrap /\ trap.todo = {} /\ pc' = pc + 1 /\ managed' = managed
    BY <1>1 DEF ExitTrap, modelVars, IInv, TypeInv, ForwardType
  <2>2. coll'.seen \in Seq(Labels)
    BY <2>1, SeenRecorded
  <2>3. QED
    BY <2>1, <2>2, NoTrapTyped, RunExit
<1>2. CASE BodyRaises
  <2>1. /\ trap.label \in Labels /\ LoaderExit(trap.label) /\ coll' = Recorded(trap.label)
        /\ trap' = NoTrap /\ trap.todo # {} /\ managed' = managed
    BY <1>2, ReadsInTrap DEF BodyRaises, modelVars
  <2>2. coll'.seen \in Seq(Labels)
    BY <2>1, SeenRecorded
  <2>3. QED
    BY <2>1, <2>2, NoTrapTyped, RunExit
<1>3. CASE TimingFails
  <2>1. /\ phase = "profile" /\ trap.label # 0 /\ UNCHANGED <<running, coll>>
        /\ ld' = (IF ld.kind = "layer" THEN LayerExit(ld, trap.label) ELSE ld)
    BY <1>3 DEF TimingFails, profileVars
  <2>2. ld.kind # "strategy"
    BY <2>1 DEF IInv, PhaseInv
  <2>3. ld'.kind = ld.kind
    <3>1. CASE ld.kind = "layer"
      BY <2>1, <3>1, RunTyped, LayerExitFacts DEF SameFrame
    <3>2. CASE ld.kind # "layer"
      BY <2>1, <3>2
    <3>3. QED
      BY <3>1, <3>2
  <2>4. QED
    BY <2>1, <2>2, <2>3, RunIdle DEF RunInv
<1>4. QED
  BY <1>1, <1>2, <1>3

(* discovery and profile *)
LEMMA RunDiscovery ==
  ASSUME IInv, RunInv, \/ InitializeWarmup \/ PreprocessFails
                       \/ InitializeProfile \/ ProfileRefused \/ ProfileSetupFails
  PROVE  RunInv'
<1>1. CASE InitializeWarmup
  <2> DEFINE owned == [l \in Labels |-> setup.own[l] \cap managed']
             S == {l \in Labels : setup.own[l] \cap managed' # {}}
             seen == Kept(InOrder, S)
  <2>1. /\ phase = "new" /\ UNCHANGED running
        /\ ld' = (IF setup.mode = "torch_function" THEN NoLoader ELSE Loader("warmup", owned))
        /\ coll' = coll \/ coll' = [coll EXCEPT !.seen = seen, !.ids = owned]
    BY <1>1 DEF InitializeWarmup, forwardVars
  <2>2. ld.kind # "strategy" /\ ld'.kind # "strategy"
    BY <2>1, NoLoaderFacts DEF IInv, PhaseInv, Loader
  <2>3. InOrder \in Seq(Labels)
    BY LayersFacts DEF InOrder, Layers
  <2>4. coll.seen \in Seq(Labels) /\ seen \in Seq(Labels)
    <3> HIDE DEF S
    <3>1. QED
      BY <2>3, KeptFacts DEF RunInv
  <2> HIDE DEF seen, owned
  <2>5. coll'.seen \in Seq(Labels)
    BY <2>1, <2>4 DEF IInv, TypeInv, ProfilesType
  <2>6. QED
    BY <2>1, <2>2, <2>5, RunIdle
<1>2. CASE PreprocessFails
  <2>1. hist' = Fail(hist) /\ UNCHANGED <<ld, running, trap, pc, coll, managed>>
    BY <1>2 DEF PreprocessFails, forwardVars, profileVars, modelVars
  <2>2. QED
    BY <2>1, FailKeepsFlag, RunUndisturbed DEF RunInv
<1>3. CASE InitializeProfile
  <2>1. CanProfile /\ UNCHANGED <<running, coll>>
        /\ (ld' = LayerLoader(ProfileIds, managed, OnGpu) \/ ld' = ViewLoader(ProfileIds))
    BY <1>3 DEF InitializeProfile
  <2>2. ld.kind # "strategy"
    BY <2>1 DEF CanProfile, IInv, PhaseInv
  <2>3. ld'.kind # "strategy"
    <3> DEFINE ids == ProfileIds
               G == OnGpu
               view == "view"
    <3>1. ids \in IdsType /\ managed \in SUBSET Tensors /\ view \in Kinds
      BY ProfileIdsFacts DEF IInv, TypeInv, ModelType, Kinds
    <3>2. ld' = LayerLoader(ids, managed, G) \/ ld' = Loader(view, ids)
      BY <2>1 DEF ViewLoader
    <3> HIDE DEF ids, G, view
    <3>3. BuiltForLayers(LayerLoader(ids, managed, G), ids, G) /\ Loader(view, ids).kind = view
      BY <3>1, LayerLoaderFacts, LoaderFacts
    <3>4. QED
      BY <3>2, <3>3 DEF BuiltForLayers, view
  <2>4. QED
    BY <2>1, <2>2, <2>3, RunIdle DEF RunInv
<1>4. CASE ProfileRefused
  <2>1. (hist' = hist \/ hist' = Fail(hist)) /\ UNCHANGED <<ld, running, trap, pc, coll, managed>>
    BY <1>4 DEF ProfileRefused, forwardVars, modelVars
  <2>2. QED
    BY <2>1, FailKeepsFlag, RunUndisturbed DEF RunInv
<1>5. CASE ProfileSetupFails
  <2>1. CanProfile /\ ld' = NoLoader /\ UNCHANGED <<running, coll>>
    BY <1>5 DEF ProfileSetupFails, forwardVars
  <2>2. ld.kind # "strategy"
    BY <2>1 DEF CanProfile, IInv, PhaseInv
  <2>3. QED
    BY <2>1, <2>2, RunIdle, NoLoaderFacts DEF RunInv
<1>6. QED
  BY <1>1, <1>2, <1>3, <1>4, <1>5

(* What a strategy loader is built from: the profile of this session, or one
   that was saved. *)
ProfileFits(p) == ReleasesFit(OrderOf(p), IdsOf(p), p.load, p.release)

LEMMA ReadersAreListed ==
  ASSUME NEW p, NEW l \in Labels, IdsOf(p)[l] # {}
  PROVE  \E i \in DOMAIN OrderOf(p) : OrderOf(p)[i] = l
  BY DEF IdsOf, OrderOf

LEMMA SavedFits ==
  ASSUME NEW s \in Setups, s.profile # NoProfile, s.profile.loader = "strategy"
  PROVE  ProfileFits(s.profile)
<1> DEFINE p == s.profile
<1>1. ProfileTyped(p) /\ p.release = ResourceRelease(IdsOf(p), p.load)
  BY SetupsAssumption, SavedReleasesAssumption
<1>2. p.stats \in Seq([label : Labels, tensors : SUBSET Tensors])
  BY <1>1 DEF ProfileTyped
<1> HIDE DEF p
<1>3. OrderOf(p) \in Seq(Labels)
  <2>1. /\ DOMAIN p.stats = 1..Len(p.stats) /\ Len(p.stats) \in Nat
        /\ \A i \in DOMAIN p.stats : p.stats[i].label \in Labels
    <3> DEFINE T == [label : Labels, tensors : SUBSET Tensors]
    <3>1. \A r \in T : r.label \in Labels
      OBVIOUS
    <3>2. p.stats \in Seq(T)
      BY <1>2
    <3> HIDE DEF T
    <3>3. QED
      BY <3>1, <3>2
  <2>2. OrderOf(p) = [i \in 1..Len(p.stats) |-> p.stats[i].label]
    BY <2>1 DEF OrderOf
  <2>3. QED
    BY <2>1, <2>2
<1>4. \A l \in Labels : p.release[l] = IdsOf(p)[l] \cap AllIds(p.load)
  BY <1>1 DEF ResourceRelease
<1>5. ProfileFits(p)
  BY <1>3, <1>4, ReadersAreListed DEF ProfileFits, ReleasesFit
<1>6. QED
  BY <1>5 DEF p

LEMMA ComputedFits ==
  ASSUME NEW order \in Seq(Labels), NEW ids \in IdsType, ~setup.blocks,
         \A l \in Labels : ids[l] # {} => \E i \in DOMAIN order : order[i] = l
  PROVE  ProfileFits(Profile(order, ids))
<1> DEFINE p == Profile(order, ids)
           load == LoadStrategy(order, ids)
<1>1. /\ p.load = load /\ p.release = ResourceRelease(ids, load)
      /\ p.stats = [i \in DOMAIN order |-> [label |-> order[i], tensors |-> ids[order[i]]]]
  BY DEF Profile
<1> HIDE DEF p, load
<1>2. OrderOf(p) = order
  BY <1>1 DEF OrderOf
<1>3. \A l \in Labels : IdsOf(p)[l] = ids[l]
  <2> TAKE l \in Labels
  <2>1. /\ DOMAIN p.stats = DOMAIN order
        /\ \A i \in DOMAIN p.stats : p.stats[i].label = order[i] /\ p.stats[i].tensors = ids[order[i]]
    BY <1>1
  <2>2. IdsOf(p)[l] = UNION {p.stats[i].tensors : i \in {i \in DOMAIN p.stats : p.stats[i].label = l}}
    BY DEF IdsOf
  <2>3. \A i \in {i \in DOMAIN p.stats : p.stats[i].label = l} : p.stats[i].tensors = ids[l]
    BY <2>1
  <2>4. ids[l] # {} => {i \in DOMAIN p.stats : p.stats[i].label = l} # {}
    <3> SUFFICES ASSUME ids[l] # {}
                 PROVE  \E i \in DOMAIN p.stats : p.stats[i].label = l
      OBVIOUS
    <3>1. PICK i \in DOMAIN order : order[i] = l
      OBVIOUS
    <3>2. QED
      BY <2>1, <3>1
  <2>5. QED
    BY <2>2, <2>3, <2>4
<1>4. \A l \in Labels : p.release[l] = IdsOf(p)[l] \cap AllIds(p.load)
  BY <1>1, <1>3 DEF ResourceRelease
<1>5. ProfileFits(p)
  BY <1>2, <1>4, ReadersAreListed DEF ProfileFits, ReleasesFit
<1>6. QED
  BY <1>5 DEF p

(* A loader that is just built has nothing scheduled. *)
LEMMA RunBuilt ==
  ASSUME RunInv, ld.kind # "strategy", UNCHANGED <<running, managed>>, coll'.seen \in Seq(Labels),
         pc' = 0, trap'.label = 0, NEW pr, NEW d, NEW p, BuildLoader(pr, d, p, managed),
         pr.loader = "strategy" => ProfileFits(pr)
  PROVE  RunInv'
<1>1. running' = {}
  BY DEF RunInv
<1>2. CASE pr.loader = "strategy"
  <2> DEFINE G == {t \in Tensors : d[t] = "gpu"}
             preload == Preload(OrderOf(pr), IdsOf(pr), pr.load, managed)
             d0 == Loader("strategy", IdsOf(pr))
             order == OrderOf(pr)
  <2>1. ld' = [d0 EXCEPT !.order = order, !.load = pr.load, !.release = pr.release,
                         !.map = preload, !.pass = preload \cap G]
    BY <1>2 DEF BuildLoader, StrategyLoader
  <2>2. /\ d0.ids = IdsOf(pr) /\ d0.kind = "strategy" /\ d0.sched = << >>
        /\ d0 \in [kind : {d0.kind}, ids : {d0.ids}, order : {d0.order}, map : {d0.map}, count : {d0.count},
                   bound : {d0.bound}, rescued : {d0.rescued}, refs : {d0.refs}, at : {d0.at},
                   load : {d0.load}, release : {d0.release}, pass : {d0.pass}, sched : {d0.sched},
                   events : {d0.events}, uncovered : {d0.uncovered}]
    BY DEF Loader
  <2> HIDE DEF preload, d0, G, order
  <2>3. /\ ld'.kind = "strategy" /\ ld'.ids = IdsOf(pr) /\ ld'.order = order
        /\ ld'.load = pr.load /\ ld'.release = pr.release /\ ld'.sched = << >> /\ ld'.map = preload
    BY <2>1, <2>2
  <2>4. PlanFits(ld')
    BY <1>2, <2>3 DEF PlanFits, ProfileFits, order
  <2>5. ASSUME NEW l \in Labels, NEW t \in Tensors, SoleReader(ld', l, t),
               t \in managed \ ld'.map, ~RecordedLate(l)'
        PROVE  \E m \in Labels \ EnteredSince(l)' : t \in ld'.load[m]
    <3>1. order \in Seq(Labels) /\ t \in IdsOf(pr)[l]
      BY <2>3, <2>4, <2>5 DEF PlanFits, ReleasesFit, SoleReader
    <3>2. PICK i \in DOMAIN order : order[i] = l
      BY <3>1, ReadersAreListed DEF order
    <3>3. PICK k \in 1..i : t \in pr.load[order[k]]
      BY <2>3, <2>5, <3>1, <3>2 DEF preload, Preload, order
    <3>4. /\ DOMAIN order = 1..Len(order) /\ Len(order) \in Nat
          /\ \A n \in DOMAIN order : order[n] \in Labels
      BY <3>1
    <3>5. k \in DOMAIN order /\ order[k] \in Labels /\ (k = i \/ k < i)
      BY <3>2, <3>4
    <3>6. ~(order[k] > l)
      <4>1. l \in Int
        BY LayersFacts
      <4>2. QED
        BY <2>3, <2>5, <3>2, <3>5, <4>1 DEF RecordedLate
    <3>7. order[k] \notin EnteredSince(l)'
      <4>1. order[k] \in Int /\ l \in Int /\ order[k] > 0 /\ l > 0
        BY <3>5, LayersFacts
      <4>2. QED
        BY <3>6, <4>1 DEF EnteredSince, Underway
    <3>8. QED
      BY <2>3, <3>3, <3>5, <3>7
  <2>6. KernelInv'
    BY <1>1, <2>3, <2>5 DEF KernelInv, KernelHolds
  <2>7. QED
    BY <2>3, <2>4, <2>6 DEF RunInv
<1>3. CASE pr.loader # "strategy"
  <2>1. ld' = BlockLoader(IdsOf(pr), pr.load)
    BY <1>3 DEF BuildLoader
  <2>2. ld'.kind = "blocks"
    BY <2>1 DEF BlockLoader, Loader
  <2>3. QED
    BY <1>1, <2>2 DEF RunInv
<1>4. QED
  BY <1>2, <1>3

LEMMA RunInference ==
  ASSUME IInv, RunInv, InitializeInference \/ InferenceFails \/ InitializeRestored
  PROVE  RunInv'
<1>1. CASE InitializeInference
  <2> DEFINE order == TimedLabels
             ids == StatIds
  <2>1. PICK stuck \in SUBSET pins.view :
          BuildLoader(prof', AfterProfile({}), ReleaseView(pins, stuck), managed)
    BY <1>1 DEF InitializeInference
  <2>2. CanInfer /\ prof' = Profile(order, ids) /\ UNCHANGED <<setup, running, coll, managed>>
        /\ pc' = 0 /\ trap'.label = 0
    BY <1>1, RunTyped, LayersFacts DEF InitializeInference, CanInfer
  <2>3. ld.kind # "strategy"
    BY <2>2 DEF CanInfer, IInv, PhaseInv
  <2>4. coll.seen \in Seq(Labels) /\ ids \in IdsType
    BY StatIdsFacts DEF RunInv
  <2>5. /\ order \in Seq(Labels)
        /\ \A i \in DOMAIN coll.seen : coll.seen[i] \in coll.timed => \E n \in DOMAIN order : order[n] = coll.seen[i]
    BY <2>4, KeptFacts DEF TimedLabels
  <2>6. \A l \in Labels : ids[l] # {} => \E i \in DOMAIN order : order[i] = l
    <3> SUFFICES ASSUME NEW l \in Labels, ids[l] # {}
                 PROVE  \E i \in DOMAIN order : order[i] = l
      OBVIOUS
    <3>1. l \in coll.timed /\ Contains(coll.seen, l)
      BY DEF StatIds
    <3>2. \E i \in DOMAIN coll.seen : coll.seen[i] = l
      BY <2>4, <3>1 DEF Contains
    <3> HIDE DEF order
    <3>3. QED
      BY <2>5, <3>1, <3>2
  <2> HIDE DEF order, ids
  <2>7. prof'.loader = "strategy" => ~setup.blocks
    BY <2>2 DEF Profile
  <2>8. prof'.loader = "strategy" => ProfileFits(Profile(order, ids))
    BY <2>4, <2>5, <2>6, <2>7, ComputedFits
  <2>9. QED
    <3> DEFINE pr == Profile(order, ids)
    <3>1. BuildLoader(pr, AfterProfile({}), ReleaseView(pins, stuck), managed)
      BY <2>1, <2>2 DEF BuildLoader
    <3>2. pr.loader = "strategy" => ProfileFits(pr)
      BY <2>2, <2>8
    <3> HIDE DEF pr
    <3>3. QED
      BY <2>2, <2>3, <2>4, <3>1, <3>2, RunBuilt
<1>2. CASE InferenceFails
  <2>1. CanInfer /\ ld' = NoLoader /\ UNCHANGED <<running, coll>>
    BY <1>2 DEF InferenceFails, forwardVars, profileVars
  <2>2. ld.kind # "strategy"
    BY <2>1 DEF CanInfer, IInv, PhaseInv
  <2>3. QED
    BY <2>1, <2>2, RunIdle, NoLoaderFacts DEF RunInv
<1>3. CASE InitializeRestored
  <2>1. phase = "restored" /\ BuildLoader(prof, data, pins, managed) /\ UNCHANGED <<running, coll, managed, pc, trap>>
    BY <1>3 DEF InitializeRestored, forwardVars, profileVars, modelVars
  <2>2. ld.kind # "strategy" /\ prof = setup.profile /\ setup.profile # NoProfile /\ setup \in Setups
    BY <2>1 DEF IInv, PhaseInv, TypeInv, ModelType
  <2>3. prof.loader = "strategy" => ProfileFits(prof)
    BY <2>2, SavedFits
  <2>4. pc' = 0 /\ trap'.label = 0
    BY <2>1, RunTyped, LayersFacts DEF IInv, TrapInv
  <2>5. QED
    BY <2>1, <2>2, <2>3, <2>4, RunBuilt DEF RunInv
<1>4. QED
  BY <1>1, <1>2, <1>3

LEMMA RunRest ==
  ASSUME IInv, RunInv, \/ Plan \/ MigrateStorage \/ PinStorage \/ AdoptionFails \/ RestoreAdopted
                       \/ Shutdown \/ ShutdownFails \/ UNCHANGED vars
  PROVE  RunInv'
<1>1. CASE Plan \/ MigrateStorage \/ PinStorage \/ AdoptionFails \/ ShutdownFails \/ UNCHANGED vars
  <2>1. (hist' = hist \/ hist' = Fail(hist)) /\ UNCHANGED <<ld, running, trap, pc, coll, managed>>
    BY <1>1 DEF Plan, MigrateStorage, PinStorage, AdoptionFails, ShutdownFails, vars,
                adoptVars, forwardVars, profileVars, modelVars
  <2>2. QED
    BY <2>1, FailKeepsFlag, RunUndisturbed DEF RunInv
<1>2. CASE Shutdown
  <2>1. ld' = NoLoader /\ running' = {} /\ coll' = coll
    BY <1>2 DEF Shutdown, profileVars
  <2>2. QED
    BY <2>1, NoLoaderFacts DEF RunInv
<1>3. CASE RestoreAdopted
  <2>1. phase = "saved" /\ UNCHANGED <<ld, running, coll>>
    BY <1>3 DEF RestoreAdopted, forwardVars, profileVars
  <2>2. ld.kind # "strategy"
    BY <2>1 DEF IInv, PhaseInv
  <2>3. QED
    BY <2>1, <2>2, RunIdle DEF RunInv
<1>4. QED
  BY <1>1, <1>2, <1>3

LEMMA RunKeeps ==
  ASSUME IInv, RunInv, [Next]_vars
  PROVE  RunInv'
<1>1. CASE StartForward \/ Skip \/ FinishForward
  BY <1>1, RunForward
<1>2. CASE \E l \in Labels : EnterTrap(l) \/ \E S \in SUBSET Tensors : EnterFails(l, S)
  BY <1>2, RunEnter, RunEnterFails
<1>3. CASE Read
  BY <1>3, RunRead
<1>4. CASE ExitTrap \/ BodyRaises \/ TimingFails
  BY <1>4, RunTrapEnds
<1>5. CASE InitializeWarmup \/ PreprocessFails \/ InitializeProfile \/ ProfileRefused \/ ProfileSetupFails
  BY <1>5, RunDiscovery
<1>6. CASE InitializeInference \/ InferenceFails \/ InitializeRestored
  BY <1>6, RunInference
<1>7. CASE \/ Plan \/ MigrateStorage \/ PinStorage \/ AdoptionFails \/ RestoreAdopted
           \/ Shutdown \/ ShutdownFails \/ UNCHANGED vars
  BY <1>7, RunRest
<1>8. QED
  BY <1>1, <1>2, <1>3, <1>4, <1>5, <1>6, <1>7 DEF Next

THEOREM RunInvariance == Spec => [](IInv /\ RunInv)
<1>1. Init => RunInv
  BY NoLoaderFacts DEF Init, RunInv
<1>2. IInv /\ RunInv /\ [Next]_vars => RunInv'
  BY RunKeeps
<1>3. QED
  BY <1>1, <1>2, Invariance, PTL DEF Spec

(* A kernel that the GPU has not run yet finds its copy (TensorStrategyLoader's
   scheduled releases), unless a forward's copies were not all made, or another
   layer reads the tensor too. *)
THEOREM KernelsServed == Spec => []KernelsKeepTheirCopies
<1>1. ASSUME IInv, RunInv
      PROVE  KernelsKeepTheirCopies
  <2>1. running \subseteq Labels \X Tensors
    BY <1>1 DEF IInv, TypeInv, ForwardType
  <2>2. CASE ld.kind # "strategy"
    BY <1>1, <2>2 DEF RunInv, KernelsKeepTheirCopies
  <2>3. CASE ld.kind = "strategy" /\ ~hist.incomplete
    <3> SUFFICES ASSUME NEW k \in running, {l \in Labels : k[2] \in ld.ids[l]} = {k[1]}
                 PROVE  k[2] \in ld.map
      BY DEF KernelsKeepTheirCopies
    <3>1. k[1] \in Labels /\ k[2] \in Tensors /\ k = <<k[1], k[2]>>
      BY <2>1
    <3>2. SoleReader(ld, k[1], k[2])
      BY DEF SoleReader
    <3>3. KernelHolds(k[1], k[2])
      BY <1>1, <2>3, <3>1, <3>2 DEF RunInv, KernelInv
    <3>4. QED
      BY <3>1, <3>3 DEF KernelHolds
  <2>4. QED
    BY <2>2, <2>3 DEF KernelsKeepTheirCopies
<1>2. IInv /\ RunInv => KernelsKeepTheirCopies
  BY <1>1
<1>3. QED
  BY <1>2, RunInvariance, PTL

-----------------------------------------------------------------------------
(* What a layer reads of a strategy. *)
(* A layer's trap has entered every label since the layer last left. *)
LEMMA MissingIsKnown ==
  ASSUME IInv, RunInv, NEW t \in trap.todo, ld.kind = "strategy", t \in managed \ ld.map
  PROVE  ~Known(t) \/ hist.incomplete \/ ReadElsewhere(t) \/ RecordedLate(trap.label)
<1> SUFFICES ASSUME Known(t), ~hist.incomplete, ~ReadElsewhere(t), ~RecordedLate(trap.label)
             PROVE  FALSE
  OBVIOUS
<1>1. t \in Tensors /\ trap.label \in Labels /\ trap.label # 0
  BY ReadsInTrap, LayersFacts
<1>2. SoleReader(ld, trap.label, t)
  BY <1>1 DEF Known, ReadElsewhere, SoleReader
<1>3. KernelHolds(trap.label, t)
  BY <1>1, <1>2 DEF RunInv, KernelInv
<1>4. pc = trap.label
  BY <1>1 DEF IInv, TrapInv
<1>5. \A m \in Labels : m \in EnteredSince(trap.label)
  <2>1. \A m \in Labels : m \in Int /\ trap.label \in Int
    BY <1>1, LayersFacts
  <2>2. QED
    BY <1>1, <1>4, <2>1 DEF EnteredSince, Underway
<1>6. QED
  BY <1>3, <1>5 DEF KernelHolds

LEMMA ReadsInStrategy ==
  ASSUME IInv, RunInv, NEW t \in trap.todo, ld.kind = "strategy"
  PROVE  ReadRight(t)
<1>1. t \in Tensors /\ phase = "infer" /\ ld.bound = {}
  BY ReadsInTrap DEF IInv, CopyInv, Held
<1>2. data[t] \in {"host", "gpu", "blank"} /\ (data[t] = "blank" => t \in hist.lost)
  <2>1. data[t] \in {"host", "gpu", "slot", "blank"}
    BY <1>1 DEF IInv, TypeInv, ModelType
  <2>2. QED
    BY <1>1, <2>1 DEF IInv, DataInv
<1>3. CASE ThroughLoader(t) /\ LoaderGet(t) # "none"
  <2>1. Got(t) = LoaderGet(t) /\ t \in ld.map
    BY <1>3 DEF Got, LoaderGet
  <2>2. LoaderGet(t) = IF t \in StrategyGet(ld, t).uncovered THEN "unwaited" ELSE Own(t)
    BY <2>1 DEF LoaderGet
  <2>3. t \in StrategyGet(ld, t).uncovered => t \in hist.dropped
    <3> DEFINE dropped == hist.dropped
               d == ld
    <3>1. LoaderType(d) /\ Covered(d, dropped)
      BY DEF IInv, TypeInv, CoverInv
    <3> HIDE DEF dropped, d
    <3>2. t \notin dropped => t \notin StrategyGet(d, t).uncovered
      BY <1>1, <3>1, StrategyGetFacts
    <3>3. QED
      BY <3>2 DEF dropped, d
  <2>4. CASE t \in StrategyGet(ld, t).uncovered
    BY <2>1, <2>2, <2>3, <2>4 DEF ReadRight
  <2>5. CASE t \notin StrategyGet(ld, t).uncovered
    BY <2>1, <2>2, <2>5, OwnIsRight
  <2>6. QED
    BY <2>4, <2>5
<1>4. CASE ~(ThroughLoader(t) /\ LoaderGet(t) # "none") /\ Promoted(t)
  BY <1>4, OwnIsRight DEF Got
<1>5. CASE ~(ThroughLoader(t) /\ LoaderGet(t) # "none") /\ ~Promoted(t)
  <2>1. Got(t) = Plain(t)
    BY <1>5 DEF Got
  <2>2. CASE data[t] = "gpu"
    BY <2>1, <2>2, OwnIsRight DEF Plain
  <2>3. CASE data[t] = "blank"
    BY <1>1, <1>2, <2>1, <2>3 DEF Plain, ReadRight
  <2>4. CASE data[t] = "host"
    <3>1. LoaderGet(t) = "none" /\ setup.mode = "torch_function" /\ t \in managed
      BY <1>1, <1>5, <2>4, HostIsTraced DEF Promoted, ThroughLoader, Traced
    <3>2. t \notin ld.map
      BY <1>1, <3>1 DEF LoaderGet, Own
    <3>3. Plain(t) = "host"
      BY <1>1, <2>4 DEF Plain
    <3>4. ~Known(t) \/ hist.incomplete \/ ReadElsewhere(t) \/ RecordedLate(trap.label)
      BY <1>1, <3>1, <3>2, MissingIsKnown
    <3>5. QED
      BY <2>1, <3>1, <3>3, <3>4 DEF ReadRight
  <2>5. QED
    BY <1>2, <2>2, <2>3, <2>4
<1>6. QED
  BY <1>3, <1>4, <1>5

(* A layer computes with its own weights, but for the reads ReadsOwnWeights
   names (Got: TensorTrap's functions and the loaders' get_loaded_tensor). *)
THEOREM ReadsOwn == Spec => []ReadsOwnWeights
<1>1. ASSUME IInv, RunInv, NEW t \in trap.todo
      PROVE  ReadRight(t)
  <2>1. ld.kind \in {"layer", "view", "strategy", "blocks"}
    BY <1>1, ReadsInTrap
  <2>2. QED
    BY <1>1, <2>1, ReadsInLayers, ReadsInViews, ReadsInBlocks, ReadsInStrategy
<1>2. IInv /\ RunInv => ReadsOwnWeights
  BY <1>1 DEF ReadsOwnWeights, ReadRight
<1>3. QED
  BY <1>2, RunInvariance, PTL

-----------------------------------------------------------------------------
(* The places in a finite set of numbers: each element has its own, every
   place is taken. *)
LEMMA PlacesDiffer ==
  ASSUME NEW S, S \subseteq Nat, IsFiniteSet(S), NEW i \in S, NEW k \in S,
         Cardinality({j \in S : j <= i}) = Cardinality({j \in S : j <= k})
  PROVE  ~(i < k)
<1> SUFFICES ASSUME i < k
             PROVE  FALSE
  OBVIOUS
<1> DEFINE upTo(n) == {j \in S : j <= n}
<1>1. upTo(i) \in SUBSET upTo(k) /\ k \in upTo(k) /\ k \notin upTo(i)
  <2>1. i \in Nat /\ k \in Nat /\ k <= k /\ ~(k <= i)
    OBVIOUS
  <2>2. \A j \in S : j <= i => j <= k
    BY <2>1
  <2>3. QED
    BY <2>1, <2>2
<1>2. IsFiniteSet(upTo(k))
  <2>1. upTo(k) \in SUBSET S
    OBVIOUS
  <2>2. QED
    BY <2>1, FS_Subset
<1>3. Cardinality(upTo(i)) = Cardinality(upTo(k))
  OBVIOUS
<1> HIDE DEF upTo
<1>4. upTo(k) = upTo(i)
  BY <1>1, <1>2, <1>3, FS_Subset
<1>5. QED
  BY <1>1, <1>4

LEMMA PlaceInRange ==
  ASSUME NEW S, S \subseteq Nat, IsFiniteSet(S), NEW i \in S
  PROVE  Cardinality({j \in S : j <= i}) \in 1..Cardinality(S)
<1> DEFINE upTo == {j \in S : j <= i}
<1>1. upTo \in SUBSET S /\ i \in upTo
  OBVIOUS
<1>2. IsFiniteSet(upTo) /\ Cardinality(upTo) <= Cardinality(S)
  BY <1>1, FS_Subset
<1>3. Cardinality(upTo) \in Nat /\ Cardinality(upTo) # 0 /\ Cardinality(S) \in Nat
  BY <1>1, <1>2, FS_CardinalityType, FS_EmptySet
<1> HIDE DEF upTo
<1>4. Cardinality(upTo) \in 1..Cardinality(S)
  BY <1>2, <1>3
<1>5. QED
  BY <1>4 DEF upTo

LEMMA NthExists ==
  ASSUME NEW S, S \subseteq Nat, IsFiniteSet(S), NEW n \in 1..Cardinality(S)
  PROVE  \E i \in S : Cardinality({j \in S : j <= i}) = n
<1> DEFINE upTo(i) == {j \in S : j <= i}
           C == Cardinality(S)
           f == [i \in S |-> Cardinality(upTo(i))]
<1>1. C \in Nat
  BY FS_CardinalityType
<1>2. f \in [S -> 1..C]
  BY PlaceInRange
<1>3. \A i, k \in S : f[i] = f[k] => i = k
  <2> SUFFICES ASSUME NEW i \in S, NEW k \in S, f[i] = f[k]
               PROVE  i = k
    OBVIOUS
  <2>1. ~(i < k) /\ ~(k < i)
    BY PlacesDiffer
  <2> HIDE DEF f
  <2>2. QED
    BY <2>1
<1> HIDE DEF f, C
<1>4. f \in Injection(S, 1..C)
  BY <1>2, <1>3 DEF Injection, IsInjective
<1>5. IsFiniteSet(1..C) /\ Cardinality(1..C) = C
  BY <1>1, FS_Interval
<1>6. f \in Surjection(S, 1..C)
  BY <1>4, <1>5, FS_Injection DEF C
<1>7. \E i \in S : f[i] = n
  BY <1>6 DEF Surjection, C
<1>8. QED
  BY <1>7 DEF f

(* ById lists the moves of a set. *)
LEMMA ByIdFacts ==
  ASSUME NEW M, IsFiniteSet(M), \A m \in M : m.id \in Nat
  PROVE  ById(M) \in Seq(M)
<1> DEFINE ids == {m.id : m \in M}
           C == Cardinality(ids)
<1>1. ids \subseteq Nat /\ IsFiniteSet(ids)
  <2> DEFINE key == [m \in M |-> m.id]
  <2>1. key \in Surjection(M, ids)
    BY DEF Surjection
  <2>2. QED
    BY <2>1, FS_Surjection
<1>2. C \in Nat
  BY <1>1, FS_CardinalityType
<1>3. \A i \in 1..C : \E m \in M : Cardinality({j \in ids : j <= m.id}) = i
  <2> TAKE i \in 1..C
  <2>1. PICK n \in ids : Cardinality({j \in ids : j <= n}) = i
    <3> HIDE DEF ids
    <3>1. QED
      BY <1>1, NthExists
  <2>2. PICK m \in M : n = m.id
    OBVIOUS
  <2>3. QED
    BY <2>1, <2>2
<1> DEFINE nth(i) == CHOOSE m \in M : Cardinality({j \in ids : j <= m.id}) = i
<1>4. ById(M) = [i \in 1..C |-> nth(i)]
  BY DEF ById
<1> HIDE DEF ids, C
<1>5. \A i \in 1..C : nth(i) \in M
  BY <1>3
<1> HIDE DEF nth
<1>6. QED
  BY <1>2, <1>4, <1>5

(* The least number of a set. *)
LEMMA LeastFails ==
  ASSUME NEW S, S \subseteq Nat, S # {}
  PROVE  \E n \in S : n = 0 \/ (n-1 \in Nat /\ n-1 \notin S)
<1>1. PICK n \in S : \A k \in S : ~(<<k, n>> \in OpToRel(<, Nat))
  BY WFMin, NatLessThanWellFounded
<1>2. \A k \in S : ~(k < n)
  BY <1>1 DEF OpToRel
<1>3. QED
  BY <1>2

(* What the moves so far have taken of the host. *)
LEMMA BalancesFacts ==
  ASSUME NEW order, Len(order) \in Nat
  PROVE  Balances(order) = [k \in 0..Len(order) |-> IF k = 0 THEN 0 ELSE Balances(order)[k-1] + HostGain(order[k])]
<1> DEFINE Upto(f, n) == f = [k \in 0..n |-> IF k = 0 THEN 0 ELSE f[k-1] + HostGain(order[k])]
           Missing == {n \in Nat : ~\E f : Upto(f, n)}
<1>1. Missing = {}
  <2> SUFFICES ASSUME Missing # {}
               PROVE  FALSE
    OBVIOUS
  <2>1. PICK n \in Missing : n = 0 \/ (n-1 \in Nat /\ n-1 \notin Missing)
    <3>1. Missing \subseteq Nat
      OBVIOUS
    <3> HIDE DEF Missing
    <3>2. QED
      BY <3>1, LeastFails
  <2>2. CASE n = 0
    <3>1. Upto([k \in 0..0 |-> 0], 0)
      OBVIOUS
    <3>2. QED
      BY <2>2, <3>1
  <2>3. CASE n-1 \in Nat /\ n-1 \notin Missing
    <3>1. PICK f : Upto(f, n-1)
      BY <2>3
    <3> DEFINE g == [k \in 0..n |-> IF k = n THEN f[n-1] + HostGain(order[n]) ELSE f[k]]
    <3>2. n \in Nat /\ n # 0
      BY <2>3
    <3>3. \A k \in 0..n : g[k] = IF k = 0 THEN 0 ELSE g[k-1] + HostGain(order[k])
      <4> TAKE k \in 0..n
      <4>1. CASE k = n
        BY <3>2, <4>1
      <4>2. CASE k # n
        <5>1. k \in 0..n-1 /\ g[k] = f[k]
          BY <3>2, <4>2
        <5>2. f[k] = IF k = 0 THEN 0 ELSE f[k-1] + HostGain(order[k])
          BY <3>1, <5>1
        <5>3. k # 0 => g[k-1] = f[k-1]
          BY <3>2, <5>1
        <5>4. QED
          BY <5>1, <5>2, <5>3
      <4>3. QED
        BY <4>1, <4>2
    <3>4. Upto(g, n)
      BY <3>3
    <3> HIDE DEF g, Upto
    <3>5. QED
      BY <3>4
  <2>4. QED
    BY <2>1, <2>2, <2>3
<1>2. \E f : Upto(f, Len(order))
  BY <1>1
<1>3. QED
  BY <1>2 DEF Balances

LEMMA BalancesAgree ==
  ASSUME NEW s, NEW t, Len(s) \in Nat, Len(t) \in Nat, NEW n \in Nat, n <= Len(s), n <= Len(t),
         \A k \in 1..n : s[k] = t[k]
  PROVE  \A k \in 0..n : Balances(s)[k] = Balances(t)[k]
<1> DEFINE Wrong == {k \in 0..n : Balances(s)[k] # Balances(t)[k]}
<1> SUFFICES ASSUME Wrong # {}
             PROVE  FALSE
  OBVIOUS
<1>1. Wrong \subseteq Nat
  OBVIOUS
<1>2. PICK k \in Wrong : k = 0 \/ (k-1 \in Nat /\ k-1 \notin Wrong)
  <2> HIDE DEF Wrong
  <2>1. QED
    BY <1>1, LeastFails
<1>3. /\ k \in 0..Len(s) /\ k \in 0..Len(t) /\ k \in 0..n
      /\ k # 0 => k \in 1..n /\ k-1 \in 0..n
  OBVIOUS
<1>4. /\ Balances(s)[k] = IF k = 0 THEN 0 ELSE Balances(s)[k-1] + HostGain(s[k])
      /\ Balances(t)[k] = IF k = 0 THEN 0 ELSE Balances(t)[k-1] + HostGain(t[k])
  BY <1>3, BalancesFacts
<1>5. k # 0 => Balances(s)[k-1] = Balances(t)[k-1] /\ s[k] = t[k]
  BY <1>2, <1>3
<1>6. QED
  BY <1>4, <1>5

LEMMA EmptyFeasible ==
  ASSUME NEW M, NEW cap
  PROVE  << >> \in Seq(M) /\ Feasible(<< >>, cap) /\ Balances(<< >>)[Len(<< >>)] = 0
<1>1. Len(<< >>) = 0 /\ << >> \in Seq(M) /\ DOMAIN << >> = {}
  OBVIOUS
<1>2. Balances(<< >>)[0] = 0
  BY <1>1, BalancesFacts
<1>3. QED
  BY <1>1, <1>2 DEF Feasible

(* One more move that fits. *)
LEMMA AppendFeasible ==
  ASSUME NEW M, NEW order \in Seq(M), NEW m \in M, NEW cap, Feasible(order, cap),
         Transient(m, Balances(order)[Len(order)], cap)
  PROVE  /\ Append(order, m) \in Seq(M) /\ Feasible(Append(order, m), cap)
         /\ Balances(Append(order, m))[Len(Append(order, m))] = Balances(order)[Len(order)] + HostGain(m)
<1> DEFINE o == Append(order, m)
           n == Len(order)
<1>1. /\ o \in Seq(M) /\ n \in Nat /\ Len(o) = n+1 /\ DOMAIN o = 1..n+1 /\ DOMAIN order = 1..n
      /\ o[n+1] = m /\ \A k \in 1..n : o[k] = order[k]
  OBVIOUS
<1> HIDE DEF o, n
<1>2. \A k \in 0..n : Balances(o)[k] = Balances(order)[k]
  <2>1. Len(order) = n /\ n <= Len(order) /\ n <= Len(o) /\ Len(o) \in Nat
    BY <1>1 DEF n
  <2>2. QED
    BY <1>1, <2>1, BalancesAgree
<1>3. Balances(o)[n+1] = Balances(o)[n] + HostGain(m)
  <2>1. n+1 \in 0..Len(o) /\ n+1 # 0 /\ (n+1)-1 = n /\ Len(o) \in Nat
    BY <1>1
  <2>2. QED
    BY <1>1, <2>1, BalancesFacts
<1>4. n \in 0..n
  BY <1>1
<1>5. ASSUME NEW k \in 1..n+1
      PROVE  Transient(o[k], Balances(o)[k-1], cap)
  <2>1. CASE k = n+1
    <3>1. k-1 = n
      BY <1>1, <2>1
    <3>2. QED
      BY <1>1, <1>2, <1>4, <2>1, <3>1 DEF n
  <2>2. CASE k # n+1
    <3>1. k \in 1..n /\ k-1 \in 0..n
      BY <1>1, <2>2
    <3>2. QED
      BY <1>1, <1>2, <3>1 DEF Feasible
  <2>3. QED
    BY <2>1, <2>2
<1>6. QED
  BY <1>1, <1>2, <1>3, <1>4, <1>5 DEF Feasible, o, n

(* A balance, with the moves that led to it. *)
Reached(M, node, cap) ==
  /\ node.order \in Seq(M) /\ Feasible(node.order, cap)
  /\ node.host = Balances(node.order)[Len(node.order)]

-----------------------------------------------------------------------------
(* The choice of the largest move *)
LEMMA GreedyRuns ==
  ASSUME NEW M, IsFiniteSet(M), NEW extra, NEW cap
  PROVE  Greedy(M, extra, cap) =
           [k \in 0..Cardinality(M) |->
              IF k = 0 THEN [pending |-> M, host |-> 0, order |-> << >>]
              ELSE GreedyStep(Greedy(M, extra, cap)[k-1], extra, cap)]
<1> DEFINE first == [pending |-> M, host |-> 0, order |-> << >>]
           Upto(f, n) == f = [k \in 0..n |-> IF k = 0 THEN first ELSE GreedyStep(f[k-1], extra, cap)]
           Missing == {n \in Nat : ~\E f : Upto(f, n)}
<1> HIDE DEF first
<1>1. Missing = {}
  <2> SUFFICES ASSUME Missing # {}
               PROVE  FALSE
    OBVIOUS
  <2>1. PICK n \in Missing : n = 0 \/ (n-1 \in Nat /\ n-1 \notin Missing)
    <3>1. Missing \subseteq Nat
      OBVIOUS
    <3> HIDE DEF Missing
    <3>2. QED
      BY <3>1, LeastFails
  <2>2. CASE n = 0
    <3>1. Upto([k \in 0..0 |-> first], 0)
      OBVIOUS
    <3>2. QED
      BY <2>2, <3>1
  <2>3. CASE n-1 \in Nat /\ n-1 \notin Missing
    <3>1. PICK f : Upto(f, n-1)
      BY <2>3
    <3> DEFINE g == [k \in 0..n |-> IF k = n THEN GreedyStep(f[n-1], extra, cap) ELSE f[k]]
    <3>2. n \in Nat /\ n # 0
      BY <2>3
    <3>3. \A k \in 0..n : g[k] = IF k = 0 THEN first ELSE GreedyStep(g[k-1], extra, cap)
      <4> TAKE k \in 0..n
      <4>1. CASE k = n
        BY <3>2, <4>1
      <4>2. CASE k # n
        <5>1. k \in 0..n-1 /\ g[k] = f[k]
          BY <3>2, <4>2
        <5>2. f[k] = IF k = 0 THEN first ELSE GreedyStep(f[k-1], extra, cap)
          BY <3>1, <5>1
        <5>3. k # 0 => g[k-1] = f[k-1]
          BY <3>2, <5>1
        <5>4. QED
          BY <5>1, <5>2, <5>3
      <4>3. QED
        BY <4>1, <4>2
    <3>4. Upto(g, n)
      BY <3>3
    <3> HIDE DEF g, Upto
    <3>5. QED
      BY <3>4
  <2>4. QED
    BY <2>1, <2>2, <2>3
<1>2. Cardinality(M) \in Nat
  BY FS_CardinalityType
<1>3. \E f : Upto(f, Cardinality(M))
  BY <1>1, <1>2
<1>4. QED
  BY <1>3 DEF Greedy, first

(* A finite set of numbers has a greatest. *)
LEMMA GreatestExists ==
  ASSUME NEW S, S \subseteq Nat, IsFiniteSet(S), S # {}
  PROVE  \E i \in S : \A j \in S : j <= i
<1>1. Cardinality(S) \in Nat /\ Cardinality(S) # 0
  BY FS_CardinalityType, FS_EmptySet
<1>2. Cardinality(S) \in 1..Cardinality(S)
  BY <1>1
<1>3. PICK i \in S : Cardinality({j \in S : j <= i}) = Cardinality(S)
  BY <1>2, NthExists
<1>4. {j \in S : j <= i} \in SUBSET S
  OBVIOUS
<1>5. {j \in S : j <= i} = S
  BY <1>3, <1>4, FS_Subset
<1>6. QED
  BY <1>5

MovesTyped(M) == IsFiniteSet(M) /\ \A m \in M : m.id \in Nat /\ m.n \in Nat /\ m.to \in {"cpu", "gpu"}

LEMMA LargestFacts ==
  ASSUME NEW S, MovesTyped(S), S # {}
  PROVE  Largest(S) \in S
<1> DEFINE bytes == {m.n : m \in S}
<1>1. bytes \subseteq Nat /\ IsFiniteSet(bytes) /\ bytes # {}
  <2> DEFINE f == [m \in S |-> m.n]
  <2>1. f \in Surjection(S, bytes)
    BY DEF Surjection
  <2>2. QED
    BY <2>1, FS_Surjection DEF MovesTyped
<1>2. PICK n \in bytes : \A j \in bytes : j <= n
  <2> HIDE DEF bytes
  <2>1. QED
    BY <1>1, GreatestExists
<1> DEFINE T == {m \in S : m.n = n}
           ids == {m.id : m \in T}
<1>3. IsFiniteSet(T) /\ T # {}
  <2>1. T \in SUBSET S /\ T # {}
    OBVIOUS
  <2> HIDE DEF T
  <2>2. QED
    BY <2>1, FS_Subset DEF MovesTyped
<1>4. ids \subseteq Nat /\ IsFiniteSet(ids) /\ ids # {}
  <2> DEFINE f == [m \in T |-> m.id]
  <2>1. f \in Surjection(T, ids)
    BY DEF Surjection
  <2>2. IsFiniteSet(ids)
    <3> HIDE DEF f, ids, T
    <3>1. QED
      BY <1>3, <2>1, FS_Surjection
  <2>3. QED
    BY <1>3, <2>2 DEF MovesTyped
<1>5. PICK i \in ids : \A j \in ids : j <= i
  <2> HIDE DEF ids
  <2>1. QED
    BY <1>4, GreatestExists
<1>6. PICK m \in S : m.n = n /\ m.id = i
  OBVIOUS
<1>7. ASSUME NEW o \in S
      PROVE  o.n < m.n \/ (o.n = m.n /\ o.id <= m.id)
  <2>1. o.n \in Nat /\ m.n \in Nat /\ o.n <= m.n
    BY <1>2, <1>6 DEF MovesTyped
  <2>2. o.n = m.n => o.id <= m.id
    BY <1>5, <1>6
  <2>3. QED
    BY <2>1, <2>2
<1>8. QED
  BY <1>7 DEF Largest

LEMMA GreedyChoice ==
  ASSUME NEW M, MovesTyped(M), NEW extra, NEW cap, NEW s, s.pending \subseteq M,
         FittingChoices(s, extra, cap) # {}
  PROVE  LET m == Largest(FittingChoices(s, extra, cap))
         IN  m \in s.pending /\ Transient(m, s.host, cap)
<1> DEFINE S == FittingChoices(s, extra, cap)
<1>1. /\ S \subseteq s.pending
      /\ \A m \in S : IF m.to = "gpu" THEN m.n - s.host <= cap.gpu ELSE s.host + m.n <= cap.host
  BY DEF FittingChoices, Candidates, Fitting
<1> HIDE DEF S
<1>2. MovesTyped(S)
  <2>1. S \in SUBSET M
    BY <1>1
  <2>2. QED
    BY <2>1, FS_Subset DEF MovesTyped
<1>3. Largest(S) \in S
  BY <1>2, LargestFacts DEF S
<1>4. QED
  BY <1>1, <1>2, <1>3 DEF Transient, MovesTyped, S

LEMMA GreedyReaches ==
  ASSUME NEW M, MovesTyped(M), NEW extra, NEW cap, NEW k \in 0..Cardinality(M)
  PROVE  Greedy(M, extra, cap)[k].pending \subseteq M /\ Reached(M, Greedy(M, extra, cap)[k], cap)
<1> DEFINE at == Greedy(M, extra, cap)
           N == Cardinality(M)
           Fine(s) == s.pending \subseteq M /\ Reached(M, s, cap)
           Wrong == {n \in 0..N : ~Fine(at[n])}
<1> SUFFICES ASSUME Wrong # {}
             PROVE  FALSE
  OBVIOUS
<1>1. PICK n \in Wrong : n = 0 \/ (n-1 \in Nat /\ n-1 \notin Wrong)
  <2>1. Wrong \subseteq Nat
    OBVIOUS
  <2> HIDE DEF Wrong
  <2>2. QED
    BY <2>1, LeastFails
<1>2. n \in 0..N /\ N \in Nat /\ ~Fine(at[n])
  BY FS_CardinalityType DEF MovesTyped
<1>3. at[n] = IF n = 0 THEN [pending |-> M, host |-> 0, order |-> << >>] ELSE GreedyStep(at[n-1], extra, cap)
  BY <1>2, GreedyRuns DEF MovesTyped
<1>4. CASE n = 0
  <2>1. at[n].pending = M /\ at[n].host = 0 /\ at[n].order = << >>
    BY <1>3, <1>4
  <2> HIDE DEF at
  <2>2. QED
    BY <1>2, <2>1, EmptyFeasible DEF Reached
<1>5. CASE n # 0
  <2> DEFINE s == at[n-1]
             m == Largest(FittingChoices(s, extra, cap))
  <2>1. Fine(s) /\ at[n] = GreedyStep(s, extra, cap)
    BY <1>1, <1>2, <1>3, <1>5
  <2> HIDE DEF s, at
  <2>2. FittingChoices(s, extra, cap) # {} /\ at[n] = Take(m, s)
    BY <1>2, <2>1 DEF GreedyStep
  <2>3. m \in s.pending /\ Transient(m, s.host, cap)
    BY <2>1, <2>2, GreedyChoice
  <2> HIDE DEF m
  <2>4. /\ at[n].pending = s.pending \ {m} /\ at[n].host = s.host + HostGain(m)
        /\ at[n].order = Append(s.order, m)
    BY <2>2 DEF Take
  <2>5. m \in M /\ s.order \in Seq(M) /\ Feasible(s.order, cap) /\ s.host = Balances(s.order)[Len(s.order)]
    BY <2>1, <2>3 DEF Reached
  <2>6. Reached(M, at[n], cap)
    BY <2>3, <2>4, <2>5, AppendFeasible DEF Reached
  <2>7. QED
    BY <1>2, <2>1, <2>4, <2>6
<1>6. QED
  BY <1>4, <1>5

-----------------------------------------------------------------------------
(* The search over the orders *)
SearchFrom(M) ==
  [frontier |-> <<[remaining |-> M, host |-> 0, order |-> << >>]>>,
   visited |-> {M}, found |-> [err |-> "capacity", order |-> << >>]]
LEMMA SearchRuns ==
  ASSUME NEW M, IsFiniteSet(M), NEW extra, NEW cap
  PROVE  Search(M, extra, cap) =
           [k \in 0..Cardinality(SUBSET M) |->
              IF k = 0 THEN SearchFrom(M)
              ELSE SearchStep(Search(M, extra, cap)[k-1], extra, cap)]
<1> DEFINE first == SearchFrom(M)
           Upto(f, n) == f = [k \in 0..n |-> IF k = 0 THEN first ELSE SearchStep(f[k-1], extra, cap)]
           Missing == {n \in Nat : ~\E f : Upto(f, n)}
<1> HIDE DEF first
<1>1. Missing = {}
  <2> SUFFICES ASSUME Missing # {}
               PROVE  FALSE
    OBVIOUS
  <2>1. PICK n \in Missing : n = 0 \/ (n-1 \in Nat /\ n-1 \notin Missing)
    <3>1. Missing \subseteq Nat
      OBVIOUS
    <3> HIDE DEF Missing
    <3>2. QED
      BY <3>1, LeastFails
  <2>2. CASE n = 0
    <3>1. Upto([k \in 0..0 |-> first], 0)
      OBVIOUS
    <3>2. QED
      BY <2>2, <3>1
  <2>3. CASE n-1 \in Nat /\ n-1 \notin Missing
    <3>1. PICK f : Upto(f, n-1)
      BY <2>3
    <3> DEFINE g == [k \in 0..n |-> IF k = n THEN SearchStep(f[n-1], extra, cap) ELSE f[k]]
    <3>2. n \in Nat /\ n # 0
      BY <2>3
    <3>3. \A k \in 0..n : g[k] = IF k = 0 THEN first ELSE SearchStep(g[k-1], extra, cap)
      <4> TAKE k \in 0..n
      <4>1. CASE k = n
        BY <3>2, <4>1
      <4>2. CASE k # n
        <5>1. k \in 0..n-1 /\ g[k] = f[k]
          BY <3>2, <4>2
        <5>2. f[k] = IF k = 0 THEN first ELSE SearchStep(f[k-1], extra, cap)
          BY <3>1, <5>1
        <5>3. k # 0 => g[k-1] = f[k-1]
          BY <3>2, <5>1
        <5>4. QED
          BY <5>1, <5>2, <5>3
      <4>3. QED
        BY <4>1, <4>2
    <3>4. Upto(g, n)
      BY <3>3
    <3> HIDE DEF g, Upto
    <3>5. QED
      BY <3>4
  <2>4. QED
    BY <2>1, <2>2, <2>3
<1>2. Cardinality(SUBSET M) \in Nat
  BY FS_SUBSET, FS_CardinalityType
<1>3. \E f : Upto(f, Cardinality(SUBSET M))
  BY <1>1, <1>2
<1>4. QED
  BY <1>3 DEF Search, SearchFrom, first

NodeFits(M, x, cap) == x.remaining \subseteq M /\ Reached(M, x, cap)
FrontierFits(M, f, cap) == \E T : f \in Seq(T) /\ \A x \in T : NodeFits(M, x, cap)
FoundFits(M, r, cap) == r.err = "none" => r.order \in Seq(M) /\ Feasible(r.order, cap)
SearchFits(M, s, cap) ==
  /\ s \in [frontier : {s.frontier}, visited : {s.visited}, found : {s.found}]
  /\ FrontierFits(M, s.frontier, cap) /\ FoundFits(M, s.found, cap)

LEMMA FrontierOf ==
  ASSUME NEW M, NEW cap, NEW T, NEW f \in Seq(T), \A x \in T : NodeFits(M, x, cap)
  PROVE  FrontierFits(M, f, cap)
  BY DEF FrontierFits

LEMMA EnteredFits ==
  ASSUME NEW M, MovesTyped(M), NEW cap, NEW visited, NEW top, NodeFits(M, top, cap)
  PROVE  FrontierFits(M, Entered(top, Enterable(top, visited, cap)), cap)
<1> DEFINE E == {m \in top.remaining :
                   /\ top.remaining \ {m} \notin visited
                   /\ IF m.to = "gpu" THEN m.n - top.host <= cap.gpu ELSE top.host + m.n <= cap.host}
           next == ById(E)
           child(m) == [remaining |-> top.remaining \ {m}, host |-> top.host + HostGain(m),
                        order |-> Append(top.order, m)]
           T == {child(m) : m \in E}
<1>1. E \subseteq M /\ \A m \in E : Transient(m, top.host, cap)
  BY DEF NodeFits, MovesTyped, Transient
<1>2. next \in Seq(E)
  <2> HIDE DEF E
  <2>1. E \in SUBSET M
    BY <1>1
  <2>2. IsFiniteSet(E) /\ \A m \in E : m.id \in Nat
    BY <2>1, FS_Subset DEF MovesTyped
  <2>3. QED
    BY <2>2, ByIdFacts
<1>3. ASSUME NEW m \in E
      PROVE  NodeFits(M, child(m), cap)
  <2>1. m \in M /\ Transient(m, top.host, cap) /\ top.order \in Seq(M) /\ Feasible(top.order, cap)
        /\ top.host = Balances(top.order)[Len(top.order)] /\ top.remaining \subseteq M
    BY <1>1, <1>3 DEF NodeFits, Reached
  <2>2. /\ child(m).remaining = top.remaining \ {m} /\ child(m).host = top.host + HostGain(m)
        /\ child(m).order = Append(top.order, m)
    OBVIOUS
  <2> HIDE DEF child, E
  <2>3. Reached(M, child(m), cap)
    BY <2>1, <2>2, AppendFeasible DEF Reached
  <2>4. QED
    BY <2>1, <2>2, <2>3 DEF NodeFits
<1>4. Entered(top, next) = [i \in DOMAIN next |-> child(next[i])]
  BY DEF Entered
<1>5. next = ById(E) /\ Enterable(top, visited, cap) = next
  BY DEF Enterable
<1> HIDE DEF E, child, next
<1>6. Entered(top, next) \in Seq(T)
  <2>1. DOMAIN next = 1..Len(next) /\ Len(next) \in Nat /\ \A i \in DOMAIN next : next[i] \in E
    BY <1>2
  <2>2. \A i \in DOMAIN next : child(next[i]) \in T
    BY <2>1
  <2> HIDE DEF T
  <2>3. QED
    BY <1>4, <2>1, <2>2
<1>7. \A x \in T : NodeFits(M, x, cap)
  BY <1>3
<1> HIDE DEF T
<1>8. QED
  BY <1>5, <1>6, <1>7 DEF FrontierFits

LEMMA SearchStepFits ==
  ASSUME NEW M, MovesTyped(M), NEW extra, NEW cap, NEW s, SearchFits(M, s, cap)
  PROVE  SearchFits(M, SearchStep(s, extra, cap), cap)
<1> DEFINE e == SearchStep(s, extra, cap)
           top == Last(s.frontier)
           rest == Front(s.frontier)
<1>1. CASE s.frontier = << >>
  BY <1>1 DEF SearchStep
<1>2. CASE s.frontier # << >>
  <2>1. PICK T : s.frontier \in Seq(T) /\ \A x \in T : NodeFits(M, x, cap)
    BY DEF SearchFits, FrontierFits
  <2>2. top \in T /\ rest \in Seq(T)
    <3> DEFINE f == s.frontier
    <3>1. f \in Seq(T) /\ f # << >>
      BY <1>2, <2>1
    <3> HIDE DEF f
    <3>2. Last(f) \in T /\ Front(f) \in Seq(T)
      BY <3>1 DEF Last, Front
    <3>3. QED
      BY <3>2 DEF f
  <2>3. e = Visit(s, top, rest, extra, cap)
    BY <1>2 DEF SearchStep
  <2>4. NodeFits(M, top, cap) /\ FrontierFits(M, rest, cap)
    BY <2>1, <2>2 DEF FrontierFits
  <2>5. FrontierFits(M, << >>, cap)
    <3> DEFINE one == {top}
               f == << >>
    <3>1. f \in Seq(one) /\ \A x \in one : NodeFits(M, x, cap)
      BY <2>4
    <3> HIDE DEF one, f
    <3>2. FrontierFits(M, f, cap)
      BY <3>1, FrontierOf
    <3>3. QED
      BY <3>2 DEF f
  <2> HIDE DEF e, top, rest
  <2>6. CASE e = Stop("none", top.order)
    <3>1. top.order \in Seq(M) /\ Feasible(top.order, cap)
      BY <2>4 DEF NodeFits, Reached
    <3>2. e.frontier = << >> /\ e.found.err = "none" /\ e.found.order = top.order
      BY <2>6 DEF Stop
    <3>3. e \in [frontier : {e.frontier}, visited : {e.visited}, found : {e.found}]
      BY <2>6 DEF Stop
    <3>4. QED
      BY <2>5, <3>1, <3>2, <3>3 DEF SearchFits, FoundFits, e
  <2>7. CASE e = Stop("limit", << >>)
    <3>1. e.frontier = << >> /\ e.found.err = "limit"
      BY <2>7 DEF Stop
    <3>2. e \in [frontier : {e.frontier}, visited : {e.visited}, found : {e.found}]
      BY <2>7 DEF Stop
    <3>3. QED
      BY <2>5, <3>1, <3>2 DEF SearchFits, FoundFits, e
  <2>8. CASE e = [s EXCEPT !.frontier = rest]
    <3>1. e.frontier = rest /\ e.found = s.found
          /\ e \in [frontier : {e.frontier}, visited : {e.visited}, found : {e.found}]
      BY <2>8 DEF SearchFits
    <3>2. QED
      BY <2>4, <3>1 DEF SearchFits, e
  <2>9. CASE e = Pushed(s, rest, Entered(top, Enterable(top, s.visited, cap)))
    <3> DEFINE new == Entered(top, Enterable(top, s.visited, cap))
    <3>1. PICK U : new \in Seq(U) /\ \A x \in U : NodeFits(M, x, cap)
      BY <2>4, EnteredFits DEF FrontierFits
    <3>2. e = Pushed(s, rest, new)
      BY <2>9
    <3> HIDE DEF new
    <3>3. e.frontier = rest \o new /\ e.found = s.found
          /\ e \in [frontier : {e.frontier}, visited : {e.visited}, found : {e.found}]
      BY <3>2 DEF SearchFits, Pushed
    <3>4. rest \in Seq(T \cup U) /\ new \in Seq(T \cup U)
      BY <2>2, <3>1
    <3>5. rest \o new \in Seq(T \cup U)
      BY <3>4
    <3>6. FrontierFits(M, e.frontier, cap)
      BY <2>1, <3>1, <3>3, <3>5 DEF FrontierFits
    <3>7. QED
      BY <3>3, <3>6 DEF SearchFits, e
  <2>10. QED
    BY <2>3, <2>6, <2>7, <2>8, <2>9 DEF Visit
<1>3. QED
  BY <1>1, <1>2

LEMMA SearchAlways ==
  ASSUME NEW M, MovesTyped(M), NEW extra, NEW cap
  PROVE  \A n \in 0..Cardinality(SUBSET M) : SearchFits(M, Search(M, extra, cap)[n], cap)
<1> DEFINE at == Search(M, extra, cap)
           N == Cardinality(SUBSET M)
           Wrong == {n \in 0..N : ~SearchFits(M, at[n], cap)}
<1>1. N \in Nat
  BY FS_SUBSET, FS_CardinalityType DEF MovesTyped
<1>2. Wrong = {}
  <2> SUFFICES ASSUME Wrong # {}
               PROVE  FALSE
    OBVIOUS
  <2>1. PICK n \in Wrong : n = 0 \/ (n-1 \in Nat /\ n-1 \notin Wrong)
    <3>1. Wrong \subseteq Nat
      OBVIOUS
    <3> HIDE DEF Wrong
    <3>2. QED
      BY <3>1, LeastFails
  <2> HIDE DEF N
  <2>2. n \in 0..N /\ ~SearchFits(M, at[n], cap)
    OBVIOUS
  <2>3. at[n] = IF n = 0 THEN SearchFrom(M) ELSE SearchStep(at[n-1], extra, cap)
    <3>1. at = [k \in 0..N |-> IF k = 0 THEN SearchFrom(M) ELSE SearchStep(at[k-1], extra, cap)]
      BY SearchRuns DEF MovesTyped, N
    <3> HIDE DEF at
    <3>2. QED
      BY <2>2, <3>1
  <2>4. CASE n = 0
    <3> DEFINE x == [remaining |-> M, host |-> 0, order |-> << >>]
    <3>1. at[n] = SearchFrom(M)
      BY <2>3, <2>4
    <3>2. /\ SearchFrom(M).frontier = <<x>> /\ SearchFrom(M).found.err = "capacity"
          /\ SearchFrom(M) \in [frontier : {SearchFrom(M).frontier}, visited : {SearchFrom(M).visited},
                                found : {SearchFrom(M).found}]
      BY DEF SearchFrom
    <3>3. x.remaining = M /\ x.host = 0 /\ x.order = << >>
      OBVIOUS
    <3> HIDE DEF x
    <3>4. NodeFits(M, x, cap)
      BY <3>3, EmptyFeasible DEF NodeFits, Reached
    <3> DEFINE one == {x}
               f == <<x>>
    <3>5. f \in Seq(one) /\ \A y \in one : NodeFits(M, y, cap)
      BY <3>4
    <3> HIDE DEF one
    <3>6. FrontierFits(M, f, cap)
      <4> HIDE DEF f
      <4>1. QED
        BY <3>5, FrontierOf
    <3>7. SearchFits(M, SearchFrom(M), cap)
      BY <3>2, <3>6 DEF SearchFits, FoundFits
    <3>8. QED
      BY <2>2, <3>1, <3>7
  <2>5. CASE n # 0
    <3>1. n-1 \in 0..N /\ SearchFits(M, at[n-1], cap)
      BY <1>1, <2>1, <2>2, <2>5
    <3> HIDE DEF at
    <3>2. QED
      BY <2>2, <2>3, <2>5, <3>1, SearchStepFits
  <2>6. QED
    BY <2>4, <2>5
<1>3. QED
  BY <1>2

LEMMA SearchReaches ==
  ASSUME NEW M, MovesTyped(M), NEW extra, NEW cap
  PROVE  FoundFits(M, FindMigrationOrder(M, extra, cap), cap)
<1> DEFINE N == Cardinality(SUBSET M)
<1>1. N \in 0..N
  BY FS_SUBSET, FS_CardinalityType DEF MovesTyped
<1>2. SearchFits(M, Search(M, extra, cap)[N], cap)
  BY <1>1, SearchAlways
<1>3. QED
  BY <1>2 DEF SearchFits, FindMigrationOrder

LEMMA OrderFits ==
  ASSUME NEW M, MovesTyped(M), NEW extra, NEW cap
  PROVE  FoundFits(M, OrderMigrations(M, extra, cap), cap)
<1> DEFINE last == Greedy(M, extra, cap)[Cardinality(M)]
           r == OrderMigrations(M, extra, cap)
<1>1. r = IF last.pending = {} THEN [err |-> "none", order |-> last.order, searched |-> FALSE]
          ELSE Searched(FindMigrationOrder(M, extra, cap))
  BY DEF OrderMigrations, GreedyOrder
<1>2. Cardinality(M) \in 0..Cardinality(M)
  BY FS_CardinalityType DEF MovesTyped
<1>3. Reached(M, last, cap)
  BY <1>2, GreedyReaches
<1> HIDE DEF last, r
<1>4. CASE last.pending = {}
  <2>1. r.order = last.order
    BY <1>1, <1>4
  <2>2. QED
    BY <1>3, <2>1 DEF Reached, FoundFits, r
<1>5. CASE last.pending # {}
  <2> DEFINE f == FindMigrationOrder(M, extra, cap)
  <2>1. FoundFits(M, f, cap)
    BY SearchReaches
  <2> HIDE DEF f
  <2>2. r = Searched(f)
    BY <1>1, <1>5 DEF f
  <2>3. r.err = f.err /\ r.order = f.order
    BY <2>2 DEF Searched
  <2>4. QED
    BY <2>1, <2>3 DEF FoundFits, r
<1>6. QED
  BY <1>4, <1>5

-----------------------------------------------------------------------------
(* The adoption of a saved plan: of an order that fits so much is done; what
   pinning copies at its end, and the loader, fit what is then free. *)
UnderWay(order, done) ==
  /\ (\E T : order \in Seq(T)) /\ done \in 0..Len(order)
  /\ \A k \in DOMAIN order : order[k].n = StorageSizes[order[k].id]
  /\ adoption.todo = SubSeq(order, done+1, Len(order)) /\ adoption.host = Balances(order)[done]
  /\ Feasible(order, adoption.cap)
  /\ LoaderFits(adoption.spec, Balances(order)[Len(order)], adoption.cap)
  /\ \A s \in adoption.spec.copies \cap adoption.pins :
       Balances(order)[Len(order)] + StorageSizes[s] <= adoption.cap.host
AdoptInv ==
  /\ \A s \in DOMAIN place : place[s].n = StorageSizes[s]
  /\ adoption.status = "running" => \E order, done : UnderWay(order, done)

LEMMA TargetFacts ==
  ASSUME IInv, phase = "saved", NEW profile, NEW storage, NEW size, NEW pinning,
         TargetFromProfile(place, profile, storage, size, pinning).err = "none"
  PROVE  \A s \in DOMAIN place :
           /\ TargetFromProfile(place, profile, storage, size, pinning).target[s].dev \in {"cpu", "gpu"}
           /\ TargetFromProfile(place, profile, storage, size, pinning).target[s].n = place[s].n
<1> DEFINE target == TargetStorages(place, profile, storage, pinning)
<1>1. TargetFromProfile(place, profile, storage, size, pinning).target = target
  BY DEF TargetFromProfile
<1>2. \A s \in DOMAIN place : place[s] \in [dev : {place[s].dev}, n : {place[s].n}, pinned : BOOLEAN]
  BY DEF IInv, PlaceInv
<1>3. \A s \in DOMAIN place : target[s].dev \in {"cpu", "gpu"} /\ target[s].n = place[s].n
  BY <1>2 DEF TargetStorages
<1>4. QED
  BY <1>1, <1>3

LEMMA MigrationsFacts ==
  ASSUME IInv, phase = "saved", AdoptInv, NEW target, \A s \in DOMAIN place : target[s].dev \in {"cpu", "gpu"}
  PROVE  /\ MovesTyped(Migrations(place, target))
         /\ \A m \in Migrations(place, target) : m.id \in DOMAIN place /\ m.n = StorageSizes[m.id]
<1> DEFINE S == {s \in DOMAIN place : place[s].dev # target[s].dev}
           move(s) == [id |-> s, to |-> target[s].dev, n |-> place[s].n]
           M == {move(s) : s \in S}
<1>1. Migrations(place, target) = M
  BY DEF Migrations
<1>2. DOMAIN place = DOMAIN StorageSizes
  BY DEF IInv, PlaceInv
<1>3. \A s \in S : s \in DOMAIN place /\ s \in Nat /\ place[s].n = StorageSizes[s] /\ StorageSizes[s] \in Nat
  BY <1>2, StoragesAssumption DEF AdoptInv
<1>4. \A m \in M : /\ m.id \in DOMAIN place /\ m.id \in Nat /\ m.to \in {"cpu", "gpu"}
                  /\ m.n = StorageSizes[m.id] /\ m.n \in Nat
  BY <1>3
<1>5. IsFiniteSet(S)
  <2>1. S \in SUBSET DOMAIN StorageSizes
    BY <1>2
  <2> HIDE DEF S
  <2>2. QED
    BY <2>1, StoragesAssumption, FS_Subset
<1>6. IsFiniteSet(M)
  <2> DEFINE f == [s \in S |-> move(s)]
  <2>1. f \in Surjection(S, M)
    BY DEF Surjection
  <2> HIDE DEF f, S, M
  <2>2. QED
    BY <1>5, <2>1, FS_Surjection
<1> HIDE DEF M
<1>7. QED
  BY <1>1, <1>4, <1>6 DEF MovesTyped

LEMMA PlannedFits ==
  ASSUME NEW current, NEW target, NEW spec, NEW cap, MovesTyped(Migrations(current, target)),
         PlanStateTransition(current, target, spec, cap).err = "none"
  PROVE  LET order == PlanStateTransition(current, target, spec, cap).moves
             final == Balances(order)[Len(order)]
         IN  /\ order \in Seq(Migrations(current, target)) /\ Feasible(order, cap)
             /\ LoaderFits(spec, final, cap) /\ \A s \in spec.copies : final + target[s].n <= cap.host
<1> DEFINE M == Migrations(current, target)
           found == OrderMigrations(M, spec.extra, cap)
           final == Balances(found.order)[Len(found.order)]
           plan == PlanStateTransition(current, target, spec, cap)
<1>1. plan = StatePlan(found, final, current, target, spec, cap)
  BY DEF PlanStateTransition, Ordered
<1>2. FoundFits(M, found, cap)
  BY OrderFits
<1> HIDE DEF found, final, M
<1>3. /\ found.err = "none" /\ spec.extra - final <= cap.gpu
      /\ HostFits(found.order, final, target, spec, cap) /\ plan.moves = found.order
  BY <1>1 DEF StatePlan
<1>4. plan.moves \in Seq(M) /\ Feasible(plan.moves, cap)
  BY <1>2, <1>3 DEF FoundFits
<1>5. final = Balances(plan.moves)[Len(plan.moves)]
  BY <1>3 DEF final
<1> HIDE DEF plan
<1>6. QED
  BY <1>3, <1>4, <1>5 DEF HostFits, LoaderFits, plan, M

LEMMA AdoptInit ==
  ASSUME Init
  PROVE  AdoptInv
<1>1. adoption.status # "running"
  BY DEF Init, NoAdoption
<1>2. CASE place = << >>
  BY <1>1, <1>2 DEF AdoptInv
<1>3. CASE place # << >>
  <2>1. PICK dev \in [DOMAIN StorageSizes -> {"cpu", "gpu"}] :
          place = [s \in DOMAIN StorageSizes |-> [dev |-> dev[s], n |-> StorageSizes[s], pinned |-> FALSE]]
    BY <1>3 DEF Init
  <2>2. QED
    BY <1>1, <2>1 DEF AdoptInv
<1>4. QED
  BY <1>2, <1>3

LEMMA AdoptPlan ==
  ASSUME IInv, AdoptInv, Plan
  PROVE  AdoptInv'
<1>1. PICK cap \in Capacities : PlanStateAdoption(prof, setup.storage, setup.size, Pinning, cap)
  BY DEF Plan
<1> DEFINE target == TargetFromProfile(place, prof, setup.storage, setup.size, Pinning)
           plan == PlanStateTransition(place, target.target, target.spec, cap)
           M == Migrations(place, target.target)
<1>2. phase = "saved" /\ place' = place /\ adoption' = Adoption(target, plan, cap)
  BY <1>1 DEF Plan, PlanStateAdoption, PlanFor
<1>3. ASSUME target.err = "none"
      PROVE  \A s \in DOMAIN place : target.target[s].dev \in {"cpu", "gpu"} /\ target.target[s].n = place[s].n
  BY <1>2, <1>3, TargetFacts
<1>4. ASSUME target.err = "none", plan.err = "none"
      PROVE  /\ plan.moves \in Seq(M) /\ Feasible(plan.moves, cap)
             /\ \A m \in M : m.n = StorageSizes[m.id]
             /\ LoaderFits(target.spec, Balances(plan.moves)[Len(plan.moves)], cap)
             /\ \A s \in target.spec.copies : Balances(plan.moves)[Len(plan.moves)] + target.target[s].n <= cap.host
  <2> DEFINE goal == target.target
             spec == target.spec
  <2>1. \A s \in DOMAIN place : goal[s].dev \in {"cpu", "gpu"}
    BY <1>3, <1>4
  <2>2. plan = PlanStateTransition(place, goal, spec, cap) /\ M = Migrations(place, goal)
    OBVIOUS
  <2> HIDE DEF goal, spec, plan
  <2>3. MovesTyped(M) /\ \A m \in M : m.n = StorageSizes[m.id]
    BY <1>2, <2>1, <2>2, MigrationsFacts
  <2>4. QED
    BY <1>4, <2>2, <2>3, PlannedFits DEF goal, spec
<1> HIDE DEF target, plan, M
<1>5. CASE adoption'.status # "running"
  BY <1>2, <1>5 DEF AdoptInv
<1>6. CASE adoption'.status = "running"
  <2>1. target.err = "none" /\ plan.err = "none"
    BY <1>2, <1>6 DEF Adoption, NoAdoption
  <2>2. /\ adoption'.cap = cap /\ adoption'.spec = target.spec /\ adoption'.todo = plan.moves
        /\ adoption'.host = 0 /\ adoption'.pins = plan.pins
    BY <1>2, <2>1 DEF Adoption, NoAdoption
  <2>3. plan.pins \subseteq DOMAIN place
    BY PlannedPins DEF plan
  <2>0. PICK order : order = plan.moves
    OBVIOUS
  <2>4. order \in Seq(M) /\ Feasible(order, cap) /\ \A m \in M : m.n = StorageSizes[m.id]
    BY <1>4, <2>0, <2>1
  <2>5. LoaderFits(target.spec, Balances(order)[Len(order)], cap)
    BY <1>4, <2>0, <2>1
  <2>6. \A s \in target.spec.copies : Balances(order)[Len(order)] + target.target[s].n <= cap.host
    BY <1>4, <2>0, <2>1
  <2>7. \A s \in DOMAIN place : target.target[s].n = StorageSizes[s]
    BY <1>3, <2>1 DEF AdoptInv
  <2>8. /\ Len(order) \in Nat /\ 0 \in 0..Len(order) /\ DOMAIN order = 1..Len(order)
        /\ \A k \in DOMAIN order : order[k] \in M
    BY <2>4
  <2>9. order = SubSeq(order, 0+1, Len(order))
    BY <2>4
  <2>10. Balances(order)[0] = 0
    BY <2>8, BalancesFacts
  <2>11. \A s \in adoption'.spec.copies \cap adoption'.pins :
           Balances(order)[Len(order)] + StorageSizes[s] <= cap.host
    BY <2>2, <2>3, <2>6, <2>7
  <2>12. UnderWay(order, 0)'
    <3>1. (\E T : order \in Seq(T)) /\ \A k \in DOMAIN order : order[k].n = StorageSizes[order[k].id]
      BY <2>4, <2>8
    <3>2. adoption'.todo = SubSeq(order, 0+1, Len(order)) /\ adoption'.host = Balances(order)[0]
      BY <2>0, <2>2, <2>9, <2>10
    <3>3. Feasible(order, adoption'.cap) /\ LoaderFits(adoption'.spec, Balances(order)[Len(order)], adoption'.cap)
      BY <2>2, <2>4, <2>5
    <3>4. \A s \in adoption'.spec.copies \cap adoption'.pins :
            Balances(order)[Len(order)] + StorageSizes[s] <= adoption'.cap.host
      BY <2>2, <2>11
    <3>5. QED
      BY <2>8, <3>1, <3>2, <3>3, <3>4 DEF UnderWay
  <2>13. QED
    BY <1>2, <2>12 DEF AdoptInv
<1>7. QED
  BY <1>5, <1>6

(* The move that is next is a move of the order. *)
LEMMA NextMove ==
  ASSUME NEW order, NEW done, UnderWay(order, done), adoption.todo # << >>
  PROVE  /\ done+1 \in DOMAIN order /\ Head(adoption.todo) = order[done+1]
         /\ Tail(adoption.todo) = SubSeq(order, done+2, Len(order))
         /\ adoption.host + HostGain(order[done+1]) = Balances(order)[done+1]
<1> DEFINE n == Len(order)
           todo == adoption.todo
<1>1. PICK T : order \in Seq(T)
  BY DEF UnderWay
<1>2. /\ n \in Nat /\ done \in 0..n /\ todo = SubSeq(order, done+1, n) /\ todo # << >>
      /\ DOMAIN order = 1..n
  BY <1>1 DEF UnderWay
<1>3. done < n /\ done+1 \in 1..n
  BY <1>1, <1>2
<1>4. Head(todo) = order[done+1]
  BY <1>1, <1>2, <1>3
<1>5. Tail(todo) = SubSeq(order, done+2, n)
  BY <1>1, <1>2, <1>3
<1>6. Balances(order)[done+1] = Balances(order)[done] + HostGain(order[done+1])
  <2>1. done+1 \in 0..n /\ done+1 # 0 /\ (done+1)-1 = done
    BY <1>2, <1>3
  <2>2. Balances(order) = [k \in 0..n |-> IF k = 0 THEN 0 ELSE Balances(order)[k-1] + HostGain(order[k])]
    BY <1>2, BalancesFacts
  <2>3. \A k \in 0..n : k # 0 => Balances(order)[k] = Balances(order)[k-1] + HostGain(order[k])
    BY <2>2
  <2> HIDE DEF n
  <2>4. QED
    BY <2>1, <2>3
<1>7. QED
  BY <1>2, <1>3, <1>4, <1>5, <1>6 DEF UnderWay, n

LEMMA AdoptMigrate ==
  ASSUME IInv, AdoptInv, MigrateStorage
  PROVE  AdoptInv'
<1> DEFINE m == Head(adoption.todo)
<1>1. /\ phase = "saved" /\ adoption.status = "running" /\ adoption.todo # << >>
      /\ place' = Moved(m) /\ adoption' = [adoption EXCEPT !.todo = Tail(@), !.host = @ + HostGain(m)]
  BY DEF MigrateStorage, Migrate
<1>2. PICK order, done : UnderWay(order, done)
  BY <1>1 DEF AdoptInv
<1>3. /\ done+1 \in DOMAIN order /\ m = order[done+1] /\ Tail(adoption.todo) = SubSeq(order, done+2, Len(order))
      /\ adoption.host + HostGain(m) = Balances(order)[done+1]
  BY <1>1, <1>2, NextMove
<1>4. m.n = StorageSizes[m.id]
  BY <1>2, <1>3 DEF UnderWay
<1> HIDE DEF m
<1>5. \A s \in DOMAIN place' : place'[s].n = StorageSizes[s]
  BY <1>1, <1>4 DEF Moved, AdoptInv
<1>6. /\ adoption'.todo = SubSeq(order, done+2, Len(order)) /\ adoption'.host = Balances(order)[done+1]
      /\ adoption'.status = adoption.status /\ adoption'.spec = adoption.spec /\ adoption'.pins = adoption.pins
      /\ adoption'.cap = adoption.cap
  BY <1>1, <1>3 DEF IInv, PlaceInv
<1>7. done+1 \in 0..Len(order) /\ (done+1)+1 = done+2
  BY <1>2, <1>3 DEF UnderWay
<1>8. UnderWay(order, done+1)'
  BY <1>2, <1>6, <1>7 DEF UnderWay
<1>9. QED
  BY <1>5, <1>8 DEF AdoptInv

LEMMA AdoptPin ==
  ASSUME IInv, AdoptInv, PinStorage
  PROVE  AdoptInv'
<1> DEFINE r == Min(adoption.pins)
<1>1. /\ adoption.status = "running" /\ adoption.todo = << >>
      /\ place' = [place EXCEPT ![r].pinned = TRUE] /\ adoption' = [adoption EXCEPT !.pins = @ \ {r}]
  BY DEF PinStorage, PinNext
<1> HIDE DEF r
<1>2. PICK order, done : UnderWay(order, done)
  BY <1>1 DEF AdoptInv
<1>3. \A s \in DOMAIN place' : place'[s].n = StorageSizes[s]
  BY <1>1 DEF AdoptInv, IInv, PlaceInv
<1>4. /\ adoption'.todo = adoption.todo /\ adoption'.host = adoption.host
      /\ adoption'.spec = adoption.spec /\ adoption'.pins = adoption.pins \ {r} /\ adoption'.cap = adoption.cap
  BY <1>1 DEF IInv, PlaceInv
<1>5. UnderWay(order, done)'
  BY <1>2, <1>4 DEF UnderWay
<1>6. QED
  BY <1>3, <1>5 DEF AdoptInv

LEMMA AdoptKeeps ==
  ASSUME IInv, AdoptInv, [Next]_vars
  PROVE  AdoptInv'
<1>1. CASE Plan
  BY <1>1, AdoptPlan
<1>2. CASE MigrateStorage
  BY <1>2, AdoptMigrate
<1>3. CASE PinStorage
  BY <1>3, AdoptPin
<1>4. CASE AdoptionFails
  <2>1. /\ adoption' = Partial
        /\ \/ place' = place
           \/ place' = Moved(Head(adoption.todo)) /\ adoption.todo # << >> /\ adoption.status = "running"
    BY <1>4 DEF AdoptionFails, MigrateFails, PinFails
  <2>2. adoption'.status # "running"
    BY <2>1 DEF Partial, NoAdoption
  <2>3. \A s \in DOMAIN place' : place'[s].n = StorageSizes[s]
    <3>1. CASE place' = place
      BY <3>1 DEF AdoptInv
    <3>2. CASE place' # place
      <4> DEFINE m == Head(adoption.todo)
      <4>1. PICK order, done : UnderWay(order, done)
        BY <2>1, <3>2 DEF AdoptInv
      <4>2. m = order[done+1] /\ done+1 \in DOMAIN order
        BY <2>1, <3>2, <4>1, NextMove
      <4>3. m.n = StorageSizes[m.id] /\ place' = Moved(m)
        BY <2>1, <3>2, <4>1, <4>2 DEF UnderWay
      <4> HIDE DEF m
      <4>4. QED
        BY <4>3 DEF Moved, AdoptInv
    <3>3. QED
      BY <3>1, <3>2
  <2>4. QED
    BY <2>2, <2>3 DEF AdoptInv
<1>5. CASE RestoreAdopted
  BY <1>5 DEF RestoreAdopted, AdoptInv, NoAdoption
<1>6. CASE \/ InitializeWarmup \/ PreprocessFails \/ StartForward \/ Skip \/ FinishForward
           \/ \E l \in Labels : EnterTrap(l) \/ \E S \in SUBSET Tensors : EnterFails(l, S)
           \/ Read \/ ExitTrap \/ BodyRaises \/ TimingFails
           \/ InitializeProfile \/ ProfileRefused \/ ProfileSetupFails
           \/ InitializeInference \/ InferenceFails \/ InitializeRestored
           \/ Shutdown \/ ShutdownFails \/ UNCHANGED vars
  <2>1. UNCHANGED <<place, adoption>>
    BY <1>6 DEF InitializeWarmup, PreprocessFails, StartForward, Skip, FinishForward, EnterTrap, EnterFails,
                Read, ExitTrap, BodyRaises, TimingFails, InitializeProfile, ProfileRefused, ProfileSetupFails,
                InitializeInference, InferenceFails, InitializeRestored, Shutdown, ShutdownFails, vars, adoptionVars
  <2>2. QED
    BY <2>1 DEF AdoptInv, UnderWay
<1>7. QED
  BY <1>1, <1>2, <1>3, <1>4, <1>5, <1>6 DEF Next

(* No step of an adoption takes more than is free: neither a move while its
   source is still there, nor what pinning copies, nor the loader. *)
THEOREM AdoptionFits == Spec => []MigrationsFit
<1>1. ASSUME IInv, AdoptInv, adoption.status = "running"
      PROVE  MigrationsFit
  <2>1. PICK order, done : UnderWay(order, done)
    BY <1>1 DEF AdoptInv
  <2>2. CASE adoption.todo # << >>
    <3>1. done+1 \in DOMAIN order /\ Head(adoption.todo) = order[done+1] /\ (done+1)-1 = done
      BY <2>1, <2>2, NextMove DEF UnderWay
    <3>2. Transient(order[done+1], Balances(order)[done], adoption.cap)
      BY <2>1, <3>1 DEF UnderWay, Feasible
    <3>3. QED
      BY <2>1, <2>2, <3>1, <3>2 DEF UnderWay, MigrationsFit
  <2>3. CASE adoption.todo = << >>
    <3>1. done = Len(order)
      <4>1. PICK T : order \in Seq(T)
        BY <2>1 DEF UnderWay
      <4>2. done \in 0..Len(order) /\ SubSeq(order, done+1, Len(order)) = << >>
        BY <2>1, <2>3 DEF UnderWay
      <4>3. QED
        BY <4>1, <4>2
    <3>2. adoption.pins \subseteq DOMAIN place
      BY <1>1 DEF IInv, PlaceInv
    <3>3. QED
      BY <1>1, <2>1, <2>3, <3>1, <3>2 DEF UnderWay, MigrationsFit, AdoptInv
  <2>4. QED
    BY <2>2, <2>3
<1>2. IInv /\ AdoptInv => MigrationsFit
  BY <1>1 DEF MigrationsFit
<1>3. QED
  BY <1>2, AdoptInit, AdoptKeeps, Invariance, PTL DEF Spec

-----------------------------------------------------------------------------
(* What a set of moves takes of the host, in whatever order. *)
Total(F, M) ==
  /\ F \in [SUBSET M -> Int] /\ F[{}] = 0
  /\ \A T \in SUBSET M : \A x \in T : F[T] = F[T \ {x}] + HostGain(x)

LEMMA GainTyped ==
  ASSUME NEW M, MovesTyped(M), NEW m \in M
  PROVE  HostGain(m) \in Int
  BY DEF MovesTyped, HostGain

LEMMA TotalGrows ==
  ASSUME NEW M, NEW y \in M, HostGain(y) \in Int, \A x \in M : HostGain(x) \in Int,
         NEW F, Total(F, M \ {y})
  PROVE  \E G : Total(G, M)
<1> DEFINE R == M \ {y}
           G == [T \in SUBSET M |-> IF y \in T THEN F[T \ {y}] + HostGain(y) ELSE F[T]]
<1>1. \A T \in SUBSET M : T \ {y} \in SUBSET R /\ (y \notin T => T \in SUBSET R)
  OBVIOUS
<1>2. F \in [SUBSET R -> Int] /\ F[{}] = 0 /\ \A T \in SUBSET R : \A x \in T : F[T] = F[T \ {x}] + HostGain(x)
  BY DEF Total
<1> HIDE DEF R
<1>3. G \in [SUBSET M -> Int] /\ G[{}] = 0
  BY <1>1, <1>2
<1>4. ASSUME NEW T \in SUBSET M, NEW x \in T
      PROVE  G[T] = G[T \ {x}] + HostGain(x)
  <2> DEFINE U == T \ {x}
  <2>1. U \in SUBSET M /\ HostGain(x) \in Int
    OBVIOUS
  <2>2. CASE x = y
    <3>1. G[T] = F[U] + HostGain(y) /\ G[U] = F[U]
      BY <2>1, <2>2
    <3>2. QED
      BY <2>2, <3>1
  <2>3. CASE x # y /\ y \in T
    <3>1. G[T] = F[T \ {y}] + HostGain(y) /\ G[U] = F[U \ {y}] + HostGain(y)
      BY <2>1, <2>3
    <3>2. T \ {y} \in SUBSET R /\ x \in T \ {y} /\ (T \ {y}) \ {x} = U \ {y} /\ U \ {y} \in SUBSET R
      BY <1>1, <2>1, <2>3
    <3>3. F[T \ {y}] = F[U \ {y}] + HostGain(x) /\ F[U \ {y}] \in Int
      BY <1>2, <3>2
    <3> HIDE DEF G, U
    <3>4. QED
      BY <2>1, <3>1, <3>3 DEF U
  <2>4. CASE y \notin T
    <3>1. G[T] = F[T] /\ G[U] = F[U] /\ T \in SUBSET R
      BY <1>1, <2>1, <2>4
    <3>2. QED
      BY <1>2, <3>1
  <2>5. QED
    BY <2>2, <2>3, <2>4
<1> HIDE DEF G
<1>5. Total(G, M)
  BY <1>3, <1>4 DEF Total
<1>6. QED
  BY <1>5

LEMMA TotalExists ==
  ASSUME NEW M, MovesTyped(M)
  PROVE  \E F : Total(F, M)
<1> DEFINE Missing == {n \in Nat : \E S \in SUBSET M : Cardinality(S) = n /\ ~\E F : Total(F, S)}
<1>1. Missing = {}
  <2> SUFFICES ASSUME Missing # {}
               PROVE  FALSE
    OBVIOUS
  <2>1. PICK n \in Missing : n = 0 \/ (n-1 \in Nat /\ n-1 \notin Missing)
    <3>1. Missing \subseteq Nat
      OBVIOUS
    <3> HIDE DEF Missing
    <3>2. QED
      BY <3>1, LeastFails
  <2>2. PICK S \in SUBSET M : Cardinality(S) = n /\ ~\E F : Total(F, S)
    OBVIOUS
  <2>3. IsFiniteSet(S) /\ \A x \in S : HostGain(x) \in Int
    BY FS_Subset, GainTyped DEF MovesTyped
  <2>4. CASE S = {}
    <3> DEFINE F == [T \in SUBSET {} |-> 0]
    <3>1. Total(F, {})
      BY DEF Total
    <3> HIDE DEF F
    <3>2. QED
      BY <2>2, <2>4, <3>1
  <2>5. CASE S # {}
    <3>1. PICK y \in S : TRUE
      BY <2>5
    <3>2. Cardinality(S \ {y}) = n-1 /\ n-1 \in Nat /\ n # 0
      <4>1. IsFiniteSet(S \ {y}) /\ Cardinality(S \ {y}) = Cardinality(S) - 1
        BY <2>3, <3>1, FS_RemoveElement
      <4>2. Cardinality(S \ {y}) \in Nat /\ Cardinality(S) \in Nat
        BY <2>3, <4>1, FS_CardinalityType
      <4>3. QED
        BY <2>2, <4>1, <4>2
    <3>3. S \ {y} \in SUBSET M
      OBVIOUS
    <3>4. PICK F : Total(F, S \ {y})
      BY <2>1, <3>2, <3>3
    <3>5. \E G : Total(G, S)
      BY <2>3, <3>4, TotalGrows
    <3>6. QED
      BY <2>2, <3>5
  <2>6. QED
    BY <2>4, <2>5
<1>2. Cardinality(M) \in Nat /\ M \in SUBSET M
  BY FS_CardinalityType DEF MovesTyped
<1>3. QED
  BY <1>1, <1>2

(* The balance is determined by what was moved (state_transition.py:315). *)
First(order, k) == {order[i] : i \in 1..k}
LEMMA BalanceIsTotal ==
  ASSUME NEW M, NEW F, Total(F, M), NEW order \in Seq(M),
         \A i, j \in 1..Len(order) : i # j => order[i] # order[j]
  PROVE  \A n \in 0..Len(order) : Balances(order)[n] = F[First(order, n)]
<1> DEFINE N == Len(order)
           B == Balances(order)
           first(k) == {order[i] : i \in 1..k}
           Wrong == {k \in 0..N : B[k] # F[first(k)]}
<1>1. /\ N \in Nat /\ B = [k \in 0..N |-> IF k = 0 THEN 0 ELSE B[k-1] + HostGain(order[k])]
      /\ \A k \in 1..N : order[k] \in M
  BY BalancesFacts
<1>2. /\ \A T \in SUBSET M : \A x \in T : F[T] = F[T \ {x}] + HostGain(x)
      /\ F[{}] = 0
  BY DEF Total
<1> HIDE DEF B, N
<1>3. Wrong = {}
  <2> SUFFICES ASSUME Wrong # {}
               PROVE  FALSE
    OBVIOUS
  <2>1. PICK k \in Wrong : k = 0 \/ (k-1 \in Nat /\ k-1 \notin Wrong)
    <3>1. Wrong \subseteq Nat
      OBVIOUS
    <3> HIDE DEF Wrong
    <3>2. QED
      BY <3>1, LeastFails
  <2>2. CASE k = 0
    <3>1. first(k) = {} /\ B[k] = 0
      BY <1>1, <2>1, <2>2
    <3>2. QED
      BY <1>2, <2>1, <3>1
  <2>3. CASE k # 0
    <3>1. k \in 1..N /\ k-1 \in 0..N /\ B[k-1] = F[first(k-1)]
      BY <1>1, <2>1, <2>3
    <3>2. first(k) \in SUBSET M /\ order[k] \in first(k)
      BY <1>1, <3>1
    <3>3. first(k) \ {order[k]} = first(k-1)
      <4>1. \A i \in 1..k-1 : i \in 1..N /\ i # k /\ i \in 1..k
        BY <1>1, <3>1
      <4>2. \A i \in 1..k : i = k \/ i \in 1..k-1
        BY <3>1
      <4>3. \A i \in 1..k-1 : order[i] # order[k]
        BY <3>1, <4>1 DEF N
      <4>4. QED
        BY <4>1, <4>2, <4>3
    <3>4. F[first(k)] = F[first(k-1)] + HostGain(order[k])
      <4> HIDE DEF first
      <4>1. QED
        BY <1>2, <3>2, <3>3
    <3>5. B[k] = B[k-1] + HostGain(order[k])
      <4>1. k \in 0..N
        BY <3>1
      <4>2. QED
        BY <1>1, <2>3, <4>1
    <3>6. QED
      BY <2>1, <3>1, <3>4, <3>5
  <2>4. QED
    BY <2>2, <2>3
<1>4. QED
  BY <1>3 DEF B, N, First

(* Any two orders of the same moves leave the same. *)
LEMMA ListingFacts ==
  ASSUME NEW M, IsFiniteSet(M), NEW order \in SetToSeqs(M)
  PROVE  /\ order \in Seq(M) /\ Len(order) = Cardinality(M) /\ Cardinality(M) \in Nat
         /\ DOMAIN order = 1..Len(order) /\ \A i, j \in 1..Len(order) : i # j => order[i] # order[j]
         /\ First(order, Len(order)) = M
<1> DEFINE N == Cardinality(M)
           D == 1..N
           hit == {order[i] : i \in D}
<1>1. N \in Nat
  BY FS_CardinalityType
<1>2. order \in [D -> M] /\ \A i, j \in D : i # j => order[i] # order[j]
  BY DEF SetToSeqs
<1>3. order \in Seq(M) /\ Len(order) = N
  BY <1>1, <1>2
<1>4. IsFiniteSet(D) /\ Cardinality(D) = N
  <2>1. 1 \in Int /\ N \in Int
    BY <1>1
  <2> HIDE DEF N
  <2>2. QED
    BY <1>1, <2>1, FS_Interval
<1>5. order \in Surjection(D, M)
  <2>1. order \in Injection(D, M)
    BY <1>2 DEF Injection, IsInjective
  <2> HIDE DEF D
  <2>2. QED
    BY <1>4, <2>1, FS_Injection
<1>6. hit = M
  BY <1>2, <1>5 DEF Surjection
<1>7. QED
  BY <1>1, <1>2, <1>3, <1>6 DEF First

-----------------------------------------------------------------------------
(* A list by name has every element of the set, and once. *)
Named(M) == \A m, o \in M : m.id = o.id => m = o
LEMMA ByIdLists ==
  ASSUME NEW M, IsFiniteSet(M), \A m \in M : m.id \in Nat, Named(M)
  PROVE  /\ \A m \in M : \E i \in DOMAIN ById(M) : ById(M)[i] = m
         /\ \A i, k \in DOMAIN ById(M) : ById(M)[i] = ById(M)[k] => i = k
<1> DEFINE ids == {m.id : m \in M}
           C == Cardinality(ids)
           at(n) == Cardinality({j \in ids : j <= n})
           nth(i) == CHOOSE m \in M : at(m.id) = i
<1>1. ids \subseteq Nat /\ IsFiniteSet(ids)
  <2> DEFINE key == [m \in M |-> m.id]
  <2>1. key \in Surjection(M, ids)
    BY DEF Surjection
  <2>2. QED
    BY <2>1, FS_Surjection
<1>2. \A m \in M : m.id \in ids
  OBVIOUS
<1>3. ById(M) = [i \in 1..C |-> nth(i)]
  BY DEF ById
<1>4. \A i \in 1..C : \E m \in M : at(m.id) = i
  <2> TAKE i \in 1..C
  <2>1. PICK n \in ids : at(n) = i
    <3> HIDE DEF ids
    <3>1. QED
      BY <1>1, NthExists
  <2>2. PICK m \in M : n = m.id
    OBVIOUS
  <2>3. QED
    BY <2>1, <2>2
<1>5. \A n \in ids : at(n) \in 1..C
  <2> HIDE DEF ids
  <2>1. QED
    BY <1>1, PlaceInRange
<1>6. \A n, o \in ids : at(n) = at(o) => n = o
  <2> HIDE DEF ids
  <2> TAKE n, o \in ids
  <2> HAVE at(n) = at(o)
  <2>1. ~(n < o) /\ ~(o < n)
    BY <1>1, PlacesDiffer
  <2> HIDE DEF at
  <2>2. QED
    BY <1>1, <2>1
<1> HIDE DEF ids, C, at
<1>7. \A i \in 1..C : nth(i) \in M /\ at(nth(i).id) = i
  BY <1>4
<1> HIDE DEF nth
<1>8. ASSUME NEW m \in M
      PROVE  \E i \in DOMAIN ById(M) : ById(M)[i] = m
  <2> DEFINE i == at(m.id)
  <2>1. i \in 1..C
    BY <1>2, <1>5
  <2>2. nth(i) \in M /\ nth(i).id = m.id
    BY <1>2, <1>6, <1>7, <2>1
  <2>3. nth(i) = m
    BY <2>2 DEF Named
  <2>4. QED
    BY <1>3, <2>1, <2>3
<1>9. \A i, k \in DOMAIN ById(M) : ById(M)[i] = ById(M)[k] => i = k
  BY <1>3, <1>7
<1>10. QED
  BY <1>8, <1>9

-----------------------------------------------------------------------------
(* The choices that led to a balance leave a set of moves; whatever came
   first, the balance is what the others take. *)
Node(M, F, x) == x.remaining \in SUBSET M /\ x.host = F[M \ x.remaining]

LEMMA NodeTakes ==
  ASSUME NEW M, NEW F, Total(F, M)
  PROVE  \A left \in SUBSET M : \A m \in left : F[M \ (left \ {m})] = F[M \ left] + HostGain(m)
<1> TAKE left \in SUBSET M
<1> TAKE m \in left
<1> DEFINE T == M \ (left \ {m})
<1>1. T \in SUBSET M /\ m \in T /\ T \ {m} = M \ left
  OBVIOUS
<1> HIDE DEF T
<1>2. F[T] = F[M \ left] + HostGain(m)
  BY <1>1 DEF Total
<1>3. QED
  BY <1>2 DEF T

Pends(M, F, s) == s.pending \in SUBSET M /\ s.host = F[M \ s.pending]
LEMMA GreedyTotal ==
  ASSUME NEW M, MovesTyped(M), NEW F, Total(F, M), NEW extra, NEW cap
  PROVE  \A k \in 0..Cardinality(M) : Pends(M, F, Greedy(M, extra, cap)[k])
<1> DEFINE at == Greedy(M, extra, cap)
           N == Cardinality(M)
           Fine(s) == Pends(M, F, s)
           Wrong == {n \in 0..N : ~Fine(at[n])}
<1>0. \A left \in SUBSET M : \A x \in left : F[M \ (left \ {x})] = F[M \ left] + HostGain(x)
  BY NodeTakes
<1> SUFFICES ASSUME Wrong # {}
             PROVE  FALSE
  OBVIOUS
<1>1. PICK n \in Wrong : n = 0 \/ (n-1 \in Nat /\ n-1 \notin Wrong)
  <2>1. Wrong \subseteq Nat
    OBVIOUS
  <2> HIDE DEF Wrong
  <2>2. QED
    BY <2>1, LeastFails
<1>2. n \in 0..N /\ N \in Nat /\ ~Fine(at[n])
  BY FS_CardinalityType DEF MovesTyped
<1>3. at[n] = IF n = 0 THEN [pending |-> M, host |-> 0, order |-> << >>] ELSE GreedyStep(at[n-1], extra, cap)
  BY <1>2, GreedyRuns DEF MovesTyped
<1>4. CASE n = 0
  <2>1. at[n].pending = M /\ at[n].host = 0 /\ M \ M = {}
    BY <1>3, <1>4
  <2> HIDE DEF at
  <2>2. QED
    BY <1>2, <2>1 DEF Total, Pends
<1>5. CASE n # 0
  <2> DEFINE s == at[n-1]
             m == Largest(FittingChoices(s, extra, cap))
  <2>1. Fine(s) /\ at[n] = GreedyStep(s, extra, cap)
    BY <1>1, <1>2, <1>3, <1>5
  <2>2. Reached(M, s, cap)
    BY <1>2, <1>5, GreedyReaches
  <2> HIDE DEF s, at
  <2>3. FittingChoices(s, extra, cap) # {} /\ at[n] = Take(m, s)
    BY <1>2, <2>1 DEF GreedyStep
  <2>4. m \in s.pending
    BY <2>1, <2>2, <2>3, GreedyChoice DEF Pends
  <2> HIDE DEF m
  <2>5. at[n].pending = s.pending \ {m} /\ at[n].host = s.host + HostGain(m)
    BY <2>3 DEF Take
  <2>6. F[M \ (s.pending \ {m})] = F[M \ s.pending] + HostGain(m)
    BY <1>0, <2>1, <2>4 DEF Pends
  <2>7. QED
    BY <1>2, <2>1, <2>4, <2>5, <2>6 DEF Pends
<1>6. QED
  BY <1>4, <1>5

-----------------------------------------------------------------------------
(* What the search has popped is expanded: all that can follow it was seen. *)
Apart(f) == \A i, j \in DOMAIN f : f[i].remaining = f[j].remaining => i = j
Lefts(f) == {f[i].remaining : i \in DOMAIN f}
Expanded(M, F, P, visited, extra, cap) ==
  /\ \A left \in P : \A m \in left : Transient(m, F[M \ left], cap) => left \ {m} \in visited
  /\ {} \in P => ~(extra - F[M] <= cap.gpu)
Explored(M, F, s, P, k, extra, cap) ==
  /\ P \in SUBSET SUBSET M /\ IsFiniteSet(P) /\ (s.frontier # << >> => Cardinality(P) = k)
  /\ M \in s.visited /\ s.visited = P \cup Lefts(s.frontier)
  /\ \A i \in DOMAIN s.frontier : s.frontier[i].remaining \notin P /\ Node(M, F, s.frontier[i])
  /\ Apart(s.frontier) /\ Expanded(M, F, P, s.visited, extra, cap)
SearchGoes(M, F, s, k, extra, cap) ==
  /\ s.found.err \in {"none", "limit", "capacity"}
  /\ s.found.err = "capacity" => \E P : Explored(M, F, s, P, k, extra, cap)
  /\ s.found.err # "capacity" => s.frontier = << >>
  /\ s.found.err = "none" => Balances(s.found.order)[Len(s.found.order)] = F[M]

LEMMA EnteredLists ==
  ASSUME NEW M, MovesTyped(M), Named(M), NEW F, Total(F, M), NEW cap, NEW visited, NEW top, Node(M, F, top)
  PROVE  LET new == Entered(top, Enterable(top, visited, cap))
         IN  /\ Apart(new)
             /\ \A i \in DOMAIN new : new[i].remaining \notin visited /\ Node(M, F, new[i])
             /\ \A m \in top.remaining : Transient(m, top.host, cap) =>
                  top.remaining \ {m} \in visited \cup Lefts(new)
<1> DEFINE left == top.remaining
           E == {m \in left : /\ left \ {m} \notin visited
                              /\ IF m.to = "gpu" THEN m.n - top.host <= cap.gpu ELSE top.host + m.n <= cap.host}
           next == ById(E)
           new == Entered(top, Enterable(top, visited, cap))
<1>0. \A l \in SUBSET M : \A x \in l : F[M \ (l \ {x})] = F[M \ l] + HostGain(x)
  BY NodeTakes
<1>1. left \in SUBSET M /\ top.host = F[M \ left]
  BY DEF Node
<1>2. E \in SUBSET left /\ E \in SUBSET M
  BY <1>1
<1>3. Enterable(top, visited, cap) = next
  BY DEF Enterable
<1>4. new = [i \in DOMAIN next |-> [remaining |-> left \ {next[i]}, host |-> top.host + HostGain(next[i]),
                                    order |-> Append(top.order, next[i])]]
  BY <1>3 DEF Entered
<1>5. \A m \in left : Transient(m, top.host, cap) => left \ {m} \in visited \/ m \in E
  <2> TAKE m \in left
  <2>1. m \in M /\ m.to \in {"cpu", "gpu"}
    BY <1>1 DEF MovesTyped
  <2>2. QED
    BY <2>1 DEF Transient
<1>6. \A m \in E : left \ {m} \notin visited
  OBVIOUS
<1> HIDE DEF E
<1>7. IsFiniteSet(E) /\ (\A m \in E : m.id \in Nat) /\ Named(E)
  BY <1>2, FS_Subset DEF MovesTyped, Named
<1>8. /\ \A i \in DOMAIN next : next[i] \in E
      /\ \A m \in E : \E i \in DOMAIN next : next[i] = m
      /\ \A i, k \in DOMAIN next : next[i] = next[k] => i = k
  <2>1. next \in Seq(E)
    BY <1>7, ByIdFacts
  <2>2. \A i \in DOMAIN next : next[i] \in E
    BY <2>1
  <2>3. QED
    BY <1>7, <2>2, ByIdLists
<1> HIDE DEF next, new, left
<1>9. \A i \in DOMAIN new : /\ i \in DOMAIN next /\ next[i] \in left
                            /\ new[i].remaining = left \ {next[i]} /\ new[i].host = top.host + HostGain(next[i])
  BY <1>2, <1>4, <1>8
<1>10. Apart(new)
  <2> SUFFICES ASSUME NEW i \in DOMAIN new, NEW j \in DOMAIN new, new[i].remaining = new[j].remaining
               PROVE  i = j
    BY DEF Apart
  <2>1. left \ {next[i]} = left \ {next[j]} /\ next[i] \in left /\ next[j] \in left
    BY <1>9
  <2>2. next[i] = next[j]
    BY <2>1
  <2>3. QED
    BY <1>8, <1>9, <2>2
<1>11. ASSUME NEW i \in DOMAIN new
       PROVE  new[i].remaining \notin visited /\ Node(M, F, new[i])
  <2> DEFINE m == next[i]
  <2>1. m \in left /\ m \in E /\ new[i].remaining = left \ {m} /\ new[i].host = top.host + HostGain(m)
    BY <1>8, <1>9
  <2> HIDE DEF m
  <2>2. F[M \ (left \ {m})] = F[M \ left] + HostGain(m)
    BY <1>0, <1>1, <2>1
  <2>3. QED
    BY <1>1, <1>6, <2>1, <2>2 DEF Node
<1>12. ASSUME NEW m \in left, Transient(m, top.host, cap)
       PROVE  left \ {m} \in visited \cup Lefts(new)
  <2>1. CASE m \in E
    <3>1. PICK i \in DOMAIN next : next[i] = m
      BY <1>8, <2>1
    <3>2. i \in DOMAIN new
      BY <1>4, <3>1
    <3>3. new[i].remaining = left \ {m}
      BY <1>9, <3>1, <3>2
    <3>4. QED
      BY <3>2, <3>3 DEF Lefts
  <2>2. QED
    BY <1>5, <1>12, <2>1
<1>13. QED
  BY <1>10, <1>11, <1>12 DEF new, left

(* The frontier without its last, and with what is entered from there. *)
LEMMA FrontFacts ==
  ASSUME NEW T, NEW f \in Seq(T), f # << >>, Apart(f)
  PROVE  /\ Last(f) = f[Len(f)] /\ Len(f) \in DOMAIN f /\ Front(f) \in Seq(T)
         /\ \A i \in DOMAIN Front(f) : /\ i \in DOMAIN f /\ Front(f)[i] = f[i]
                                       /\ Front(f)[i].remaining # Last(f).remaining
         /\ Apart(Front(f)) /\ Lefts(f) = Lefts(Front(f)) \cup {Last(f).remaining}
<1> DEFINE n == Len(f)
           r == Front(f)
<1>1. n \in Nat /\ n # 0 /\ DOMAIN f = 1..n /\ Last(f) = f[n]
  BY DEF Last
<1>2. r = [i \in 1..n-1 |-> f[i]] /\ r \in Seq(T)
  BY <1>1 DEF Front
<1>3. DOMAIN r = 1..n-1 /\ \A i \in DOMAIN r : i \in DOMAIN f /\ i # n /\ r[i] = f[i]
  BY <1>1, <1>2
<1> HIDE DEF n, r
<1>4. n \in DOMAIN f /\ \A i \in DOMAIN f : i = n \/ i \in DOMAIN r
  BY <1>1, <1>3
<1>5. \A i \in DOMAIN r : r[i].remaining # Last(f).remaining
  BY <1>1, <1>3, <1>4 DEF Apart
<1>6. Apart(r)
  BY <1>3 DEF Apart
<1>7. Lefts(f) = Lefts(r) \cup {Last(f).remaining}
  BY <1>1, <1>3, <1>4 DEF Lefts
<1>8. QED
  BY <1>1, <1>2, <1>3, <1>4, <1>5, <1>6, <1>7 DEF n, r

Joined(h, f, g, n) ==
  /\ n \in Nat /\ DOMAIN g \subseteq Nat /\ DOMAIN h \subseteq Nat
  /\ \A i \in DOMAIN f : i \in DOMAIN h /\ h[i] = f[i]
  /\ \A i \in DOMAIN g : n+i \in DOMAIN h /\ h[n+i] = g[i]
  /\ \A i \in DOMAIN h : (i \in DOMAIN f /\ h[i] = f[i]) \/ (i-n \in DOMAIN g /\ h[i] = g[i-n])
LEMMA JoinAt ==
  ASSUME NEW T, NEW f \in Seq(T), NEW g \in Seq(T)
  PROVE  Joined(f \o g, f, g, Len(f))
<1> DEFINE h == f \o g
           n == Len(f)
           p == Len(g)
<1>1. n \in Nat /\ p \in Nat /\ DOMAIN f = 1..n /\ DOMAIN g = 1..p /\ h \in Seq(T) /\ DOMAIN h = 1..n+p
  OBVIOUS
<1>2. (\A i \in 1..n : h[i] = f[i]) /\ \A i \in 1..p : h[n+i] = g[i]
  OBVIOUS
<1> HIDE DEF h, n, p
<1>3. \A i \in DOMAIN h : i \in DOMAIN f \/ i-n \in DOMAIN g
  BY <1>1
<1>4. (\A i \in DOMAIN f : i \in DOMAIN h /\ h[i] = f[i]) /\ \A i \in DOMAIN g : n+i \in DOMAIN h /\ h[n+i] = g[i]
  BY <1>1, <1>2
<1>5. \A i \in DOMAIN h : (i \in DOMAIN f /\ h[i] = f[i]) \/ (i-n \in DOMAIN g /\ h[i] = g[i-n])
  <2> TAKE i \in DOMAIN h
  <2>1. CASE i \in DOMAIN f
    BY <1>4, <2>1
  <2>2. CASE i-n \in DOMAIN g
    <3>1. n + (i-n) = i
      BY <1>1
    <3>2. QED
      BY <1>4, <2>2, <3>1
  <2>3. QED
    BY <1>3, <2>1, <2>2
<1>6. QED
  BY <1>1, <1>4, <1>5 DEF h, n, Joined

LEMMA JoinFacts ==
  ASSUME NEW f, NEW g, Apart(f), Apart(g), Lefts(f) \cap Lefts(g) = {}, NEW h, NEW n, Joined(h, f, g, n)
  PROVE  /\ Apart(h) /\ Lefts(h) = Lefts(f) \cup Lefts(g)
         /\ \A i \in DOMAIN h : (\E j \in DOMAIN f : h[i] = f[j]) \/ \E j \in DOMAIN g : h[i] = g[j]
<1>1. /\ n \in Nat /\ DOMAIN g \subseteq Nat /\ DOMAIN h \subseteq Nat
      /\ \A i \in DOMAIN f : i \in DOMAIN h /\ h[i] = f[i]
      /\ \A i \in DOMAIN g : n+i \in DOMAIN h /\ h[n+i] = g[i]
  BY DEF Joined
<1>2. \A i \in DOMAIN h : (i \in DOMAIN f /\ h[i] = f[i]) \/ (i-n \in DOMAIN g /\ h[i] = g[i-n])
  BY DEF Joined
<1>3. (\A i \in DOMAIN f : f[i].remaining \in Lefts(f)) /\ \A i \in DOMAIN g : g[i].remaining \in Lefts(g)
  BY DEF Lefts
<1>6. Lefts(h) = Lefts(f) \cup Lefts(g)
  BY <1>1, <1>2 DEF Lefts
<1>7. Apart(h)
  <2> SUFFICES ASSUME NEW i \in DOMAIN h, NEW j \in DOMAIN h, h[i].remaining = h[j].remaining
               PROVE  i = j
    BY DEF Apart
  <2>1. CASE i \in DOMAIN f /\ j \in DOMAIN f /\ h[i] = f[i] /\ h[j] = f[j]
    BY <2>1 DEF Apart
  <2>2. CASE i-n \in DOMAIN g /\ j-n \in DOMAIN g /\ h[i] = g[i-n] /\ h[j] = g[j-n]
    <3>1. i-n = j-n
      BY <2>2 DEF Apart
    <3>2. QED
      BY <1>1, <3>1
  <2>3. CASE i \in DOMAIN f /\ j-n \in DOMAIN g /\ h[i] = f[i] /\ h[j] = g[j-n]
    BY <1>3, <2>3
  <2>4. CASE i-n \in DOMAIN g /\ j \in DOMAIN f /\ h[i] = g[i-n] /\ h[j] = f[j]
    BY <1>3, <2>4
  <2>5. QED
    BY <1>2, <2>1, <2>2, <2>3, <2>4
<1>8. QED
  BY <1>2, <1>6, <1>7

LEMMA SearchStepGoes ==
  ASSUME NEW M, MovesTyped(M), Named(M), NEW F, Total(F, M), NEW extra, NEW cap, NEW k \in Nat,
         NEW s, SearchFits(M, s, cap), SearchGoes(M, F, s, k, extra, cap)
  PROVE  SearchGoes(M, F, SearchStep(s, extra, cap), k+1, extra, cap)
<1> DEFINE e == SearchStep(s, extra, cap)
           top == Last(s.frontier)
           rest == Front(s.frontier)
           left == top.remaining
<1>1. CASE s.frontier = << >>
  <2>1. e = s
    BY <1>1 DEF SearchStep
  <2>2. ASSUME s.found.err = "capacity"
        PROVE  \E P : Explored(M, F, s, P, k+1, extra, cap)
    BY <1>1, <2>2 DEF SearchGoes, Explored
  <2>3. QED
    BY <2>1, <2>2 DEF SearchGoes
<1>2. CASE s.frontier # << >>
  <2>1. s.found.err = "capacity"
    BY <1>2 DEF SearchGoes
  <2>2. PICK P : Explored(M, F, s, P, k, extra, cap)
    BY <2>1 DEF SearchGoes
  <2>3. PICK T : s.frontier \in Seq(T) /\ \A x \in T : NodeFits(M, x, cap)
    BY DEF SearchFits, FrontierFits
  <2>4. /\ P \in SUBSET SUBSET M /\ IsFiniteSet(P) /\ Cardinality(P) = k
        /\ M \in s.visited /\ s.visited = P \cup Lefts(s.frontier)
        /\ \A i \in DOMAIN s.frontier : s.frontier[i].remaining \notin P /\ Node(M, F, s.frontier[i])
        /\ Apart(s.frontier) /\ Expanded(M, F, P, s.visited, extra, cap)
    BY <1>2, <2>2 DEF Explored
  <2>5. /\ top = s.frontier[Len(s.frontier)] /\ Len(s.frontier) \in DOMAIN s.frontier /\ rest \in Seq(T)
        /\ \A i \in DOMAIN rest : i \in DOMAIN s.frontier /\ rest[i] = s.frontier[i] /\ rest[i].remaining # left
        /\ Apart(rest) /\ Lefts(s.frontier) = Lefts(rest) \cup {left}
    <3> DEFINE f == s.frontier
    <3>1. f \in Seq(T) /\ f # << >> /\ Apart(f)
      BY <1>2, <2>3, <2>4
    <3> HIDE DEF f
    <3>2. /\ Last(f) = f[Len(f)] /\ Len(f) \in DOMAIN f /\ Front(f) \in Seq(T)
          /\ \A i \in DOMAIN Front(f) : /\ i \in DOMAIN f /\ Front(f)[i] = f[i]
                                        /\ Front(f)[i].remaining # Last(f).remaining
          /\ Apart(Front(f)) /\ Lefts(f) = Lefts(Front(f)) \cup {Last(f).remaining}
      BY <3>1, FrontFacts
    <3>3. QED
      BY <3>2 DEF f
  <2>6. e = Visit(s, top, rest, extra, cap)
    BY <1>2 DEF SearchStep
  <2>7. Node(M, F, top) /\ left \notin P /\ top \in T
    <3>1. s.frontier[Len(s.frontier)] \in T
      BY <2>3, <2>5
    <3>2. QED
      BY <2>4, <2>5, <3>1
  <2>8. /\ left \in SUBSET M /\ top.host = F[M \ left]
        /\ top.host = Balances(top.order)[Len(top.order)]
    BY <2>3, <2>7 DEF Node, NodeFits, Reached
  <2>9. s \in [frontier : {s.frontier}, visited : {s.visited}, found : {s.found}]
    BY DEF SearchFits
  <2> DEFINE Q == P \cup {left}
  <2>10. Q \in SUBSET SUBSET M /\ IsFiniteSet(Q) /\ Cardinality(Q) = k+1
    <3>1. IsFiniteSet(P \cup {left}) /\ Cardinality(P \cup {left}) = k+1
      <4> HIDE DEF left
      <4>1. QED
        BY <2>4, <2>7, FS_AddElement
    <3>2. QED
      BY <2>4, <2>8, <3>1
  <2>11. M \ {} = M
    OBVIOUS
  <2>12. \A i \in DOMAIN rest : rest[i].remaining \notin Q /\ Node(M, F, rest[i])
    BY <2>4, <2>5
  <2>13. s.visited = Q \cup Lefts(rest)
    BY <2>4, <2>5
  <2> HIDE DEF e, top, rest, left, Q
  <2>14. CASE left = {} /\ extra - top.host <= cap.gpu
    <3>1. e = Stop("none", top.order)
      BY <2>6, <2>14 DEF Visit, left
    <3>2. e.frontier = << >> /\ e.found.err = "none" /\ e.found.order = top.order
      BY <3>1 DEF Stop
    <3>3. Balances(e.found.order)[Len(e.found.order)] = F[M]
      BY <2>8, <2>11, <2>14, <3>2
    <3>4. QED
      BY <3>2, <3>3 DEF SearchGoes, e
  <2>15. CASE left = {} /\ ~(extra - top.host <= cap.gpu)
    <3>1. e = [s EXCEPT !.frontier = rest]
      BY <2>6, <2>15 DEF Visit, left
    <3>2. e.frontier = rest /\ e.visited = s.visited /\ e.found = s.found
      BY <2>9, <3>1
    <3>3. ~(extra - F[M] <= cap.gpu)
      BY <2>8, <2>11, <2>15
    <3>4. Expanded(M, F, Q, s.visited, extra, cap)
      BY <2>4, <2>15, <3>3 DEF Expanded, Q
    <3>5. Explored(M, F, e, Q, k+1, extra, cap)
      BY <2>4, <2>5, <2>10, <2>12, <2>13, <3>2, <3>4 DEF Explored
    <3>6. QED
      BY <2>1, <3>2, <3>5 DEF SearchGoes, e
  <2>16. CASE left # {} /\ Cardinality(s.visited) >= SearchStateLimit
    <3>1. e = Stop("limit", << >>)
      BY <2>6, <2>16 DEF Visit, left
    <3>2. e.frontier = << >> /\ e.found.err = "limit"
      BY <3>1 DEF Stop
    <3>3. QED
      BY <3>2 DEF SearchGoes, e
  <2>17. CASE left # {} /\ ~(Cardinality(s.visited) >= SearchStateLimit)
    <3> DEFINE new == Entered(top, Enterable(top, s.visited, cap))
    <3>1. e = Pushed(s, rest, new)
      BY <2>6, <2>17 DEF Visit, left
    <3>2. PICK U : new \in Seq(U)
      <4>1. NodeFits(M, top, cap)
        BY <2>3, <2>7
      <4>2. QED
        BY <4>1, EnteredFits DEF FrontierFits
    <3>3. /\ Apart(new)
          /\ \A i \in DOMAIN new : new[i].remaining \notin s.visited /\ Node(M, F, new[i])
          /\ \A m \in left : Transient(m, top.host, cap) => left \ {m} \in s.visited \cup Lefts(new)
      <4> DEFINE v == s.visited
      <4> HIDE DEF v
      <4>1. LET n == Entered(top, Enterable(top, v, cap))
            IN  /\ Apart(n) /\ \A i \in DOMAIN n : n[i].remaining \notin v /\ Node(M, F, n[i])
                /\ \A m \in top.remaining : Transient(m, top.host, cap) => top.remaining \ {m} \in v \cup Lefts(n)
        BY <2>7, EnteredLists
      <4>2. QED
        BY <4>1 DEF left, v
    <3> HIDE DEF new
    <3>4. e.frontier = rest \o new /\ e.visited = s.visited \cup Lefts(new) /\ e.found = s.found
      BY <2>9, <3>1 DEF Pushed, Lefts
    <3>5. rest \in Seq(T \cup U) /\ new \in Seq(T \cup U) /\ Lefts(rest) \cap Lefts(new) = {}
      <4>1. Lefts(rest) \cap Lefts(new) = {}
        BY <2>13, <3>3 DEF Lefts
      <4>2. QED
        BY <2>5, <3>2, <4>1
    <3> DEFINE V == T \cup U
               f == rest \o new
               n == Len(rest)
    <3>51. Joined(f, rest, new, n)
      <4>1. rest \in Seq(V) /\ new \in Seq(V)
        BY <3>5
      <4> HIDE DEF V
      <4>2. QED
        BY <4>1, JoinAt
    <3>52. e.frontier = f
      BY <3>4
    <3> HIDE DEF f, n
    <3>6. /\ Apart(f) /\ Lefts(f) = Lefts(rest) \cup Lefts(new)
          /\ \A i \in DOMAIN f : (\E j \in DOMAIN rest : f[i] = rest[j]) \/ \E j \in DOMAIN new : f[i] = new[j]
      BY <2>5, <3>3, <3>5, <3>51, JoinFacts
    <3>7. \A i \in DOMAIN f : f[i].remaining \notin Q /\ Node(M, F, f[i])
      <4>1. \A j \in DOMAIN new : new[j].remaining \notin Q
        BY <2>13, <3>3
      <4>2. QED
        BY <2>12, <3>3, <3>6, <4>1
    <3>8. Expanded(M, F, Q, e.visited, extra, cap)
      <4>1. ASSUME NEW l \in Q, NEW m \in l, Transient(m, F[M \ l], cap)
            PROVE  l \ {m} \in e.visited
        <5>1. CASE l = left
          BY <2>8, <3>3, <3>4, <4>1, <5>1
        <5>2. CASE l \in P
          BY <2>4, <3>4, <4>1, <5>2 DEF Expanded
        <5>3. QED
          BY <5>1, <5>2 DEF Q
      <4>2. {} \in Q => {} \in P
        BY <2>17 DEF Q
      <4>3. QED
        BY <2>4, <4>1, <4>2 DEF Expanded
    <3>9. M \in e.visited /\ e.visited = Q \cup Lefts(f)
      BY <2>4, <2>13, <3>4, <3>6
    <3>10. Explored(M, F, e, Q, k+1, extra, cap)
      BY <2>10, <3>52, <3>6, <3>7, <3>8, <3>9 DEF Explored
    <3>11. QED
      BY <2>1, <3>4, <3>10 DEF SearchGoes, e
  <2>18. QED
    BY <2>14, <2>15, <2>16, <2>17
<1>3. QED
  BY <1>1, <1>2

LEMMA SearchStarts ==
  ASSUME NEW M, NEW F, Total(F, M), NEW extra, NEW cap
  PROVE  SearchGoes(M, F, SearchFrom(M), 0, extra, cap)
<1> DEFINE x == [remaining |-> M, host |-> 0, order |-> << >>]
           f == <<x>>
           s == SearchFrom(M)
<1>1. s.frontier = f /\ s.visited = {M} /\ s.found.err = "capacity"
  BY DEF SearchFrom
<1>2. x.remaining = M /\ x.host = 0 /\ DOMAIN f = {1} /\ f[1] = x /\ f # << >>
  OBVIOUS
<1> HIDE DEF x, f, s
<1>3. Node(M, F, x)
  <2>1. M \ M = {}
    OBVIOUS
  <2>2. QED
    BY <1>2, <2>1 DEF Node, Total
<1>4. Apart(f) /\ Lefts(f) = {M}
  BY <1>2 DEF Apart, Lefts
<1>5. IsFiniteSet({}) /\ Cardinality({}) = 0
  BY FS_EmptySet
<1>6. Explored(M, F, s, {}, 0, extra, cap)
  BY <1>1, <1>2, <1>3, <1>4, <1>5 DEF Explored, Expanded
<1>7. QED
  BY <1>1, <1>6 DEF SearchGoes, s

LEMMA SearchGoesOn ==
  ASSUME NEW M, MovesTyped(M), Named(M), NEW F, Total(F, M), NEW extra, NEW cap
  PROVE  \A n \in 0..Cardinality(SUBSET M) : SearchGoes(M, F, Search(M, extra, cap)[n], n, extra, cap)
<1> DEFINE at == Search(M, extra, cap)
           N == Cardinality(SUBSET M)
           Wrong == {n \in 0..N : ~SearchGoes(M, F, at[n], n, extra, cap)}
<1> SUFFICES ASSUME Wrong # {}
             PROVE  FALSE
  OBVIOUS
<1>1. N \in Nat
  BY FS_SUBSET, FS_CardinalityType DEF MovesTyped
<1>2. PICK n \in Wrong : n = 0 \/ (n-1 \in Nat /\ n-1 \notin Wrong)
  <2>1. Wrong \subseteq Nat
    OBVIOUS
  <2> HIDE DEF Wrong
  <2>2. QED
    BY <2>1, LeastFails
<1>3. n \in 0..N /\ ~SearchGoes(M, F, at[n], n, extra, cap)
  OBVIOUS
<1>4. at[n] = IF n = 0 THEN SearchFrom(M) ELSE SearchStep(at[n-1], extra, cap)
  <2>1. at = [k \in 0..N |-> IF k = 0 THEN SearchFrom(M) ELSE SearchStep(at[k-1], extra, cap)]
    BY SearchRuns DEF MovesTyped
  <2> HIDE DEF at, N
  <2>2. QED
    BY <1>3, <2>1
<1>5. CASE n = 0
  BY <1>3, <1>4, <1>5, SearchStarts
<1>6. CASE n # 0
  <2> DEFINE s == at[n-1]
  <2>1. n-1 \in 0..N /\ n-1 \in Nat /\ (n-1)+1 = n /\ SearchGoes(M, F, s, n-1, extra, cap)
    BY <1>1, <1>2, <1>3, <1>6
  <2>2. SearchFits(M, s, cap)
    BY <2>1, SearchAlways
  <2>3. at[n] = SearchStep(s, extra, cap)
    BY <1>4, <1>6
  <2> HIDE DEF s, at
  <2>4. SearchGoes(M, F, SearchStep(s, extra, cap), (n-1)+1, extra, cap)
    BY <2>1, <2>2, SearchStepGoes
  <2>5. QED
    BY <1>3, <2>1, <2>3, <2>4
<1>7. QED
  BY <1>5, <1>6

(* After a step for every set of moves nothing is left to expand. *)
LEMMA Exhausted ==
  ASSUME NEW M, MovesTyped(M), Named(M), NEW F, Total(F, M), NEW extra, NEW cap,
         FindMigrationOrder(M, extra, cap).err = "capacity"
  PROVE  \E P : M \in P /\ Expanded(M, F, P, P, extra, cap)
<1> DEFINE N == Cardinality(SUBSET M)
           s == Search(M, extra, cap)[N]
<1>1. IsFiniteSet(SUBSET M) /\ N \in 0..N
  BY FS_SUBSET, FS_CardinalityType DEF MovesTyped
<1>2. s.found.err = "capacity"
  BY DEF FindMigrationOrder
<1>3. SearchGoes(M, F, s, N, extra, cap) /\ SearchFits(M, s, cap)
  BY <1>1, SearchGoesOn, SearchAlways
<1> HIDE DEF s
<1>4. PICK P : Explored(M, F, s, P, N, extra, cap)
  BY <1>2, <1>3 DEF SearchGoes
<1>5. s.frontier = << >>
  <2> SUFFICES ASSUME s.frontier # << >>
               PROVE  FALSE
    OBVIOUS
  <2>1. PICK T : s.frontier \in Seq(T)
    BY <1>3 DEF SearchFits, FrontierFits
  <2>2. 1 \in DOMAIN s.frontier
    BY <2>1
  <2>3. P \in SUBSET SUBSET M /\ Cardinality(P) = Cardinality(SUBSET M)
    BY <1>4 DEF Explored
  <2>4. s.frontier[1].remaining \in (SUBSET M) \ P
    BY <1>4, <2>2 DEF Explored, Node
  <2>5. P = SUBSET M
    <3> DEFINE U == SUBSET M
    <3>1. IsFiniteSet(U) /\ P \in SUBSET U /\ Cardinality(P) = Cardinality(U)
      BY <1>1, <2>3
    <3> HIDE DEF U
    <3>2. P = U
      BY <3>1, FS_Subset
    <3>3. QED
      BY <3>2 DEF U
  <2>6. QED
    BY <2>4, <2>5
<1>6. Lefts(s.frontier) = {}
  BY <1>5 DEF Lefts
<1>7. s.visited = P /\ M \in P /\ Expanded(M, F, P, s.visited, extra, cap)
  BY <1>4, <1>6 DEF Explored
<1>8. QED
  BY <1>7

LEMMA OrdersAgree ==
  ASSUME NEW M, IsFiniteSet(M), NEW F, Total(F, M), NEW order \in SetToSeqs(M)
  PROVE  Balances(order)[Len(order)] = F[M]
<1> DEFINE n == Len(order)
           B == Balances(order)
<1>1. /\ order \in Seq(M) /\ n \in Nat /\ First(order, n) = M
      /\ \A i, j \in 1..n : i # j => order[i] # order[j]
  BY ListingFacts
<1>2. n \in 0..n
  BY <1>1
<1>3. \A k \in 0..n : B[k] = F[First(order, k)]
  BY <1>1, BalanceIsTotal
<1>4. QED
  BY <1>1, <1>2, <1>3

(* An order that fits leads the search all the way. *)
LEMMA OrderLeads ==
  ASSUME NEW M, MovesTyped(M), NEW F, Total(F, M), NEW extra, NEW cap, NEW P,
         M \in P, Expanded(M, F, P, P, extra, cap), NEW order \in SetToSeqs(M), Feasible(order, cap)
  PROVE  ~(extra - F[M] <= cap.gpu)
<1> DEFINE n == Len(order)
           first(k) == First(order, k)
           left(k) == M \ first(k)
           Wrong == {k \in 0..n : left(k) \notin P}
<1>1. /\ order \in Seq(M) /\ n \in Nat /\ First(order, n) = M /\ DOMAIN order = 1..n
      /\ \A i, j \in 1..n : i # j => order[i] # order[j]
  BY ListingFacts DEF MovesTyped
<1>0. \A k \in 0..n : Balances(order)[k] = F[First(order, k)]
  BY <1>1, BalanceIsTotal
<1> HIDE DEF n
<1>2. Wrong = {}
  <2> SUFFICES ASSUME Wrong # {}
               PROVE  FALSE
    OBVIOUS
  <2>1. PICK k \in Wrong : k = 0 \/ (k-1 \in Nat /\ k-1 \notin Wrong)
    <3>1. Wrong \subseteq Nat
      OBVIOUS
    <3> HIDE DEF Wrong
    <3>2. QED
      BY <3>1, LeastFails
  <2>2. CASE k = 0
    <3>1. left(k) = M
      BY <2>2 DEF First
    <3>2. QED
      BY <2>1, <3>1
  <2>3. CASE k # 0
    <3> DEFINE m == order[k]
    <3>1. k \in 1..n /\ k-1 \in 0..n /\ left(k-1) \in P /\ m \in M
      BY <1>1, <2>1, <2>3
    <3>2. m \notin first(k-1)
      <4>1. \A i \in 1..k-1 : i \in 1..n /\ i # k
        BY <1>1, <3>1
      <4>2. QED
        BY <1>1, <3>1, <4>1 DEF First
    <3>3. first(k) = first(k-1) \cup {m}
      <4>1. \A i \in 1..k : i = k \/ i \in 1..k-1
        BY <3>1
      <4>2. \A i \in 1..k-1 : i \in 1..k
        BY <3>1
      <4>3. k \in 1..k
        BY <3>1
      <4>4. QED
        BY <4>1, <4>2, <4>3 DEF First
    <3>4. first(k-1) \subseteq M
      BY <1>1, <3>1 DEF First
    <3>5. Transient(m, Balances(order)[k-1], cap)
      BY <1>1, <3>1 DEF Feasible
    <3>6. Balances(order)[k-1] = F[first(k-1)]
      BY <1>0, <3>1
    <3> HIDE DEF first, m
    <3>7. /\ m \in left(k-1) /\ M \ left(k-1) = first(k-1) /\ left(k) = left(k-1) \ {m}
      BY <3>1, <3>2, <3>3, <3>4
    <3>8. Transient(m, F[M \ left(k-1)], cap)
      BY <3>5, <3>6, <3>7
    <3> HIDE DEF left
    <3>9. left(k-1) \ {m} \in P
      BY <3>1, <3>7, <3>8 DEF Expanded
    <3>10. left(k) \notin P
      BY <2>1
    <3>11. QED
      BY <3>7, <3>9, <3>10
  <2>4. QED
    BY <2>2, <2>3
<1>3. left(n) \in P /\ left(n) = {}
  <2>1. n \in 0..n
    BY <1>1
  <2>2. left(n) \in P
    BY <1>2, <2>1
  <2>3. QED
    BY <1>1, <2>2
<1>4. QED
  BY <1>3 DEF Expanded

(* What _order_migrations answers. *)
LEMMA OrderRefused ==
  ASSUME NEW M, MovesTyped(M), Named(M), NEW F, Total(F, M), NEW extra, NEW cap
  PROVE  LET r == OrderMigrations(M, extra, cap)
         IN  /\ r.err \in {"none", "limit", "capacity"}
             /\ r.err = "none" => Balances(r.order)[Len(r.order)] = F[M]
             /\ r.err = "capacity" =>
                  \A order \in SetToSeqs(M) : Feasible(order, cap) => ~(extra - F[M] <= cap.gpu)
<1> DEFINE last == Greedy(M, extra, cap)[Cardinality(M)]
           r == OrderMigrations(M, extra, cap)
<1>1. r = IF last.pending = {} THEN [err |-> "none", order |-> last.order, searched |-> FALSE]
          ELSE Searched(FindMigrationOrder(M, extra, cap))
  BY DEF OrderMigrations, GreedyOrder
<1>2. Cardinality(M) \in 0..Cardinality(M)
  BY FS_CardinalityType DEF MovesTyped
<1>3. Reached(M, last, cap) /\ last.host = F[M \ last.pending]
  <2>1. Reached(M, last, cap)
    BY <1>2, GreedyReaches
  <2>2. last.host = F[M \ last.pending]
    <3>1. \A k \in 0..Cardinality(M) : Pends(M, F, Greedy(M, extra, cap)[k])
      BY GreedyTotal
    <3>2. Pends(M, F, last)
      BY <1>2, <3>1
    <3> HIDE DEF last
    <3>3. QED
      BY <3>2 DEF Pends
  <2>3. QED
    BY <2>1, <2>2
<1> HIDE DEF last, r
<1>4. CASE last.pending = {}
  <2>1. r.order = last.order /\ r.err = "none" /\ M \ {} = M
    BY <1>1, <1>4
  <2>2. Balances(r.order)[Len(r.order)] = F[M]
    BY <1>3, <1>4, <2>1 DEF Reached
  <2>3. QED
    BY <2>1, <2>2 DEF r
<1>5. CASE last.pending # {}
  <2> DEFINE f == FindMigrationOrder(M, extra, cap)
             N == Cardinality(SUBSET M)
             s == Search(M, extra, cap)[N]
  <2>1. f = s.found /\ N \in 0..N
    BY FS_SUBSET, FS_CardinalityType DEF MovesTyped, FindMigrationOrder
  <2>2. SearchGoes(M, F, s, N, extra, cap)
    BY <2>1, SearchGoesOn
  <2>3. r.err = f.err /\ r.order = f.order
    BY <1>1, <1>5 DEF Searched
  <2>4. ASSUME f.err = "capacity", NEW order \in SetToSeqs(M), Feasible(order, cap)
        PROVE  ~(extra - F[M] <= cap.gpu)
    <3>1. PICK P : M \in P /\ Expanded(M, F, P, P, extra, cap)
      BY <2>4, Exhausted
    <3>2. QED
      BY <2>4, <3>1, OrderLeads
  <2> HIDE DEF f, s
  <2>5. QED
    BY <2>1, <2>2, <2>3, <2>4 DEF SearchGoes, r
<1>6. QED
  BY <1>4, <1>5

-----------------------------------------------------------------------------
(* Sums of bytes *)
Picked(s) == CHOOSE x \in s : TRUE
Summing(S, w, it) ==
  it = [s \in SUBSET S |-> IF s = {} THEN 0 ELSE w[Picked(s)] + it[s \ {Picked(s)}]]
LEMMA PickedFacts ==
  ASSUME NEW s, s # {}, IsFiniteSet(s)
  PROVE  /\ Picked(s) \in s /\ IsFiniteSet(s \ {Picked(s)}) /\ Cardinality(s) \in Nat
         /\ Cardinality(s \ {Picked(s)}) = Cardinality(s) - 1 /\ Cardinality(s \ {Picked(s)}) \in Nat
<1> DEFINE x == Picked(s)
<1>1. x \in s
  BY DEF Picked
<1> HIDE DEF x
<1>2. IsFiniteSet(s \ {x}) /\ Cardinality(s \ {x}) = Cardinality(s) - 1
  BY <1>1, FS_RemoveElement
<1>3. Cardinality(s) \in Nat /\ Cardinality(s \ {x}) \in Nat
  BY <1>2, FS_CardinalityType
<1>4. QED
  BY <1>1, <1>2, <1>3 DEF x

LEMMA SumExists ==
  ASSUME NEW S, IsFiniteSet(S), NEW w
  PROVE  \E it : Summing(S, w, it)
<1> DEFINE Sized(n) == {s \in SUBSET S : Cardinality(s) <= n}
           next(f, s) == IF s = {} THEN 0 ELSE w[Picked(s)] + f[s \ {Picked(s)}]
           Upto(f, n) == f = [s \in Sized(n) |-> next(f, s)]
           Missing == {n \in Nat : ~\E f : Upto(f, n)}
<1>0. \A s \in SUBSET S : IsFiniteSet(s) /\ Cardinality(s) \in Nat /\ (Cardinality(s) = 0 => s = {})
  BY FS_Subset, FS_CardinalityType, FS_EmptySet
<1>1. Missing = {}
  <2> SUFFICES ASSUME Missing # {}
               PROVE  FALSE
    OBVIOUS
  <2>1. PICK n \in Missing : n = 0 \/ (n-1 \in Nat /\ n-1 \notin Missing)
    <3>1. Missing \subseteq Nat
      OBVIOUS
    <3> HIDE DEF Missing
    <3>2. QED
      BY <3>1, LeastFails
  <2>2. CASE n = 0
    <3> DEFINE f == [s \in Sized(0) |-> 0]
    <3>1. \A s \in Sized(0) : s = {}
      BY <1>0
    <3>2. Upto(f, 0)
      BY <3>1
    <3> HIDE DEF f, Upto
    <3>3. QED
      BY <2>1, <2>2, <3>2
  <2>3. CASE n-1 \in Nat /\ n-1 \notin Missing
    <3>1. PICK f : Upto(f, n-1)
      BY <2>3
    <3> DEFINE g == [s \in Sized(n) |-> IF Cardinality(s) = n THEN next(f, s) ELSE f[s]]
    <3>2. n \in Nat /\ n # 0
      BY <2>3
    <3>3. \A s \in Sized(n) : g[s] = next(g, s)
      <4> TAKE s \in Sized(n)
      <4>1. s \in SUBSET S /\ Cardinality(s) <= n /\ Cardinality(s) \in Nat /\ IsFiniteSet(s)
        BY <1>0
      <4>2. g[s] = next(f, s)
        <5>1. CASE Cardinality(s) = n
          BY <5>1
        <5>2. CASE Cardinality(s) # n
          <6>1. s \in Sized(n-1)
            BY <3>2, <4>1, <5>2
          <6>2. f[s] = next(f, s)
            BY <3>1, <6>1
          <6>3. QED
            BY <5>2, <6>2
        <5>3. QED
          BY <5>1, <5>2
      <4>3. CASE s = {}
        BY <4>2, <4>3
      <4>4. CASE s # {}
        <5> DEFINE r == s \ {Picked(s)}
        <5>1. r \in SUBSET S /\ Cardinality(r) = Cardinality(s) - 1 /\ Cardinality(r) \in Nat
          BY <4>1, <4>4, PickedFacts
        <5>2. r \in Sized(n) /\ Cardinality(r) # n
          BY <3>2, <4>1, <5>1
        <5>3. g[r] = f[r]
          BY <5>2
        <5>4. QED
          BY <4>2, <4>4, <5>3
      <4>5. QED
        BY <4>3, <4>4
    <3>4. Upto(g, n)
      BY <3>3
    <3> HIDE DEF g, Upto
    <3>5. QED
      BY <2>1, <3>4
  <2>4. QED
    BY <2>1, <2>2, <2>3
<1>2. Cardinality(S) \in Nat
  BY <1>0
<1>3. PICK f : Upto(f, Cardinality(S))
  BY <1>1, <1>2
<1>4. Sized(Cardinality(S)) = SUBSET S
  BY FS_Subset
<1>5. QED
  BY <1>3, <1>4 DEF Summing

LEMMA SumTyped ==
  ASSUME NEW S, IsFiniteSet(S), NEW w, \A x \in S : w[x] \in Nat, NEW it, Summing(S, w, it)
  PROVE  it[S] \in Nat
<1> DEFINE Wrong == {n \in Nat : \E s \in SUBSET S : Cardinality(s) = n /\ it[s] \notin Nat}
<1>1. \A s \in SUBSET S : IsFiniteSet(s) /\ Cardinality(s) \in Nat
  BY FS_Subset, FS_CardinalityType
<1>2. \A s \in SUBSET S : it[s] = IF s = {} THEN 0 ELSE w[Picked(s)] + it[s \ {Picked(s)}]
  BY DEF Summing
<1>3. Wrong = {}
  <2> SUFFICES ASSUME Wrong # {}
               PROVE  FALSE
    OBVIOUS
  <2>1. PICK n \in Wrong : n = 0 \/ (n-1 \in Nat /\ n-1 \notin Wrong)
    <3>1. Wrong \subseteq Nat
      OBVIOUS
    <3> HIDE DEF Wrong
    <3>2. QED
      BY <3>1, LeastFails
  <2>2. PICK s \in SUBSET S : Cardinality(s) = n /\ it[s] \notin Nat
    OBVIOUS
  <2>3. CASE s = {}
    <3>1. it[s] = 0
      BY <1>2, <2>3
    <3>2. QED
      BY <2>2, <3>1
  <2>4. CASE s # {}
    <3> DEFINE x == Picked(s)
               r == s \ {x}
    <3>1. x \in s /\ Cardinality(r) = n-1 /\ n-1 \in Nat /\ n \in Nat
      BY <1>1, <2>2, <2>4, PickedFacts
    <3>2. r \in SUBSET S /\ it[s] = w[x] + it[r]
      BY <1>2, <2>4
    <3> HIDE DEF x, r
    <3>3. it[r] \in Nat
      BY <2>1, <3>1, <3>2
    <3>4. w[x] \in Nat
      BY <3>1
    <3>5. QED
      BY <2>2, <3>2, <3>3, <3>4
  <2>5. QED
    BY <2>3, <2>4
<1>4. S \in SUBSET S /\ Cardinality(S) \in Nat
  BY <1>1
<1>5. QED
  BY <1>3, <1>4

LEMMA BytesTyped ==
  ASSUME NEW S, IsFiniteSet(S), NEW of, \A x \in S : of[x].n \in Nat
  PROVE  TotalBytes(S, of) \in Nat
<1> DEFINE w == [x \in S |-> of[x].n]
           Sums(it) == it = [s \in SUBSET S |-> IF s = {} THEN 0 ELSE of[Picked(s)].n + it[s \ {Picked(s)}]]
           it0 == CHOOSE it : Sums(it)
<1>1. TotalBytes(S, of) = it0[S]
  BY DEF TotalBytes, SumBytes, MapThenSumSet, MapThenFoldSet, Picked
<1>2. \A s \in SUBSET S : s # {} => w[Picked(s)] = of[Picked(s)].n
  BY DEF Picked
<1>3. \A x \in S : w[x] \in Nat
  OBVIOUS
<1> HIDE DEF w
<1>4. \A it : Summing(S, w, it) <=> Sums(it)
  BY <1>2 DEF Summing
<1> HIDE DEF Sums
<1>5. Summing(S, w, it0)
  BY <1>4, SumExists
<1> HIDE DEF it0
<1>6. QED
  BY <1>1, <1>3, <1>5, SumTyped

LEMMA LabelBytesTyped ==
  ASSUME NEW profile, NEW size, NEW l, IsFiniteSet(profile.load[l]), \A t \in profile.load[l] : size[t] \in Nat
  PROVE  LabelBytes(profile, size, l) \in Nat
<1> DEFINE S == profile.load[l]
           w == [t \in S |-> size[t]]
           Sums(it) == it = [s \in SUBSET S |-> IF s = {} THEN 0 ELSE size[Picked(s)] + it[s \ {Picked(s)}]]
           it0 == CHOOSE it : Sums(it)
<1>1. LabelBytes(profile, size, l) = it0[S]
  BY DEF LabelBytes, SumBytes, MapThenSumSet, MapThenFoldSet, Picked
<1>2. \A s \in SUBSET S : s # {} => w[Picked(s)] = size[Picked(s)]
  BY DEF Picked
<1>3. IsFiniteSet(S) /\ \A x \in S : w[x] \in Nat
  OBVIOUS
<1> HIDE DEF w, S
<1>4. \A it : Summing(S, w, it) <=> Sums(it)
  BY <1>2 DEF Summing
<1> HIDE DEF Sums
<1>5. Summing(S, w, it0)
  BY <1>3, <1>4, SumExists
<1> HIDE DEF it0
<1>6. QED
  BY <1>1, <1>3, <1>5, SumTyped

-----------------------------------------------------------------------------
(* On the way to the end of an order that fits, the host holds what it has. *)
LEMMA FeasibleKeeps ==
  ASSUME NEW M, MovesTyped(M), NEW order \in Seq(M), NEW cap, cap.host \in Nat, Feasible(order, cap)
  PROVE  \A k \in 0..Len(order) : Balances(order)[k] \in Int /\ Balances(order)[k] <= cap.host
<1> DEFINE N == Len(order)
           B == Balances(order)
           Wrong == {k \in 0..N : ~(B[k] \in Int /\ B[k] <= cap.host)}
<1> SUFFICES ASSUME Wrong # {}
             PROVE  FALSE
  OBVIOUS
<1>1. /\ N \in Nat /\ B = [k \in 0..N |-> IF k = 0 THEN 0 ELSE B[k-1] + HostGain(order[k])]
      /\ DOMAIN order = 1..N /\ \A k \in 1..N : order[k] \in M
  BY BalancesFacts
<1>2. PICK k \in Wrong : k = 0 \/ (k-1 \in Nat /\ k-1 \notin Wrong)
  <2>1. Wrong \subseteq Nat
    OBVIOUS
  <2> HIDE DEF Wrong
  <2>2. QED
    BY <2>1, LeastFails
<1>3. k \in 0..N /\ ~(B[k] \in Int /\ B[k] <= cap.host)
  OBVIOUS
<1> HIDE DEF N, B
<1>4. B[k] = IF k = 0 THEN 0 ELSE B[k-1] + HostGain(order[k])
  BY <1>1, <1>3
<1>5. CASE k = 0
  BY <1>3, <1>4, <1>5
<1>6. CASE k # 0
  <2> DEFINE m == order[k]
             b == B[k-1]
  <2>1. k \in 1..N /\ k-1 \in 0..N /\ b \in Int /\ b <= cap.host
    BY <1>1, <1>2, <1>3, <1>6
  <2>2. m.n \in Nat /\ m.to \in {"cpu", "gpu"}
    BY <1>1, <2>1 DEF MovesTyped
  <2>3. Transient(m, b, cap)
    BY <1>1, <2>1 DEF Feasible, B
  <2>4. B[k] = b + HostGain(m)
    BY <1>4, <1>6
  <2> HIDE DEF m, b
  <2>5. CASE m.to = "cpu"
    BY <1>3, <2>1, <2>2, <2>3, <2>4, <2>5 DEF Transient, HostGain
  <2>6. CASE m.to = "gpu"
    <3>1. HostGain(m) = -m.n
      BY <2>6 DEF HostGain
    <3>2. b + (-m.n) \in Int /\ b + (-m.n) <= cap.host
      BY <2>1, <2>2
    <3>3. QED
      BY <1>3, <2>4, <3>1, <3>2
  <2>7. QED
    BY <2>2, <2>5, <2>6
<1>7. QED
  BY <1>5, <1>6

(* What a plan takes once everything is in place. *)
SpecTyped(spec, target) ==
  /\ IsFiniteSet(DOMAIN spec.allocs) /\ DOMAIN spec.allocs \subseteq Nat
  /\ \A i \in DOMAIN spec.allocs : spec.allocs[i].n \in Nat /\ spec.allocs[i].temp \in Nat
  /\ IsFiniteSet(spec.released) /\ \A s \in spec.released : target[s].n \in Nat
EndHolds(spec, target, host, cap) ==
  /\ \A s \in spec.copies : host + target[s].n <= cap.host
  /\ \A i \in DOMAIN spec.allocs : host + Allocated(spec, i) + spec.allocs[i].temp <= cap.host

LEMMA KeptFits ==
  ASSUME NEW spec, NEW target, SpecTyped(spec, target), NEW host \in Int, NEW cap, cap.host \in Nat,
         host <= cap.host, EndHolds(spec, target, host, cap)
  PROVE  HostKept(host, target, spec) <= cap.host
<1> DEFINE D == DOMAIN spec.allocs
           a == TotalBytes(D, spec.allocs)
           r == TotalBytes(spec.released, target)
<1>1. /\ IsFiniteSet(D) /\ D \subseteq Nat
      /\ \A i \in D : spec.allocs[i].n \in Nat /\ spec.allocs[i].temp \in Nat
      /\ IsFiniteSet(spec.released) /\ \A s \in spec.released : target[s].n \in Nat
  BY DEF SpecTyped
<1>2. r \in Nat
  BY <1>1, BytesTyped
<1>3. a \in Nat
  BY <1>1, BytesTyped
<1>4. HostKept(host, target, spec) = host + a - r
  BY DEF HostKept
<1>5. host + a <= cap.host
  <2>1. CASE D = {}
    <3>1. TotalBytes({}, spec.allocs) = 0
      <4> DEFINE w == [x \in {} |-> spec.allocs[x].n]
                 Sums(it) == it = [s \in SUBSET {} |-> IF s = {} THEN 0
                                                       ELSE spec.allocs[Picked(s)].n + it[s \ {Picked(s)}]]
                 it0 == CHOOSE it : Sums(it)
      <4>1. TotalBytes({}, spec.allocs) = it0[{}]
        BY DEF TotalBytes, SumBytes, MapThenSumSet, MapThenFoldSet, Picked
      <4>2. \A it : Sums(it) => it[{}] = 0
        OBVIOUS
      <4>3. Sums([s \in SUBSET {} |-> 0])
        OBVIOUS
      <4> HIDE DEF Sums
      <4>4. QED
        BY <4>1, <4>2, <4>3
    <3>2. QED
      BY <2>1, <3>1
  <2>2. CASE D # {}
    <3>1. PICK last \in D : \A i \in D : i <= last
      <4> HIDE DEF D
      <4>1. QED
        BY <1>1, <2>2, GreatestExists
    <3>2. {j \in D : j <= last} = D
      BY <3>1
    <3>3. Allocated(spec, last) = a
      BY <3>2 DEF Allocated
    <3>4. host + a + spec.allocs[last].temp <= cap.host /\ spec.allocs[last].temp \in Nat
      BY <1>1, <3>1, <3>3 DEF EndHolds
    <3> HIDE DEF a
    <3>5. QED
      BY <1>3, <3>4
  <2>3. QED
    BY <2>1, <2>2
<1> HIDE DEF a, r
<1>6. host + a - r <= cap.host
  BY <1>2, <1>3, <1>5
<1>7. QED
  BY <1>4, <1>6

(* A plan is refused only if no order of its moves would do. *)
LEMMA PlanRefused ==
  ASSUME NEW current, NEW target, NEW spec, NEW cap, cap.host \in Nat,
         MovesTyped(Migrations(current, target)), Named(Migrations(current, target)), SpecTyped(spec, target),
         PlanStateTransition(current, target, spec, cap).err \notin {"none", "limit"},
         NEW order \in SetToSeqs(Migrations(current, target)), Feasible(order, cap),
         LoaderFits(spec, Balances(order)[Len(order)], cap),
         EndHolds(spec, target, Balances(order)[Len(order)], cap)
  PROVE  FALSE
<1> DEFINE M == Migrations(current, target)
           found == OrderMigrations(M, spec.extra, cap)
           final == Balances(found.order)[Len(found.order)]
           plan == PlanStateTransition(current, target, spec, cap)
           fits == /\ found.err = "none" /\ spec.extra - final <= cap.gpu
                   /\ HostFits(found.order, final, target, spec, cap) /\ HostKept(final, target, spec) <= cap.host
<1>1. plan = StatePlan(found, final, current, target, spec, cap)
  BY DEF PlanStateTransition, Ordered
<1>2. plan.err = CASE fits -> "none" [] ~fits /\ found.err = "limit" -> "limit" [] OTHER -> "capacity"
  BY <1>1 DEF StatePlan
<1>3. ~fits /\ found.err # "limit"
  <2> HIDE DEF fits, found
  <2>1. QED
    BY <1>2
<1> DEFINE e == spec.extra
<1>4. PICK F : Total(F, M)
  BY TotalExists
<1>5. /\ found.err \in {"none", "limit", "capacity"}
      /\ found.err = "none" => final = F[M]
      /\ found.err = "capacity" => \A o \in SetToSeqs(M) : Feasible(o, cap) => ~(e - F[M] <= cap.gpu)
  <2>1. MovesTyped(M) /\ Named(M)
    OBVIOUS
  <2> HIDE DEF M, e
  <2>2. LET r == OrderMigrations(M, e, cap)
        IN  /\ r.err \in {"none", "limit", "capacity"}
            /\ r.err = "none" => Balances(r.order)[Len(r.order)] = F[M]
            /\ r.err = "capacity" => \A o \in SetToSeqs(M) : Feasible(o, cap) => ~(e - F[M] <= cap.gpu)
    BY <1>4, <2>1, OrderRefused
  <2>3. QED
    BY <2>2 DEF e
<1>6. IsFiniteSet(M) /\ Balances(order)[Len(order)] = F[M]
  <2>1. IsFiniteSet(M) /\ order \in SetToSeqs(M)
    BY DEF MovesTyped
  <2> HIDE DEF M
  <2>2. QED
    BY <1>4, <2>1, OrdersAgree
<1>7. FoundFits(M, found, cap)
  BY OrderFits
<1> DEFINE host == F[M]
<1>8. LoaderFits(spec, host, cap) /\ EndHolds(spec, target, host, cap)
  BY <1>6
<1>9. order \in SetToSeqs(M) /\ MovesTyped(M)
  OBVIOUS
<1> HIDE DEF fits, final, found, M, host
<1>10. found.err = "none" /\ final = host
  BY <1>3, <1>5, <1>8, <1>9 DEF LoaderFits, host
<1>11. /\ found.order \in Seq(M) /\ Feasible(found.order, cap)
  BY <1>7, <1>10 DEF FoundFits
<1>12. \A k \in 0..Len(found.order) : Balances(found.order)[k] \in Int /\ Balances(found.order)[k] <= cap.host
  BY <1>9, <1>11, FeasibleKeeps
<1>13. host \in Int /\ host <= cap.host
  <2>1. Len(found.order) \in 0..Len(found.order)
    BY <1>11
  <2>2. QED
    BY <1>10, <1>12, <2>1 DEF final
<1>14. HostKept(host, target, spec) <= cap.host
  BY <1>8, <1>13, KeptFits
<1>15. HostFits(found.order, host, target, spec, cap)
  BY <1>8, <1>12 DEF HostFits, EndHolds
<1>16. spec.extra - host <= cap.gpu
  BY <1>8 DEF LoaderFits
<1>17. QED
  BY <1>3, <1>10, <1>14, <1>15, <1>16 DEF fits

-----------------------------------------------------------------------------
(* What a saved profile asks for, and the plan that is made from it. *)
LEMMA MovesNamed ==
  ASSUME NEW current, NEW target
  PROVE  Named(Migrations(current, target))
<1> DEFINE S == {s \in DOMAIN current : current[s].dev # target[s].dev}
           move(s) == [id |-> s, to |-> target[s].dev, n |-> current[s].n]
<1>1. \A m \in Migrations(current, target) : m = move(m.id)
  BY DEF Migrations
<1>2. QED
  BY <1>1 DEF Named

LEMMA AllocsTyped ==
  ASSUME NEW profile, ProfileTyped(profile), NEW size \in [Tensors -> Nat], NEW pinning
  PROVE  LET allocs == HostAllocations(profile, size, pinning)
         IN  /\ IsFiniteSet(DOMAIN allocs) /\ DOMAIN allocs \subseteq Nat
             /\ \A i \in DOMAIN allocs : allocs[i].n \in Nat /\ allocs[i].temp \in Nat
<1> DEFINE allocs == HostAllocations(profile, size, pinning)
           I == {i \in DOMAIN profile.stats : profile.load[profile.stats[i].label] # {}}
           bytes(i) == LabelBytes(profile, size, profile.stats[i].label)
<1> DEFINE n == Len(profile.stats)
<1>1. n \in Nat /\ DOMAIN profile.stats = 1..n /\ \A i \in 1..n : profile.stats[i].label \in Labels
  <2> DEFINE s == profile.stats
             T == [label : Labels, tensors : SUBSET Tensors]
  <2>1. s \in Seq(T) /\ \A x \in T : x.label \in Labels
    BY DEF ProfileTyped
  <2> HIDE DEF s, T
  <2>2. Len(s) \in Nat /\ DOMAIN s = 1..Len(s) /\ \A i \in 1..Len(s) : s[i] \in T
    BY <2>1
  <2>3. QED
    BY <2>1, <2>2 DEF s
<1>2. IsFiniteSet(I) /\ I \subseteq Nat
  <2>1. I \in SUBSET (1..n)
    BY <1>1
  <2> HIDE DEF I, n
  <2>2. IsFiniteSet(1..n) /\ 1..n \subseteq Nat
    BY <1>1, FS_Interval
  <2>3. QED
    BY <2>1, <2>2, FS_Subset
<1>3. \A i \in I : bytes(i) \in Nat
  <2> TAKE i \in I
  <2> DEFINE l == profile.stats[i].label
  <2>1. l \in Labels
    BY <1>1 DEF ProfileTyped
  <2>2. profile.load[l] \in SUBSET Tensors
    BY <2>1 DEF ProfileTyped
  <2> HIDE DEF l
  <2>3. IsFiniteSet(profile.load[l]) /\ \A t \in profile.load[l] : size[t] \in Nat
    BY <2>2, TensorsAssumption, FS_Subset
  <2>4. LabelBytes(profile, size, l) \in Nat
    BY <2>3, LabelBytesTyped
  <2>5. QED
    BY <2>4 DEF l
<1>4. allocs = [i \in I |-> [n |-> bytes(i), temp |-> IF pinning = "copy" THEN bytes(i) ELSE 0]]
  BY DEF HostAllocations
<1> HIDE DEF I, bytes, allocs
<1>5. DOMAIN allocs = I /\ \A i \in I : allocs[i].n \in Nat /\ allocs[i].temp \in Nat
  BY <1>3, <1>4
<1>6. QED
  BY <1>2, <1>5 DEF allocs

LEMMA GoalTyped ==
  ASSUME IInv, AdoptInv, phase = "saved", NEW goal, goal.err = "none",
         goal = TargetFromProfile(place, prof, setup.storage, setup.size, Pinning)
  PROVE  /\ \A s \in DOMAIN place : goal.target[s].dev \in {"cpu", "gpu"} /\ goal.target[s].n = place[s].n
         /\ SpecTyped(goal.spec, goal.target) /\ goal.spec.copies \subseteq DOMAIN place
<1> DEFINE target == TargetStorages(place, prof, setup.storage, Pinning)
           to == {s \in DOMAIN target : target[s].dev = "cpu"}
           copies == {s \in DOMAIN place : Pinning = "copy" /\ ~place[s].pinned /\ target[s].pinned}
           allocs == HostAllocations(prof, setup.size, Pinning)
<1>1. \A s \in DOMAIN place : goal.target[s].dev \in {"cpu", "gpu"} /\ goal.target[s].n = place[s].n
  BY TargetFacts
<1>2. /\ goal.target = target /\ goal.spec.copies = copies
      /\ \/ goal.spec.allocs = << >> /\ goal.spec.released = {}
         \/ goal.spec.allocs = allocs /\ goal.spec.released = to
  <2> HIDE DEF allocs
  <2>1. goal.target = target
    BY DEF TargetFromProfile
  <2> DEFINE spec == IF prof.loader = "strategy"
                     THEN [NoSpec EXCEPT !.extra = StrategyGpuBytes(prof, setup.size), !.copies = copies]
                     ELSE [extra |-> BlockGpuBytes(prof, setup.size), copies |-> copies,
                           allocs |-> allocs, released |-> to]
  <2>2. goal.spec = spec
    BY DEF TargetFromProfile, allocs
  <2> HIDE DEF copies, to, target
  <2>3. QED
    BY <2>1, <2>2 DEF NoSpec
<1>3. copies \subseteq DOMAIN place
  OBVIOUS
<1>4. DOMAIN target = DOMAIN place /\ DOMAIN place = DOMAIN StorageSizes
  BY SavedFacts DEF TargetStorages
<1>5. IsFiniteSet(to) /\ \A s \in to : goal.target[s].n \in Nat
  <2>1. to \subseteq DOMAIN place
    BY <1>4
  <2> HIDE DEF to, target
  <2>2. \A s \in DOMAIN place : goal.target[s].n = StorageSizes[s] /\ StorageSizes[s] \in Nat
    BY <1>1, <1>4, StoragesAssumption DEF AdoptInv
  <2>3. IsFiniteSet(DOMAIN place)
    BY <1>4, StoragesAssumption
  <2>4. QED
    BY <2>1, <2>2, <2>3, FS_Subset
<1>6. /\ IsFiniteSet(DOMAIN allocs) /\ DOMAIN allocs \subseteq Nat
      /\ \A i \in DOMAIN allocs : allocs[i].n \in Nat /\ allocs[i].temp \in Nat
  <2>1. setup \in Setups /\ prof = setup.profile
    BY SavedFacts DEF IInv, TypeInv, ModelType
  <2>2. ProfileTyped(prof) /\ setup.size \in [Tensors -> Nat]
    BY <2>1, SetupFacts, SetupsAssumption
  <2>3. QED
    BY <2>2, AllocsTyped
<1> HIDE DEF allocs, to, copies, target
<1>7. SpecTyped(goal.spec, goal.target)
  <2>1. CASE goal.spec.allocs = << >> /\ goal.spec.released = {}
    <3>1. DOMAIN << >> = {} /\ IsFiniteSet({})
      BY FS_EmptySet
    <3>2. QED
      BY <2>1, <3>1 DEF SpecTyped
  <2>2. CASE goal.spec.allocs = allocs /\ goal.spec.released = to
    BY <1>5, <1>6, <2>2 DEF SpecTyped
  <2>3. QED
    BY <1>2, <2>1, <2>2
<1>8. QED
  BY <1>1, <1>2, <1>3, <1>7

LEMMA RefusedPlan ==
  ASSUME IInv, AdoptInv, Plan
  PROVE  RefusedOnlyIfImpossible'
<1>1. PICK cap \in Capacities : PlanStateAdoption(prof, setup.storage, setup.size, Pinning, cap)
  BY DEF Plan
<1> DEFINE target == TargetFromProfile(place, prof, setup.storage, setup.size, Pinning)
           made == PlanStateTransition(place, target.target, target.spec, cap)
<1>2. phase = "saved" /\ place' = place /\ adoption' = Adoption(target, made, cap)
  BY <1>1 DEF Plan, PlanStateAdoption, PlanFor
<1>3. PICK goal, plan : /\ goal = TargetFromProfile(place, prof, setup.storage, setup.size, Pinning)
                        /\ plan = PlanStateTransition(place, goal.target, goal.spec, cap)
                        /\ adoption' = Adoption(goal, plan, cap)
  BY <1>2
<1> HIDE DEF target, made
<1> SUFFICES ASSUME adoption'.status = "refused",
                    NEW order \in SetToSeqs(adoption'.moves),
                    Possible(order, adoption.spec, adoption.cap)'
             PROVE  FALSE
  BY DEF RefusedOnlyIfImpossible
<1>4. goal.err = "none" /\ plan.err \notin {"none", "limit"}
  BY <1>3 DEF Adoption, NoAdoption
<1>5. /\ adoption'.cap = cap /\ adoption'.spec = goal.spec
      /\ adoption'.moves = Migrations(place, goal.target)
  BY <1>3, <1>4 DEF Adoption, NoAdoption
<1>6. /\ \A s \in DOMAIN place : goal.target[s].dev \in {"cpu", "gpu"} /\ goal.target[s].n = place[s].n
      /\ SpecTyped(goal.spec, goal.target) /\ goal.spec.copies \subseteq DOMAIN place
  BY <1>2, <1>3, <1>4, GoalTyped
<1>7. MovesTyped(Migrations(place, goal.target)) /\ Named(Migrations(place, goal.target))
  BY <1>2, <1>6, MigrationsFacts, MovesNamed
<1>8. cap.host \in Nat
  BY CapacitiesAssumption
<1> DEFINE host == Balances(order)[Len(order)]
<1>9. /\ Feasible(order, cap) /\ LoaderFits(goal.spec, host, cap)
      /\ \A s \in goal.spec.copies : host + place[s].n <= cap.host
      /\ \A i \in DOMAIN goal.spec.allocs :
           host + Allocated(goal.spec, i) + goal.spec.allocs[i].temp <= cap.host
  BY <1>2, <1>5 DEF Possible, HostHolds
<1>10. EndHolds(goal.spec, goal.target, host, cap)
  BY <1>6, <1>9 DEF EndHolds
<1>11. order \in SetToSeqs(Migrations(place, goal.target))
  BY <1>5
<1>12. QED
  BY <1>3, <1>4, <1>6, <1>7, <1>8, <1>9, <1>10, <1>11, PlanRefused

LEMMA RefusedKeeps ==
  ASSUME IInv, AdoptInv, RefusedOnlyIfImpossible, [Next]_vars
  PROVE  RefusedOnlyIfImpossible'
<1>1. CASE Plan
  BY <1>1, RefusedPlan
<1>2. CASE MigrateStorage \/ PinStorage
  <2>1. adoption'.status = "running"
    BY <1>2 DEF MigrateStorage, Migrate, PinStorage, PinNext, IInv, PlaceInv
  <2>2. QED
    BY <2>1 DEF RefusedOnlyIfImpossible
<1>3. CASE AdoptionFails \/ RestoreAdopted
  <2>1. adoption'.status # "refused"
    BY <1>3 DEF AdoptionFails, MigrateFails, PinFails, RestoreAdopted, Partial, NoAdoption
  <2>2. QED
    BY <2>1 DEF RefusedOnlyIfImpossible
<1>4. CASE \/ InitializeWarmup \/ PreprocessFails \/ StartForward \/ Skip \/ FinishForward
           \/ \E l \in Labels : EnterTrap(l) \/ \E S \in SUBSET Tensors : EnterFails(l, S)
           \/ Read \/ ExitTrap \/ BodyRaises \/ TimingFails
           \/ InitializeProfile \/ ProfileRefused \/ ProfileSetupFails
           \/ InitializeInference \/ InferenceFails \/ InitializeRestored
           \/ Shutdown \/ ShutdownFails \/ UNCHANGED vars
  <2>1. UNCHANGED <<place, adoption>>
    BY <1>4 DEF InitializeWarmup, PreprocessFails, StartForward, Skip, FinishForward, EnterTrap, EnterFails,
                Read, ExitTrap, BodyRaises, TimingFails, InitializeProfile, ProfileRefused, ProfileSetupFails,
                InitializeInference, InferenceFails, InitializeRestored, Shutdown, ShutdownFails, vars, adoptionVars
  <2>2. QED
    BY <2>1 DEF RefusedOnlyIfImpossible, Possible, HostHolds
<1>5. QED
  BY <1>1, <1>2, <1>3, <1>4 DEF Next

(* A saved plan is refused for want of memory only if there is no order in
   which its storages could be moved: neither the choice of the largest move
   that fits nor the search over what remains misses one. *)
THEOREM RefusalsAreRight == Spec => []RefusedOnlyIfImpossible
<1>1. Init => RefusedOnlyIfImpossible
  BY DEF Init, NoAdoption, RefusedOnlyIfImpossible
<1>2. QED
  BY <1>1, AdoptInit, AdoptKeeps, RefusedKeeps, Invariance, PTL DEF Spec
=============================================================================
