----------------------- MODULE OffloadManagerSessions -----------------------
(***************************************************************************)
(* Theorems about the sessions of an offload manager: how many forwards    *)
(* lead to inference, what forwards are served from, and what the replan   *)
(* of a captured graph measures.  They rest on the step lemmas and on the  *)
(* invariant Inv of OffloadManagerProofs.                                  *)
(***************************************************************************)
EXTENDS OffloadManagerProofs

------------------------------------------------------------------------------
(* The pace of a session.                                                  *)

Upto(n, top) == IF n <= top THEN n ELSE top
AtLeastOne(n) == IF n = 0 THEN 1 ELSE n

Skipped(w) == w.om.cfg.skip /\ w.om.honored = "yes"

(* The three parts of the budget. *)
DiscoveryPart(w) == IF Skipped(w) THEN 0 ELSE AtLeastOne(w.om.cfg.disc)
WarmPart(w)      == ExtraItersBeforeInference(w.comp)
ProfilePart(w)   == AtLeastOne(EagerProfilingIters(w.comp, w.om.cfg.prof))

(* A phase is left by the forward that reaches its count.  If that fails,  *)
(* the next forward tries again, whatever the counter shows by then: only  *)
(* counts below the last one are progress.                                 *)
OnPace(w, driven, failures) ==
  /\ w.om.phase = "DISCOVERY" =>
       /\ ~Skipped(w) /\ w.comp.warm <= WarmPart(w)
       /\ driven = Upto(w.om.iter, DiscoveryPart(w) - 1) + failures
  /\ w.om.phase = "PROFILING" =>
       /\ w.comp.warm <= WarmPart(w)
       /\ driven = DiscoveryPart(w) + (WarmPart(w) - w.comp.warm)
                   + Upto(w.om.iter, ProfilePart(w) - 1) + failures
  /\ w.om.phase = "INFERENCE" =>
       driven = DiscoveryPart(w) + WarmPart(w) + ProfilePart(w) + failures

(* A replan of a captured graph is for a session in inference.             *)
PaceInv ==
  hist.fresh => /\ OnPace(World, hist.driven, hist.failures)
                /\ om.manual => om.phase = "INFERENCE"

(* What the pace is read from. *)
SamePace(v, w) ==
  /\ v.om.phase = w.om.phase /\ v.om.iter = w.om.iter
  /\ v.om.cfg = w.om.cfg /\ v.om.honored = w.om.honored
  /\ v.comp.active = w.comp.active /\ v.comp.replan = w.comp.replan
  /\ v.comp.profile = w.comp.profile /\ v.comp.warm = w.comp.warm

LEMMA PaceTypes ==
  ASSUME NEW w \in Worlds
  PROVE  /\ DiscoveryPart(w) \in Nat /\ WarmPart(w) \in Nat /\ ProfilePart(w) \in Nat \ {0}
         /\ ~Skipped(w) => DiscoveryPart(w) # 0
         /\ w.om.iter \in Nat /\ w.comp.warm \in Nat
<1>1. /\ w.om.cfg.disc \in Nat /\ w.om.cfg.prof \in Nat /\ w.om.iter \in Nat
      /\ w.comp.warm \in Nat
  BY DEF Worlds, Managers, ConfigType, CompiledPaths, ProfileWarmups
<1>2. EagerProfilingIters(w.comp, w.om.cfg.prof) \in Nat
  BY <1>1 DEF EagerProfilingIters, EagerForwards
<1>3. WarmPart(w) \in Nat
  BY DEF WarmPart, ExtraItersBeforeInference, ProfileWarmups
<1>4. QED
  BY <1>1, <1>2, <1>3 DEF DiscoveryPart, ProfilePart, AtLeastOne

LEMMA PaceKept ==
  ASSUME NEW v, NEW w, NEW d, NEW k, SamePace(v, w), OnPace(w, d, k)
  PROVE  OnPace(v, d, k)
<1>1. /\ Skipped(v) <=> Skipped(w)
      /\ DiscoveryPart(v) = DiscoveryPart(w) /\ WarmPart(v) = WarmPart(w)
      /\ ProfilePart(v) = ProfilePart(w)
  BY DEF SamePace, Skipped, DiscoveryPart, WarmPart, ProfilePart,
         ExtraItersBeforeInference, EagerProfilingIters
<1>2. QED
  BY <1>1 DEF OnPace, SamePace

(* The budget the manager announces is the sum of the parts. *)
LEMMA BudgetIsParts ==
  ASSUME NEW w \in Worlds
  PROVE  Budget(w) = DiscoveryPart(w) + ProfilePart(w) + WarmPart(w)
BY DEF Budget, DiscoveryPart, ProfilePart, WarmPart, AtLeastOne, Skipped

LEMMA PaceMeansBudget ==
  ASSUME Inv, PaceInv PROVE InferenceAfterBudget
<1>1. World \in Worlds /\ hist \in Histories
  BY DEF Inv, Sound
<1> SUFFICES ASSUME hist.fresh
             PROVE  /\ om.phase = "INFERENCE" => hist.driven = Budget(World) + hist.failures
                    /\ Driving => hist.driven < Budget(World) + hist.failures
  BY DEF InferenceAfterBudget
<1> DEFINE D == DiscoveryPart(World)
           P == ProfilePart(World)
           W == WarmPart(World)
           i == World.om.iter
           m == World.comp.warm
<1>2. /\ D \in Nat /\ W \in Nat /\ P \in Nat \ {0} /\ i \in Nat /\ m \in Nat
      /\ ~Skipped(World) => D # 0
  BY <1>1, PaceTypes
<1>3. Budget(World) = D + P + W
  BY <1>1, BudgetIsParts
<1>4. hist.driven \in Nat /\ hist.failures \in Nat
  BY <1>1 DEF Histories
<1>5. OnPace(World, hist.driven, hist.failures) /\ World.om.phase = om.phase
  BY WorldFields DEF PaceInv
<1> HIDE DEF D, P, W, i, m
<1>6. CASE om.phase = "DISCOVERY"
  <2>1. D # 0 /\ hist.driven = Upto(i, D - 1) + hist.failures
    BY <1>2, <1>5, <1>6 DEF OnPace, D, i
  <2>2. QED
    BY <1>2, <1>3, <1>4, <1>6, <2>1 DEF Upto
<1>7. CASE om.phase = "PROFILING"
  <2>1. m <= W /\ hist.driven = D + (W - m) + Upto(i, P - 1) + hist.failures
    BY <1>5, <1>7 DEF OnPace, D, P, W, i, m
  <2>2. QED
    BY <1>2, <1>3, <1>4, <1>7, <2>1 DEF Upto
<1>8. CASE om.phase = "INFERENCE"
  <2>1. hist.driven = D + W + P + hist.failures
    BY <1>5, <1>8 DEF OnPace, D, P, W
  <2>2. QED
    BY <1>2, <1>3, <1>4, <1>8, <2>1 DEF Driving
<1>9. QED
  BY <1>6, <1>7, <1>8 DEF Driving

------------------------------------------------------------------------------
(* The steps of a forward.                                                 *)

(* Leaving discovery: the profile starts where the budget says it does.    *)
LEMMA PaceIntoProfile ==
  ASSUME NEW w \in Worlds, NEW v \in Worlds, NEW f, NEW d \in Nat, NEW k \in Nat,
         NEW old \in Worlds,
         OnPace(old, d, k), old.om.phase = "DISCOVERY",
         w.om = [old.om EXCEPT !.iter = old.om.iter + 1], w.comp = old.comp,
         DiscoveryDue(w), ToProfile(v, w, f)
  PROVE  /\ ~v.err => OnPace(v, d + 1, k)
         /\ v.err => OnPace(v, d + 1, k + 1)
<1> DEFINE D == DiscoveryPart(old)
           W == WarmPart(old)
           n == old.om.iter
           m == old.comp.warm
<1>1. /\ D \in Nat /\ W \in Nat /\ ProfilePart(old) \in Nat \ {0}
      /\ ~Skipped(old) => D # 0
      /\ n \in Nat /\ m \in Nat
  BY PaceTypes
<1>2. /\ w.om.cfg = old.om.cfg /\ w.om.honored = old.om.honored /\ w.om.iter = n + 1
      /\ w.om.phase = "DISCOVERY"
  BY DEF Worlds, Managers
<1>3. n + 1 >= old.om.cfg.disc /\ old.om.cfg.disc \in Nat
  BY <1>2 DEF DiscoveryDue, Worlds, Managers, ConfigType
<1>4. ~Skipped(old) /\ m <= W /\ d = Upto(n, D - 1) + k
  BY DEF OnPace
<1>5. D = AtLeastOne(old.om.cfg.disc)
  BY <1>4 DEF DiscoveryPart
<1> HIDE DEF n, m, W
<1>6. n >= D - 1 /\ D # 0
  BY <1>1, <1>3, <1>5 DEF AtLeastOne
<1> HIDE DEF D
<1>7. d = D - 1 + k /\ Upto(n + 1, D - 1) = D - 1
  BY <1>1, <1>4, <1>6 DEF Upto
<1>8. ASSUME ~v.err
      PROVE  OnPace(v, d + 1, k)
  <2>1. PICK model \in Models : Swapped(v.om, w.om, model, "PROFILING")
    BY <1>8 DEF ToProfile
  <2>2. v.comp = OnEnterProfile(old.comp)
    BY <1>8 DEF ToProfile
  <2>3. /\ v.om.phase = "PROFILING" /\ v.om.iter = 0 /\ v.om.cfg = old.om.cfg
        /\ v.om.honored = old.om.honored
    BY <1>2, <2>1 DEF Swapped
  <2>4. DiscoveryPart(v) = D
    BY <2>3 DEF DiscoveryPart, Skipped, D
  <2>5. WarmPart(v) = W /\ v.comp.warm = W
    <3>1. old.comp.warm \in Nat /\ old.comp \in CompiledPaths
      BY DEF Worlds, CompiledPaths, ProfileWarmups
    <3>2. CASE old.comp.profile
      BY <2>2, <3>1, <3>2
      DEF OnEnterProfile, WarmPart, ExtraItersBeforeInference, CompiledPaths, W
    <3>3. CASE ~old.comp.profile
      BY <1>4, <2>2, <3>1, <3>3
      DEF OnEnterProfile, WarmPart, ExtraItersBeforeInference, W, m
    <3>4. QED
      BY <3>2, <3>3
  <2>6. ProfilePart(v) \in Nat \ {0}
    BY PaceTypes
  <2>7. Upto(0, ProfilePart(v) - 1) = 0
    BY <2>6 DEF Upto
  <2>8. QED
    BY <1>1, <1>7, <2>3, <2>4, <2>5, <2>7 DEF OnPace
<1>9. ASSUME v.err
      PROVE  OnPace(v, d + 1, k + 1)
  <2>1. v.om = w.om /\ v.comp = old.comp
    BY <1>9 DEF ToProfile
  <2>2. /\ v.om.phase = "DISCOVERY" /\ v.om.iter = n + 1 /\ v.om.cfg = old.om.cfg
        /\ v.om.honored = old.om.honored
    BY <1>2, <2>1
  <2>3. DiscoveryPart(v) = D /\ ~Skipped(v)
    BY <1>4, <2>2 DEF DiscoveryPart, Skipped, D
  <2>4. WarmPart(v) = W /\ v.comp.warm = m
    BY <2>1 DEF WarmPart, W, m
  <2>5. QED
    BY <1>1, <1>4, <1>7, <2>2, <2>3, <2>4 DEF OnPace
<1>10. QED
  BY <1>8, <1>9

(* Leaving the profile: inference is reached on the last forward of the    *)
(* budget, also where the ops then find no loader.                         *)
LEMMA PaceIntoInference ==
  ASSUME NEW w \in Worlds, NEW v \in Worlds, NEW f, NEW d \in Nat, NEW k \in Nat,
         NEW old \in Worlds,
         OnPace(old, d, k), old.om.phase = "PROFILING", old.comp.warm = 0,
         w.om = [old.om EXCEPT !.iter = old.om.iter + 1], w.comp = old.comp,
         ProfilingDue(w), ToInference(v, w, f)
  PROVE  IF InferenceFails(w, f) \/ f = "swap" THEN OnPace(v, d + 1, k + 1)
                                               ELSE OnPace(v, d + 1, k)
<1> DEFINE D == DiscoveryPart(old)
           W == WarmPart(old)
           P == ProfilePart(old)
           n == old.om.iter
<1>1. /\ D \in Nat /\ W \in Nat /\ P \in Nat \ {0} /\ n \in Nat
  BY PaceTypes
<1>2. /\ w.om.cfg = old.om.cfg /\ w.om.honored = old.om.honored /\ w.om.iter = n + 1
      /\ w.om.phase = "PROFILING"
  BY DEF Worlds, Managers
<1>3. n + 1 >= EagerProfilingIters(old.comp, old.om.cfg.prof)
  BY <1>2 DEF ProfilingDue
<1>4. d = D + W + Upto(n, P - 1) + k
  <2>1. d = D + (W - 0) + Upto(n, P - 1) + k
    BY DEF OnPace
  <2>2. QED
    BY <1>1, <2>1
<1>5. n >= P - 1
  <2>1. EagerProfilingIters(old.comp, old.om.cfg.prof) \in Nat
    BY DEF EagerProfilingIters, EagerForwards, Worlds, Managers, ConfigType
  <2>2. QED
    BY <1>1, <1>3, <2>1 DEF ProfilePart, AtLeastOne
<1> HIDE DEF D, W, P, n
<1>6. d = D + W + (P - 1) + k /\ Upto(n + 1, P - 1) = P - 1
  BY <1>1, <1>4, <1>5 DEF Upto
<1>7. CASE InferenceFails(w, f) \/ f = "swap"
  <2>1. v.om = w.om /\ v.comp = old.comp
    BY <1>7 DEF ToInference
  <2>2. /\ v.om.phase = "PROFILING" /\ v.om.iter = n + 1 /\ v.om.cfg = old.om.cfg
        /\ v.om.honored = old.om.honored
    BY <1>2, <2>1
  <2>3. DiscoveryPart(v) = D
    BY <2>2 DEF DiscoveryPart, Skipped, D
  <2>4. WarmPart(v) = W /\ v.comp.warm = 0 /\ ProfilePart(v) = P
    BY <2>1, <2>2 DEF WarmPart, ProfilePart, W, P
  <2>5. QED
    BY <1>1, <1>6, <1>7, <2>2, <2>3, <2>4 DEF OnPace
<1>8. CASE ~(InferenceFails(w, f) \/ f = "swap")
  <2>1. PICK o \in Managers :
           /\ Swapped(o, w.om, UserModel(w), "INFERENCE")
           /\ v.om = IF w.comp.active THEN [o EXCEPT !.forwards = "compiled"] ELSE o
    BY <1>8 DEF ToInference
  <2>2. /\ v.om.phase = "INFERENCE" /\ v.om.cfg = old.om.cfg
        /\ v.om.honored = old.om.honored
    BY <1>2, <2>1 DEF Swapped, Managers
  <2>3. /\ v.comp.active = old.comp.active /\ v.comp.replan = old.comp.replan
        /\ v.comp.profile = old.comp.profile
    BY <1>8 DEF ToInference
  <2>4. DiscoveryPart(v) = D
    BY <2>2 DEF DiscoveryPart, Skipped, D
  <2>5. WarmPart(v) = W /\ ProfilePart(v) = P
    BY <2>2, <2>3 DEF WarmPart, ExtraItersBeforeInference, ProfilePart, EagerProfilingIters, W, P
  <2>6. QED
    BY <1>1, <1>6, <1>8, <2>2, <2>4, <2>5 DEF OnPace
<1>9. QED
  BY <1>7, <1>8

(* A forward whose count is taken: what fails is known by its fault.       *)
LEMMA CountPace ==
  ASSUME NEW w \in Worlds, NEW f, NEW d \in Nat, NEW k \in Nat,
         ~w.err, Registered(w), HookStands(w.om),
         OnPace(w, d, k),
         \/ w.om.phase = "DISCOVERY"
         \/ w.om.phase = "PROFILING" /\ w.comp.warm = 0,
         f # "none" => Count(w, f).err /\ ~Count(w, "none").err
  PROVE  OnPace(Count(w, f), d + 1, IF f = "none" THEN k ELSE k + 1)
<1> DEFINE o == [w.om EXCEPT !.iter = w.om.iter + 1]
           c == [w EXCEPT !.om.iter = @ + 1]
           e == IF f = "none" THEN k ELSE k + 1
<1>1. o \in Managers
  BY DEF Worlds, Managers
<1>2. c = [w EXCEPT !.om = o]
  BY DEF Worlds
<1>3. OmStep(c, w) /\ c.om = o
  <2> HIDE DEF o
  <2>1. QED
    BY <1>1, <1>2, OmChanges
<1>4. /\ o.phase = w.om.phase /\ o.hooks = w.om.hooks /\ o.handle = w.om.handle
      /\ o.model = w.om.model /\ o.serial = w.om.serial /\ o.iter = w.om.iter + 1
      /\ o.cfg = w.om.cfg /\ o.honored = w.om.honored
  BY DEF Worlds, Managers
<1>5. \A g : Count(w, g) = IF DiscoveryDue(c) THEN TransitionToProfile(c, g)
                           ELSE IF ProfilingDue(c) THEN TransitionToInference(c, g) ELSE c
  BY DEF Count
<1>6. c.om = [w.om EXCEPT !.iter = w.om.iter + 1]
  BY <1>3
<1> HIDE DEF o, c
<1>7. /\ c \in Worlds /\ ~c.err /\ c.tm = w.tm /\ c.ops = w.ops /\ c.comp = w.comp
      /\ Registered(c) /\ w.om \in Managers
  BY <1>3 DEF OmStep, Registered, Worlds
<1>8. HookFollows(c.om)
  BY <1>1, <1>3, <1>4, <1>7, HookStays DEF HookStands
<1>9. CASE DiscoveryDue(c)
  <2> DEFINE p == TransitionToProfile(c, f)
  <2>1. \A g : ToProfile(TransitionToProfile(c, g), c, g)
    BY <1>7, <1>8, TransitionToProfileStep
  <2>2. ToProfile(p, c, f) /\ Count(w, f) = p
    BY <1>5, <1>9, <2>1
  <2> HIDE DEF p
  <2>3. p \in Worlds /\ (p.err <=> f \in {"profile", "swap"})
    BY <2>2 DEF ToProfile
  <2>4. w.om.phase = "DISCOVERY"
    BY <1>3, <1>4, <1>9 DEF DiscoveryDue
  <2>5. (~p.err => OnPace(p, d + 1, k)) /\ (p.err => OnPace(p, d + 1, k + 1))
    BY <1>6, <1>7, <1>9, <2>2, <2>3, <2>4, PaceIntoProfile
  <2>6. QED
    BY <2>2, <2>3, <2>5
<1>10. CASE ~DiscoveryDue(c) /\ ProfilingDue(c)
  <2> DEFINE i == TransitionToInference(c, f)
             j == TransitionToInference(c, "none")
  <2>1. ToInference(i, c, f) /\ ToInference(j, c, "none")
    BY <1>7, <1>8, TransitionToInferenceStep
  <2>2. Count(w, f) = i /\ Count(w, "none") = j
    BY <1>5, <1>10
  <2> HIDE DEF i, j
  <2>3. w.om.phase = "PROFILING" /\ w.comp.warm = 0 /\ i \in Worlds
    BY <1>3, <1>4, <1>10, <2>1 DEF ProfilingDue, ToInference
  <2>4. IF InferenceFails(c, f) \/ f = "swap" THEN OnPace(i, d + 1, k + 1)
                                              ELSE OnPace(i, d + 1, k)
    BY <1>6, <1>7, <1>10, <2>1, <2>3, PaceIntoInference
  <2>5. f = "none" <=> ~(InferenceFails(c, f) \/ f = "swap")
    <3>1. ~InferenceFails(c, "none")
      BY DEF InferenceFails
    <3>2. j.err <=> (c.comp.active /\ ~FitAfter(c))
      BY <2>1, <3>1 DEF ToInference
    <3>3. ~(InferenceFails(c, f) \/ f = "swap") => (i.err <=> (c.comp.active /\ ~FitAfter(c)))
      BY <2>1 DEF ToInference
    <3>4. QED
      BY <2>2, <3>1, <3>2, <3>3
  <2>6. QED
    BY <2>2, <2>4, <2>5
<1>11. CASE ~DiscoveryDue(c) /\ ~ProfilingDue(c)
  <2>1. Count(w, f) = c /\ f = "none"
    BY <1>5, <1>7, <1>11
  <2>2. /\ DiscoveryPart(c) = DiscoveryPart(w) /\ WarmPart(c) = WarmPart(w)
        /\ ProfilePart(c) = ProfilePart(w) /\ (Skipped(c) <=> Skipped(w))
    BY <1>3, <1>4, <1>7 DEF DiscoveryPart, WarmPart, ProfilePart, Skipped
  <2>3. /\ DiscoveryPart(w) \in Nat /\ WarmPart(w) \in Nat /\ ProfilePart(w) \in Nat \ {0}
        /\ ~Skipped(w) => DiscoveryPart(w) # 0
        /\ w.om.iter \in Nat /\ w.comp.warm \in Nat
    BY PaceTypes
  <2>4. c.om.iter = w.om.iter + 1 /\ c.om.phase = w.om.phase
    BY <1>3, <1>4
  <2>5. CASE w.om.phase = "DISCOVERY"
    <3>1. ~Skipped(w) /\ w.om.iter + 1 < w.om.cfg.disc
      BY <1>3, <1>4, <1>11, <2>3, <2>5 DEF DiscoveryDue, OnPace, Worlds, Managers, ConfigType
    <3>2. w.om.iter + 1 <= DiscoveryPart(w) - 1
      BY <2>3, <3>1 DEF DiscoveryPart, AtLeastOne, Worlds, Managers, ConfigType
    <3>3. d = w.om.iter + k /\ w.comp.warm <= WarmPart(w)
      BY <2>3, <2>5, <3>2 DEF OnPace, Upto
    <3>4. QED
      BY <1>7, <2>1, <2>2, <2>3, <2>4, <2>5, <3>1, <3>2, <3>3 DEF OnPace, Upto
  <2>6. CASE w.om.phase = "PROFILING"
    <3> DEFINE e0 == EagerProfilingIters(w.comp, w.om.cfg.prof)
    <3>1. e0 \in Nat
      BY DEF EagerProfilingIters, EagerForwards, Worlds, Managers, ConfigType
    <3>2. w.om.iter + 1 < e0
      BY <1>3, <1>4, <1>7, <1>11, <2>3, <2>6, <3>1 DEF ProfilingDue
    <3>3. ProfilePart(w) = AtLeastOne(e0)
      BY DEF ProfilePart
    <3> HIDE DEF e0
    <3>4. w.om.iter + 1 <= ProfilePart(w) - 1
      BY <2>3, <3>1, <3>2, <3>3 DEF AtLeastOne
    <3>5. /\ w.comp.warm <= WarmPart(w)
          /\ d = DiscoveryPart(w) + (WarmPart(w) - w.comp.warm) + w.om.iter + k
      BY <2>3, <2>6, <3>4 DEF OnPace, Upto
    <3>6. QED
      BY <1>7, <2>1, <2>2, <2>3, <2>4, <2>6, <3>4, <3>5 DEF OnPace, Upto
  <2>7. QED
    BY <2>5, <2>6
<1>12. QED
  BY <1>9, <1>10, <1>11

LEMMA ForwardsPace ==
  ASSUME NEW w \in Worlds, NEW gen \in Int, NEW f, NEW capturing \in BOOLEAN,
         NEW d \in Nat, NEW k \in Nat,
         ~w.err, Registered(w), HookStands(w.om), OnPace(w, d, k),
         w.om.phase \in {"DISCOVERY", "PROFILING"},
         f # "none" => /\ UpdateState(w, gen, f, capturing).err
                       /\ ~UpdateState(w, gen, "none", capturing).err
  PROVE  LET counted == w.om.phase = "DISCOVERY" \/ w.tm.suspended = 0
         IN  OnPace(UpdateState(w, gen, f, capturing),
                    IF counted THEN d + 1 ELSE d, IF f = "none" THEN k ELSE k + 1)
<1> DEFINE v(g) == UpdateState(w, gen, g, capturing)
<1>0. w.comp.warm \in Nat /\ w.comp \in CompiledPaths
  BY PaceTypes DEF Worlds
<1>1. CASE \/ w.om.phase = "DISCOVERY"
           \/ w.om.phase = "PROFILING" /\ w.tm.suspended = 0 /\ w.comp.warm = 0
  <2>1. \A g : v(g) = Count(w, g)
    BY <1>0, <1>1 DEF UpdateState, Counts
  <2> HIDE DEF v
  <2>2. f # "none" => Count(w, f).err /\ ~Count(w, "none").err
    BY <2>1 DEF v
  <2>3. OnPace(Count(w, f), d + 1, IF f = "none" THEN k ELSE k + 1)
    BY <1>1, <2>2, CountPace
  <2>4. OnPace(v(f), d + 1, IF f = "none" THEN k ELSE k + 1)
    BY <2>1, <2>3
  <2>5. QED
    BY <1>1, <2>4 DEF v
<1>2. CASE w.om.phase = "PROFILING" /\ w.tm.suspended = 0 /\ w.comp.warm # 0
  <2> DEFINE x == [w EXCEPT !.comp = AdvanceProfileWarmup(w.comp)]
  <2>1. w.comp.warm > 0
    BY <1>0, <1>2
  <2>2. \A g : v(g) = x
    BY <1>2, <2>1 DEF UpdateState, Counts
  <2> HIDE DEF v
  <2>3. /\ ~x.err /\ x.om = w.om
        /\ x.comp = [w.comp EXCEPT !.warm = w.comp.warm - 1]
    BY <2>1 DEF AdvanceProfileWarmup, Worlds, CompiledPaths
  <2>4. f = "none"
    BY <2>2, <2>3 DEF v
  <2>5. /\ x.comp.warm = w.comp.warm - 1 /\ x.comp.profile = w.comp.profile
        /\ x.comp.active = w.comp.active /\ x.comp.replan = w.comp.replan
    BY <1>0, <2>3 DEF CompiledPaths
  <2>6. /\ DiscoveryPart(x) = DiscoveryPart(w) /\ WarmPart(x) = WarmPart(w)
        /\ ProfilePart(x) = ProfilePart(w)
    BY <2>3, <2>5 DEF DiscoveryPart, WarmPart, ProfilePart, Skipped,
                      ExtraItersBeforeInference, EagerProfilingIters
  <2>7. /\ DiscoveryPart(w) \in Nat /\ WarmPart(w) \in Nat /\ ProfilePart(w) \in Nat \ {0}
        /\ w.om.iter \in Nat
    BY PaceTypes
  <2>8. /\ w.comp.warm <= WarmPart(w)
        /\ d = DiscoveryPart(w) + (WarmPart(w) - w.comp.warm)
               + Upto(w.om.iter, ProfilePart(w) - 1) + k
    BY <1>2 DEF OnPace
  <2>9. Upto(w.om.iter, ProfilePart(w) - 1) \in Nat
    BY <2>7 DEF Upto
  <2> HIDE DEF x
  <2>10. OnPace(x, d + 1, k)
    BY <1>0, <1>2, <2>1, <2>3, <2>5, <2>6, <2>7, <2>8, <2>9 DEF OnPace
  <2>11. v(f) = x
    BY <2>2
  <2>12. QED
    BY <1>2, <2>4, <2>10, <2>11 DEF v
<1>3. CASE w.om.phase = "PROFILING" /\ w.tm.suspended # 0
  <2>1. \A g : v(g) = w
    BY <1>3 DEF UpdateState, Counts
  <2> HIDE DEF v
  <2>2. f = "none" /\ v(f) = w
    BY <2>1 DEF v
  <2>3. QED
    BY <1>3, <2>2 DEF v
<1>4. QED
  BY <1>1, <1>2, <1>3

(* In inference a forward, a replay or a request for a replan moves the    *)
(* tail and nothing the pace is read from.                                 *)
LEMMA PathPace ==
  ASSUME NEW w \in Worlds, NEW v \in Worlds, PathKept(v.comp, w.comp),
         \E m \in BOOLEAN : v.om = [w.om EXCEPT !.manual = m]
  PROVE  SamePace(v, w)
<1>1. PICK m \in BOOLEAN : v.om = [w.om EXCEPT !.manual = m]
  OBVIOUS
<1>2. /\ v.om.phase = w.om.phase /\ v.om.iter = w.om.iter
      /\ v.om.cfg = w.om.cfg /\ v.om.honored = w.om.honored
  BY <1>1 DEF Worlds, Managers
<1>3. QED
  BY <1>2 DEF SamePace, PathKept

LEMMA MeasuringPace ==
  ASSUME NEW w \in Worlds, NEW gen \in Int, NEW f, NEW capturing \in BOOLEAN,
         ~w.err, Registered(w), w.om.phase = "INFERENCE"
  PROVE  SamePace(UpdateState(w, gen, f, capturing), w)
<1> DEFINE pub == UpdateOffloadTiming(w, gen, capturing)
           u == pub.w
           v == UpdateState(w, gen, f, capturing)
<1>0. w.om = [w.om EXCEPT !.manual = w.om.manual] /\ w.om.manual \in BOOLEAN
  BY DEF Worlds, Managers
<1>1. ASSUME NEW x \in Worlds, NEW y, Ticked(y, x), x.om = w.om, x.comp = w.comp
      PROVE  SamePace(y, w)
  <2>1. y \in Worlds /\ PathKept(y.comp, w.comp)
    BY <1>1 DEF Ticked, Frame
  <2>2. \E m \in BOOLEAN : y.om = [w.om EXCEPT !.manual = m]
    BY <1>0, <1>1 DEF Ticked
  <2>3. QED
    BY <2>1, <2>2, PathPace
<1>2. CASE w.om.manual
  <2>1. v = IF pub.ok THEN ManualTick(u, f) ELSE FailManualUpdateReplan(u)
    BY <1>2 DEF UpdateState, MeasureReplay, ManualTick
  <2>2. /\ u \in Worlds /\ u.om = w.om /\ u.tm = w.tm /\ u.ops = w.ops /\ ~u.err
        /\ u.comp = w.comp
    BY TimingStep
  <2> HIDE DEF pub, v
  <2>3. CASE pub.ok
    <3>1. Ticked(ManualTick(u, f), u)
      BY <2>2, TickSteps DEF Registered
    <3>2. QED
      BY <1>1, <2>1, <2>2, <2>3, <3>1 DEF v
  <2>4. CASE ~pub.ok
    <3>1. v \in Worlds /\ v.om = [w.om EXCEPT !.manual = FALSE]
      BY <2>1, <2>2, <2>4, FailedMeasure
    <3>2. v.comp = [u.comp EXCEPT !.tail = Failed(u.comp.tail)]
      BY <2>1, <2>2, <2>4 DEF FailManualUpdateReplan, Raise, Worlds, CompiledPaths
    <3>3. PathKept(v.comp, w.comp)
      BY <2>2, <3>2 DEF PathKept, Worlds, CompiledPaths
    <3>4. SamePace(v, w)
      BY <3>1, <3>3, PathPace
    <3>5. QED
      BY <3>4 DEF v
  <2>5. QED
    BY <2>3, <2>4
<1>3. CASE ~w.om.manual
  <2>1. v = PassiveTick(w, f)
    BY <1>3 DEF UpdateState, PassiveTick
  <2> HIDE DEF v
  <2>2. Ticked(v, w)
    BY <2>1, TickSteps
  <2>3. SamePace(v, w)
    BY <1>1, <2>2
  <2>4. QED
    BY <2>3 DEF v
<1>4. QED
  BY <1>2, <1>3

------------------------------------------------------------------------------
(* The pace of every action. *)

(* What a call makes of the pace is what its world says of it.             *)
PaceOf(w, d, k) == OnPace(w, d, k) /\ (w.om.manual => w.om.phase = "INFERENCE")

LEMMA PaceAfter ==
  ASSUME NEW w \in Worlds, Become(w),
         hist'.fresh => PaceOf(w, hist'.driven, hist'.failures)
  PROVE  PaceInv'
<1>1. /\ World'.om = w.om /\ om' = w.om /\ World'.comp = w.comp
  BY DEF Become, World
<1>2. SamePace(World', w)
  BY <1>1 DEF SamePace
<1>3. ASSUME hist'.fresh
      PROVE  OnPace(World', hist'.driven, hist'.failures)
  BY <1>2, <1>3, PaceKept DEF PaceOf
<1>4. QED
  BY <1>1, <1>3 DEF PaceInv, PaceOf

LEMMA PaceStays ==
  ASSUME Inv, PaceInv, NEW w \in Worlds, Become(w), SamePace(w, World),
         w.om.manual => om.manual \/ om.phase = "INFERENCE",
         hist'.fresh => /\ hist.fresh
                        /\ hist'.driven = hist.driven /\ hist'.failures = hist.failures
  PROVE  PaceInv'
<1>1. ASSUME hist'.fresh
      PROVE  PaceOf(w, hist'.driven, hist'.failures)
  <2>1. OnPace(World, hist'.driven, hist'.failures) /\ (om.manual => om.phase = "INFERENCE")
    BY <1>1 DEF PaceInv
  <2>2. OnPace(w, hist'.driven, hist'.failures)
    BY <2>1, PaceKept
  <2>3. w.om.phase = om.phase
    BY WorldFields DEF SamePace
  <2>4. QED
    BY <2>1, <2>2, <2>3 DEF PaceOf
<1>2. QED
  BY <1>1, PaceAfter

(* A session begins with nothing behind it: of the parts of the budget     *)
(* only a discovery that is skipped is over.                               *)
LEMMA PaceBegins ==
  ASSUME Inv, NEW w, Become(w), SetUp(w, World), NewSession(w)
  PROVE  PaceInv'
<1>1. w \in Worlds /\ hist \in Histories
  BY DEF SetUp, Sound, Inv
<1>2. /\ hist'.fresh => ~w.err /\ w.om.phase \in {"DISCOVERY", "PROFILING"}
      /\ hist'.driven = 0 /\ hist'.failures = 0
  BY <1>1 DEF NewSession, Histories
<1>3. ASSUME hist'.fresh
      PROVE  PaceOf(w, 0, 0)
  <2>1. ~w.err /\ w.om.phase \in {"DISCOVERY", "PROFILING"}
    BY <1>2, <1>3
  <2>2. PICK c \in ConfigType : Starts(w, Activation(c))
    BY <2>1 DEF SetUp
  <2> DEFINE a == Activation(c)
  <2>3. a.warm = 0 /\ a.warm \in Nat
    BY DEF Activation, Inactive
  <2>4. a \in CompiledPaths
    BY PathTypes
  <2> HIDE DEF a
  <2>5. /\ w.om.iter = 0 /\ ~w.om.manual
        /\ w.om.phase = "DISCOVERY" =>
             w.comp = a /\ w.om.honored = IF w.om.cfg.skip THEN "no" ELSE "yes"
        /\ w.om.phase = "PROFILING" =>
             w.comp = OnEnterProfile(a) /\ w.om.cfg.skip /\ w.om.honored = "yes"
    BY <2>1, <2>2 DEF Starts, a
  <2>6. /\ DiscoveryPart(w) \in Nat /\ WarmPart(w) \in Nat /\ ProfilePart(w) \in Nat \ {0}
        /\ ~Skipped(w) => DiscoveryPart(w) # 0
    BY <1>1, PaceTypes
  <2>7. CASE w.om.phase = "DISCOVERY"
    <3>1. ~Skipped(w)
      BY <2>5, <2>7 DEF Skipped
    <3>2. w.comp.warm = 0
      BY <2>3, <2>5, <2>7
    <3>3. Upto(0, DiscoveryPart(w) - 1) = 0
      BY <2>6, <3>1 DEF Upto
    <3>4. QED
      BY <2>5, <2>6, <2>7, <3>1, <3>2, <3>3 DEF PaceOf, OnPace
  <2>8. CASE w.om.phase = "PROFILING"
    <3>1. DiscoveryPart(w) = 0
      BY <2>5, <2>8 DEF DiscoveryPart, Skipped
    <3>2. w.comp.warm = WarmPart(w)
      BY <2>3, <2>4, <2>5, <2>8
      DEF OnEnterProfile, WarmPart, ExtraItersBeforeInference, CompiledPaths
    <3>3. Upto(0, ProfilePart(w) - 1) = 0
      BY <2>6 DEF Upto
    <3>4. QED
      BY <2>5, <2>6, <2>8, <3>1, <3>2, <3>3 DEF PaceOf, OnPace
  <2>9. QED
    BY <2>1, <2>7, <2>8
<1>4. QED
  BY <1>1, <1>2, <1>3, PaceAfter

(* No transition asks for a replan. *)
LEMMA CountManual ==
  ASSUME NEW w \in Worlds, NEW f,
         ~w.err, Registered(w), HookStands(w.om)
  PROVE  Count(w, f).om.manual = w.om.manual
<1> DEFINE n == w.om.iter + 1
           o == [w.om EXCEPT !.iter = n]
           c == [w EXCEPT !.om.iter = @ + 1]
           p == TransitionToProfile(c, f)
           i == TransitionToInference(c, f)
<1>1. w.om \in Managers /\ n \in Nat
  BY DEF Worlds, Managers
<1>2. c = [w EXCEPT !.om = o]
  BY DEF Worlds
<1> HIDE DEF n
<1>3. /\ o \in Managers /\ o.phase = w.om.phase /\ o.hooks = w.om.hooks
      /\ o.handle = w.om.handle /\ o.model = w.om.model /\ o.serial = w.om.serial
      /\ o.manual = w.om.manual
  BY <1>1 DEF Managers
<1>4. Count(w, f) = IF DiscoveryDue(c) THEN p ELSE IF ProfilingDue(c) THEN i ELSE c
  BY DEF Count
<1> HIDE DEF o, c
<1>5. OmStep(c, w) /\ c.om = o
  BY <1>2, <1>3, OmChanges
<1>6. c \in Worlds /\ ~c.err /\ Registered(c)
  BY <1>5 DEF OmStep, Registered
<1>7. HookFollows(c.om)
  BY <1>1, <1>3, <1>5, HookStays DEF HookStands
<1>8. ToProfile(p, c, f) /\ ToInference(i, c, f)
  BY <1>6, <1>7, TransitionToProfileStep, TransitionToInferenceStep
<1> HIDE DEF p, i
<1>9. p.om.manual = o.manual
  BY <1>5, <1>8 DEF ToProfile, Swapped
<1>10. i.om.manual = o.manual
  <2>1. CASE InferenceFails(c, f) \/ f = "swap"
    BY <1>5, <1>8, <2>1 DEF ToInference
  <2>2. CASE ~(InferenceFails(c, f) \/ f = "swap")
    <3>1. PICK z \in Managers :
             /\ Swapped(z, c.om, UserModel(c), "INFERENCE")
             /\ i.om = IF c.comp.active THEN [z EXCEPT !.forwards = "compiled"] ELSE z
      BY <1>8, <2>2 DEF ToInference
    <3>2. QED
      BY <1>5, <3>1 DEF Swapped, Managers
  <2>3. QED
    BY <2>1, <2>2
<1>11. QED
  BY <1>3, <1>4, <1>5, <1>9, <1>10

LEMMA DrivingManual ==
  ASSUME NEW w \in Worlds, NEW gen, NEW f, NEW capturing,
         ~w.err, Registered(w), HookStands(w.om),
         w.om.phase \in {"DISCOVERY", "PROFILING"}
  PROVE  UpdateState(w, gen, f, capturing).om.manual = w.om.manual
<1> DEFINE x == [w EXCEPT !.comp = AdvanceProfileWarmup(w.comp)]
           v == UpdateState(w, gen, f, capturing)
<1>1. v \in {w, x, Count(w, f)}
  BY DEF UpdateState
<1>2. x.om = w.om
  BY DEF Worlds
<1> HIDE DEF x, v
<1>3. QED
  BY <1>1, <1>2, CountManual DEF v

LEMMA PaceOfForward ==
  ASSUME Inv, PaceInv, NEW f, NEW capturing \in BOOLEAN, Forward(f, capturing)
  PROVE  PaceInv'
<1> DEFINE s == Serving(World)
           p == RunPass(World, PassNumber, capturing)
           u(g) == UpdateState(p, NoGeneration, g, capturing)
           w(g) == IF s = "raise" THEN Raise(World) ELSE u(g)
           counted == /\ Driving /\ s # "raise"
                      /\ om.phase = "DISCOVERY" \/ tm.suspended = 0
<1>1. /\ World \in Worlds /\ Registered(World) /\ HookStands(World.om) /\ ~World.err
      /\ World.om = om /\ World.tm = tm
      /\ om.phase # "NOT_INITIALIZED" /\ ~user.broken /\ ~om.manual
      /\ user \in Users /\ hist \in Histories
  BY StandingWorld, WorldFields DEF Forward
<1>2. Become(w(f))
  BY DEF Forward
<1>3. f # "none" => w(f).err /\ ~w("none").err
  BY DEF Forward, Strikes
<1>4. hist' = [hist EXCEPT
                 !.served = s,
                 !.driven = IF counted THEN @ + 1 ELSE @,
                 !.failures = IF Driving /\ f # "none" THEN @ + 1 ELSE @,
                 !.halfway = @ \/ (Driving /\ f = "swap"),
                 !.dropped = IF Driving /\ f = "swap" THEN @ \cup {w(f).tm.loader} ELSE @]
  BY DEF Forward
<1>5. PassNumber \in Nat
  BY <1>1 DEF PassNumber, Users
<1> HIDE DEF s
<1>6. /\ hist'.fresh = hist.fresh
      /\ hist'.driven = IF counted THEN hist.driven + 1 ELSE hist.driven
      /\ hist'.failures = IF Driving /\ f # "none" THEN hist.failures + 1 ELSE hist.failures
  <2> HIDE DEF u, w, counted
  <2>1. QED
    BY <1>1, <1>4 DEF Histories
<1>7. om.phase \in {"DISCOVERY", "PROFILING", "INFERENCE"}
  BY <1>1 DEF Worlds, Managers, Phases
<1>8. CASE s = "raise"
  <2>1. f = "none"
    BY <1>1, <1>3, <1>8, StepsStay
  <2>2. /\ Raise(World) \in Worlds /\ Raise(World).om = World.om
        /\ Raise(World).comp = World.comp
    BY <1>1, StepsStay
  <2>3. SamePace(Raise(World), World)
    BY <2>2 DEF SamePace
  <2>4. Become(Raise(World))
    BY <1>2, <1>8
  <2>5. QED
    BY <1>1, <1>6, <1>8, <2>1, <2>2, <2>3, <2>4, PaceStays
<1>9. CASE s # "raise"
  <2>1. /\ p \in Worlds /\ p.om = World.om /\ p.tm = World.tm /\ ~p.err
        /\ p.comp = World.comp /\ p.ops.loader = World.ops.loader
    BY <1>1, <1>5, RunPassStep
  <2> HIDE DEF p
  <2>2. Registered(p) /\ HookStands(p.om)
    BY <1>1, <2>1 DEF Registered
  <2>3. f # "none" => u(f).err /\ ~u("none").err
    BY <1>3, <1>9
  <2>4. Moved(u(f), p, f)
    BY <1>1, <2>1, <2>2, NoGenerationType, UpdateStateStep
  <2>5. u(f) \in Worlds /\ Become(u(f))
    BY <1>2, <1>9, <2>4 DEF Moved
  <2>6. SamePace(p, World)
    BY <2>1 DEF SamePace
  <2>7. CASE om.phase = "INFERENCE"
    <3>1. SamePace(u(f), p)
      BY <1>1, <2>1, <2>2, <2>7, NoGenerationType, MeasuringPace
    <3>2. SamePace(u(f), World)
      BY <2>6, <3>1 DEF SamePace
    <3> HIDE DEF u
    <3>3. hist'.driven = hist.driven /\ hist'.failures = hist.failures
      BY <1>6, <2>7 DEF Driving
    <3>4. QED
      BY <1>6, <2>5, <2>7, <3>2, <3>3, PaceStays
  <2>8. CASE om.phase \in {"DISCOVERY", "PROFILING"}
    <3>1. u(f).om.manual = p.om.manual
      BY <1>1, <2>1, <2>2, <2>8, DrivingManual
    <3>2. ASSUME hist.fresh
          PROVE  OnPace(u(f), hist'.driven, hist'.failures)
      <4>1. OnPace(p, hist.driven, hist.failures)
        BY <2>6, <3>2, PaceKept DEF PaceInv
      <4>2. hist.driven \in Nat /\ hist.failures \in Nat
        BY <1>1 DEF Histories
      <4> DEFINE more == p.om.phase = "DISCOVERY" \/ p.tm.suspended = 0
                 d == IF more THEN hist.driven + 1 ELSE hist.driven
                 k == IF f = "none" THEN hist.failures ELSE hist.failures + 1
      <4>3. OnPace(u(f), d, k)
        BY <1>1, <2>1, <2>2, <2>3, <2>8, <4>1, <4>2, NoGenerationType, ForwardsPace
      <4>4. hist'.driven = d /\ hist'.failures = k
        BY <1>1, <1>6, <1>9, <2>1, <2>8 DEF Driving
      <4>5. QED
        BY <4>3, <4>4
    <3> HIDE DEF u
    <3>3. hist'.fresh => PaceOf(u(f), hist'.driven, hist'.failures)
      BY <1>1, <1>6, <2>1, <3>1, <3>2 DEF PaceOf
    <3>4. QED
      BY <2>5, <3>3, PaceAfter
  <2>9. QED
    BY <1>7, <2>7, <2>8
<1>10. QED
  BY <1>8, <1>9

(* Steps that touch neither the manager nor its path nor the history. *)
LEMMA PaceUnmoved ==
  ASSUME PaceInv, UNCHANGED <<om, comp, hist>>
  PROVE  PaceInv'
<1>1. World'.om = om /\ World'.comp = comp /\ World.om = om /\ World.comp = comp
  BY DEF World
<1>2. SamePace(World', World)
  BY <1>1 DEF SamePace
<1>3. ASSUME hist.fresh
      PROVE  OnPace(World', hist.driven, hist.failures)
  BY <1>2, <1>3, PaceKept DEF PaceInv
<1>4. QED
  BY <1>3 DEF PaceInv

LEMMA PaceOfReplay ==
  ASSUME Inv, PaceInv, Replay
  PROVE  PaceInv'
<1> DEFINE c == RecordReplay(World.col, user.pass + 1)
           s == [World EXCEPT !.col = c]
           t == UpdateOffloadTiming(s, user.pass + 1, FALSE).w
           w == IF user.hooked THEN t ELSE s
<1>1. Become(w) /\ hist' = hist
  BY StandingWorld DEF Replay, Worlds
<1>2. user.pass + 1 \in Nat /\ user.pass + 1 \in Int /\ World.col \in Collectors
  BY StandingWorld DEF Worlds
<1>3. c \in Collectors
  BY <1>2, PassTypes, NoGenerationType
<1> HIDE DEF c
<1>4. s \in Worlds /\ s.om = om /\ s.comp = comp
  BY <1>3, StandingWorld, WorldFields DEF Worlds
<1> HIDE DEF s
<1>5. t \in Worlds /\ t.om = om /\ t.comp = comp
  BY <1>2, <1>4, TimingStep
<1> HIDE DEF t
<1>6. UNCHANGED <<om, comp, hist>>
  BY <1>1, <1>4, <1>5 DEF Become
<1>7. QED
  BY <1>6, PaceUnmoved

LEMMA PaceOfRequest ==
  ASSUME Inv, PaceInv, NEW manual \in BOOLEAN, RequestStrategyReplan(manual)
  PROVE  PaceInv'
<1> DEFINE w == IF manual THEN BeginManualUpdateReplan(World) ELSE RequestPassiveReplan(World)
<1>1. Become(w) /\ om.phase = "INFERENCE"
  BY DEF RequestStrategyReplan
<1>2. hist' = [hist EXCEPT !.rearmed = @ \/ comp.tail.state = "FAILED",
                           !.from = IF w.om.manual THEN user.pass ELSE @]
  BY DEF RequestStrategyReplan
<1>3. Requested(w, World)
  BY StandingWorld, RequestPassiveStep, BeginManualStep
<1> HIDE DEF w
<1>4. w \in Worlds /\ SamePace(w, World)
  BY <1>3, StandingWorld, PathPace DEF Requested, Frame
<1>5. /\ hist'.fresh = hist.fresh
      /\ hist'.driven = hist.driven /\ hist'.failures = hist.failures
  BY <1>2, StandingWorld DEF Histories
<1>6. QED
  BY <1>1, <1>4, <1>5, PaceStays

LEMMA PaceOfUpdate ==
  ASSUME Inv, PaceInv, NEW gen \in Int, NEW f, NEW capturing \in BOOLEAN,
         UpdateAfterReplay(gen, f, capturing)
  PROVE  PaceInv'
<1> DEFINE w == UpdateState(World, gen, f, capturing)
<1>1. Become(w) /\ om.manual /\ hist' = hist /\ ~user.broken
  BY DEF UpdateAfterReplay
<1>2. CASE ~hist.fresh
  BY <1>1, <1>2 DEF PaceInv
<1>3. CASE hist.fresh
  <2>1. om.phase = "INFERENCE"
    BY <1>1, <1>3 DEF PaceInv
  <2>2. SamePace(w, World)
    BY <2>1, StandingWorld, WorldFields, MeasuringPace
  <2>3. Moved(w, World, f)
    BY <1>1, <2>1, StandingWorld, WorldFields, UpdateStateStep
  <2> HIDE DEF w
  <2>4. w \in Worlds
    BY <2>3 DEF Moved
  <2>5. QED
    BY <1>1, <2>2, <2>4, PaceStays
<1>4. QED
  BY <1>2, <1>3

LEMMA PaceOfLoadProfile ==
  ASSUME Inv, PaceInv, NEW c \in Configs, LoadProfile(c)
  PROVE  PaceInv'
<1> DEFINE s == [World EXCEPT !.om.cfg = c]
           i == InitializeTensorManager(s, c, "none")
           u == IF tm.on THEN s ELSE i
           w == [u EXCEPT !.tm.restored = TRUE]
<1>1. c \in ConfigType
  BY ConfigsAssumption
<1>2. /\ OmStep(s, World) /\ SameStation(s.om, World.om)
      /\ s.om.manual = World.om.manual
  BY <1>1, StandingWorld, ConfigStep
<1>3. om.phase = "NOT_INITIALIZED" /\ hist' = hist /\ Become(w)
  <2>1. SetConfig(World, c) = s
    BY StandingWorld, StepsStay DEF LoadProfile, SetConfig
  <2>2. QED
    BY <2>1 DEF LoadProfile
<1> HIDE DEF s
<1>4. s \in Worlds
  BY <1>2 DEF OmStep
<1>5. u \in Worlds /\ u.om = s.om
  <2>1. Initialized(i, s, c)
    BY <1>1, <1>4, InitializeTensorManagerStep
  <2> HIDE DEF i
  <2>2. QED
    BY <1>4, <2>1 DEF Initialized
<1> HIDE DEF u
<1>6. w \in Worlds /\ w.om = s.om
  <2>1. w \in Worlds /\ w.om = u.om
    BY <1>5, RestoredStep
  <2>2. QED
    BY <1>5, <2>1
<1> HIDE DEF w
<1>7. w.om.phase = "NOT_INITIALIZED" /\ w.om.manual = om.manual
  BY <1>2, <1>3, <1>6, WorldFields DEF SameStation
<1>8. hist'.fresh => PaceOf(w, hist'.driven, hist'.failures)
  BY <1>3, <1>7 DEF PaceInv, PaceOf, OnPace
<1>9. QED
  BY <1>3, <1>6, <1>8, PaceAfter

LEMMA PaceOfOffload ==
  ASSUME Inv, PaceInv, NEW c \in Configs, NEW f, Offload(c, f)
  PROVE  PaceInv'
<1> DEFINE w == OffloadModel(World, c, f)
<1>1. Become(w)
  BY DEF Offload
<1>2. c \in ConfigType
  BY ConfigsAssumption
<1>3. Offloaded(w, World, c)
  BY <1>2, StandingWorld, OffloadModelStep
<1>4. w.err /\ ~Acceptable(c) => hist' = hist
  BY DEF Offload
<1>5. ~(w.err /\ ~Acceptable(c)) => NewSession(w)
  BY DEF Offload
<1>6. CASE Acceptable(c)
  <2> HIDE DEF w
  <2>1. QED
    BY <1>1, <1>3, <1>5, <1>6, PaceBegins DEF Offloaded
<1>7. CASE ~Acceptable(c)
  <2> DEFINE m == [World EXCEPT !.om.manual = FALSE]
  <2>1. /\ OmStep(m, World) /\ SameStation(m.om, World.om) /\ m.om.cfg = World.om.cfg
        /\ ~m.om.manual /\ m.om.iter = World.om.iter
        /\ m.om.honored = World.om.honored
    BY StandingWorld, ManualStep
  <2>2. w = IF Raise(m).err THEN Raise(m) ELSE w
    BY <1>7 DEF OffloadModel, ResolveActivation, Then
  <2> HIDE DEF m, w
  <2>3. m \in Worlds /\ m.comp = World.comp
    BY <2>1 DEF OmStep
  <2>4. w = Raise(m) /\ w \in Worlds /\ w.om = m.om /\ w.comp = m.comp /\ w.err
    BY <2>2, <2>3, StepsStay
  <2>5. SamePace(w, World)
    BY <2>1, <2>3, <2>4 DEF SamePace, SameStation
  <2>6. QED
    BY <1>1, <1>4, <1>7, <2>1, <2>4, <2>5, PaceStays
<1>8. QED
  BY <1>6, <1>7

LEMMA InitPace == Init => PaceInv
BY DEF Init, PaceInv, NoHistory

LEMMA NextPace == Inv /\ PaceInv /\ [Next]_vars => PaceInv'
<1> SUFFICES ASSUME Inv, PaceInv, [Next]_vars PROVE PaceInv'
  OBVIOUS
<1>1. ASSUME NEW f \in DriveFaults, Forward(f, FALSE) PROVE PaceInv'
  BY <1>1, PaceOfForward
<1>2. CASE Forward("none", TRUE)
  BY <1>2, PaceOfForward
<1>3. CASE ForwardRaises \/ Suspend \/ Resume \/ UNCHANGED vars
  BY <1>3, PaceUnmoved DEF ForwardRaises, Suspend, Resume, vars
<1>4. ASSUME NEW c \in Configs, NEW f \in SetupFaults, Offload(c, f) PROVE PaceInv'
  BY <1>4, PaceOfOffload
<1>5. ASSUME NEW c \in Configs, LoadProfile(c) PROVE PaceInv'
  BY <1>5, PaceOfLoadProfile
<1>6. ASSUME NEW c \in Configs, NEW f \in SetupFaults, FollowShm(c, f) PROVE PaceInv'
  <2> DEFINE w == InitializeFromShm(World, c, f)
  <2>1. Become(w) /\ NewSession(w) /\ ~tm.on
    BY <1>6 DEF FollowShm
  <2>2. SetUp(w, World)
    BY <2>1, ConfigsAssumption, StandingWorld, WorldFields, FollowStep
  <2> HIDE DEF w
  <2>3. QED
    BY <2>1, <2>2, PaceBegins
<1>7. ASSUME NEW c \in Configs, NEW f \in SetupFaults, NEW g \in ReleaseFaults,
             TakeOver(c, f, g)
      PROVE  PaceInv'
  <2> DEFINE w == OffloadFromState(World, c, f, g)
  <2>1. Become(w) /\ NewSession(w) /\ om.phase = "NOT_INITIALIZED" /\ ~tm.on
    BY <1>7 DEF TakeOver
  <2>2. SetUp(w, World)
    BY <2>1, ConfigsAssumption, StandingWorld, WorldFields, OffloadFromStateStep
    DEF TakenOver
  <2> HIDE DEF w
  <2>3. QED
    BY <2>1, <2>2, PaceBegins
<1>8. ASSUME NEW manual \in BOOLEAN, RequestStrategyReplan(manual) PROVE PaceInv'
  BY <1>8, PaceOfRequest
<1>9. CASE Replay
  BY <1>9, PaceOfReplay
<1>10. ASSUME NEW gen \in {NoGeneration, user.pass}, NEW f \in ReplanFaults,
              NEW capturing \in BOOLEAN, UpdateAfterReplay(gen, f, capturing)
       PROVE  PaceInv'
  <2>1. gen \in Int
    BY StandingWorld, NoGenerationType
  <2>2. QED
    BY <1>10, <2>1, PaceOfUpdate
<1>11. ASSUME NEW f \in ReleaseFaults, ReleaseAll(f) PROVE PaceInv'
  <2>1. ~hist'.fresh
    BY <1>11 DEF ReleaseAll, NoHistory
  <2>2. QED
    BY <2>1 DEF PaceInv
<1>12. QED
  BY <1>1, <1>2, <1>3, <1>4, <1>5, <1>6, <1>7, <1>8, <1>9, <1>10, <1>11 DEF Next

(* iters_before_inference is the truth: a fresh session reaches inference  *)
(* on the forward the announced budget ends with, and not before, apart    *)
(* from one more forward for every transition that failed; suspensions,    *)
(* replans and replays do not change that, for any budgets, configurations *)
(* and faults.                                                             *)
THEOREM BudgetKept == Spec => []InferenceAfterBudget
<1>1. Init => Inv /\ PaceInv
  BY InitInv, InitPace
<1>2. Inv /\ PaceInv /\ [Next]_vars => (Inv /\ PaceInv)'
  BY NextInv, NextPace
<1>3. Inv /\ PaceInv => InferenceAfterBudget
  BY PaceMeansBudget
<1>4. QED
  BY <1>1, <1>2, <1>3, PTL DEF Spec

------------------------------------------------------------------------------
(* What forwards are served from.                                          *)

(* The loader and the parameters as another step left them.                *)
SameHold(s, t) ==
  /\ s.on = t.on /\ s.cfg = t.cfg /\ s.loader = t.loader /\ s.kind = t.kind
  /\ s.trap = t.trap /\ s.restored = t.restored /\ s.weights = t.weights
  /\ s.live = t.live

(* What a call on a manager at work keeps. *)
Upheld(v, w, halfway, rearmed) ==
  Grounded(v) /\ AtWork(v, halfway, rearmed) /\ v.om.cfg = w.om.cfg

StaysFailed(v, w) == w.comp.tail.state = "FAILED" => v.comp.tail.state = "FAILED"

LEMMA UpheldSame ==
  ASSUME NEW v, NEW w, NEW h \in BOOLEAN, NEW r \in BOOLEAN,
         SameHold(v.tm, w.tm), Timed(v.col, w.col),
         v.om.phase = w.om.phase, v.om.forwards = w.om.forwards, v.om.cfg = w.om.cfg,
         v.comp.active = w.comp.active, v.comp.tail.state = w.comp.tail.state,
         v.ops.loader = w.ops.loader, v.ops.armed = w.ops.armed,
         v.ops.samples => w.ops.samples \/ w.tm.cfg.block,
         Grounded(w), AtWork(w, h, r)
  PROVE  Upheld(v, w, h, r)
<1>1. Grounded(v)
  BY DEF Grounded, SameHold, Timed
<1>2. Driven(w, h) /\ v.om.phase = w.om.phase => Driven(v, h)
  BY DEF Driven, SameHold, Alive
<1>3. Staged(w) => Staged(v)
  BY <1>1 DEF Staged, SameHold
<1>4. (Alive(v) <=> Alive(w)) /\ (OwnView(v) <=> OwnView(w)) /\ (Agreed(v) <=> Agreed(w))
  BY DEF Alive, OwnView, Agreed, SameHold
<1>5. Steady(w, h, r) => Steady(v, h, r)
  BY <1>3, <1>4 DEF Steady, SameHold
<1>6. QED
  BY <1>1, <1>2, <1>5 DEF Upheld, AtWork

(* A forward whose count is taken. *)
LEMMA ProfileUpheld ==
  ASSUME NEW w \in Worlds, NEW v, NEW f, NEW h \in BOOLEAN, NEW r \in BOOLEAN,
         w.tm.on, Grounded(w), w.om.phase = "DISCOVERY", Driven(w, h),
         ToProfile(v, w, f)
  PROVE  Upheld(v, w, h \/ f = "swap", r)
<1>1. Grounded(v)
  BY DEF ToProfile, Rooted
<1>2. CASE v.err
  <2>1. v.om = w.om /\ v.comp = w.comp /\ v.tm.restored = w.tm.restored
    BY <1>2 DEF ToProfile
  <2>2. ASSUME ~(h \/ f = "swap")
        PROVE  v.tm.trap = "warmup" /\ v.tm.weights = 0
    <3>1. f = "profile" /\ ProfileTm(v.tm, w.tm, TRUE)
      BY <1>2, <2>2 DEF ToProfile
    <3>2. w.tm.trap = "warmup" /\ w.tm.weights = 0
      BY <2>2 DEF Driven
    <3>3. QED
      BY <3>1, <3>2 DEF ProfileTm
  <2>3. Driven(v, h \/ f = "swap")
    BY <2>1, <2>2 DEF Driven
  <2>4. QED
    BY <1>1, <2>1, <2>3 DEF Upheld, AtWork
<1>3. CASE ~v.err
  <2>1. PICK model \in Models : Swapped(v.om, w.om, model, "PROFILING")
    BY <1>3 DEF ToProfile
  <2>2. /\ v.om.phase = "PROFILING" /\ v.om.forwards = w.om.forwards /\ v.om.cfg = w.om.cfg
    BY <2>1 DEF Swapped
  <2>3. v.comp = OnEnterProfile(w.comp) /\ v.tm.restored = w.tm.restored
    BY <1>3 DEF ToProfile
  <2>4. v.comp.tail = w.comp.tail
    BY <2>3 DEF OnEnterProfile, Worlds, CompiledPaths
  <2>5. ASSUME ~h
        PROVE  /\ Alive(v)
               /\ v.tm.weights # 0 => v.tm.kind = "controller" /\ v.tm.weights = v.tm.loader
    <3>1. f # "profile" /\ ProfileTm(v.tm, w.tm, FALSE)
      BY <1>3 DEF ToProfile
    <3>2. w.tm.weights = 0
      BY <2>5 DEF Driven
    <3>3. QED
      BY <3>1, <3>2 DEF ProfileTm, Alive
  <2>6. Driven(v, h \/ f = "swap")
    BY <2>2, <2>3, <2>4, <2>5 DEF Driven
  <2>7. QED
    BY <1>1, <2>2, <2>6 DEF Upheld, AtWork
<1>4. QED
  BY <1>2, <1>3 DEF ToProfile

LEMMA InferenceUpheld ==
  ASSUME NEW w \in Worlds, NEW v, NEW f, NEW h \in BOOLEAN, NEW r \in BOOLEAN,
         w.tm.on, Grounded(w), w.om.phase = "PROFILING", Driven(w, h),
         ToInference(v, w, f)
  PROVE  Upheld(v, w, h \/ f = "swap", r)
<1>1. /\ Grounded(v) /\ v \in Worlds /\ ~v.tm.restored /\ ~w.tm.restored
      /\ v.tm.cfg = w.tm.cfg
  BY DEF ToInference, Rooted, Driven, SameSettings
<1>2. ~h => OwnWeights(w) = 0
  BY DEF OwnWeights, Driven
<1>3. CASE InferenceFails(w, f) \/ f = "swap"
  <2>1. v.om = w.om /\ v.comp = w.comp
    BY <1>3 DEF ToInference
  <2>2. ASSUME ~(h \/ f = "swap")
        PROVE  Alive(v) /\ v.tm.weights = 0
    <3>1. InferenceFails(w, f)
      BY <1>3, <2>2
    <3>2. InferenceTm(v, w, TRUE)
      BY <3>1 DEF ToInference
    <3>3. QED
      BY <1>1, <1>2, <2>2, <3>2 DEF InferenceTm, Alive, Driven
  <2>3. Driven(v, h \/ f = "swap")
    BY <1>1, <2>1, <2>2 DEF Driven
  <2>4. QED
    BY <1>1, <2>1, <2>3 DEF Upheld, AtWork
<1>4. CASE ~(InferenceFails(w, f) \/ f = "swap")
  <2>1. PICK o \in Managers :
           /\ Swapped(o, w.om, UserModel(w), "INFERENCE")
           /\ v.om = IF w.comp.active THEN [o EXCEPT !.forwards = "compiled"] ELSE o
    BY <1>4 DEF ToInference
  <2>2. /\ v.om.phase = "INFERENCE" /\ v.om.cfg = w.om.cfg
        /\ v.om.forwards = IF w.comp.active THEN "compiled" ELSE "eager"
    BY <2>1 DEF Swapped, Managers, Driven
  <2>3. /\ v.comp.active = w.comp.active
        /\ ~w.comp.active => v.comp = w.comp
        /\ w.comp.active => /\ v.ops.loader = (IF FitAfter(w) THEN v.tm.loader ELSE 0)
                            /\ ~FitAfter(w) => ~v.ops.samples
    BY <1>4 DEF ToInference
  <2>4. FitAfter(w) <=> w.tm.cfg.block
    BY <1>1 DEF FitAfter
  <2>5. InferenceTm(v, w, FALSE)
    <3>1. InferenceFails(w, f) = FALSE
      BY <1>4 DEF InferenceFails
    <3>2. QED
      BY <3>1 DEF ToInference
  <2>6. /\ v.tm.loader # 0 /\ v.tm.loader \in v.tm.live /\ v.tm.kind = "infer"
        /\ v.tm.weights = Views(v.tm, OwnWeights(w))
    <3>1. NewLoader(v, w) /\ v.tm.weights = Views(v.tm, OwnWeights(w))
      BY <1>1, <2>5 DEF InferenceTm
    <3>2. w.tm.built \in Nat /\ v.tm.built \in Nat
      BY <1>1 DEF Worlds, TensorManagers, TensorRecords
    <3>3. QED
      BY <3>1, <3>2 DEF NewLoader
  <2>7. ~h => OwnView(v)
    BY <1>2, <2>6 DEF OwnView, Views
  <2>8. ASSUME w.comp.active
        PROVE  Staged(v) /\ (v.ops.loader # 0 => Agreed(v))
               /\ (v.tm.cfg.block => v.ops.loader # 0)
    <3>1. v.ops.loader # 0 => v.ops.armed
      BY <1>1 DEF Worlds, Slots
    <3>2. v.tm.cfg.block => v.ops.loader = v.tm.loader
      BY <1>1, <2>3, <2>4, <2>8
    <3>3. ~v.tm.cfg.block => v.ops.loader = 0 /\ ~v.ops.samples
      BY <1>1, <2>3, <2>4, <2>8
    <3>4. v.tm.cfg.block => v.tm.weights \in {v.tm.loader, Stale}
      BY <2>6 DEF Views
    <3>5. QED
      BY <1>1, <2>6, <3>1, <3>2, <3>3, <3>4 DEF Staged, Agreed
  <2>9. Steady(v, h \/ f = "swap", r)
    <3>1. ~w.comp.active => v.comp.tail.state = "IDLE"
      BY <2>3 DEF Driven
    <3>2. Alive(v)
      BY <2>6 DEF Alive
    <3>3. QED
      BY <2>2, <2>3, <2>6, <2>7, <2>8, <3>1, <3>2 DEF Steady
  <2>10. QED
    BY <1>1, <2>2, <2>9 DEF Upheld, AtWork
<1>5. QED
  BY <1>3, <1>4


LEMMA CountUpheld ==
  ASSUME NEW w \in Worlds, NEW f, NEW h \in BOOLEAN, NEW r \in BOOLEAN,
         ~w.err, w.tm.on, Registered(w), HookStands(w.om),
         w.om.phase \in {"DISCOVERY", "PROFILING"}, Grounded(w), Driven(w, h)
  PROVE  Upheld(Count(w, f), w, h \/ f = "swap", r)
<1> DEFINE n == w.om.iter + 1
           o == [w.om EXCEPT !.iter = n]
           c == [w EXCEPT !.om.iter = @ + 1]
           p == TransitionToProfile(c, f)
           i == TransitionToInference(c, f)
           k == h \/ f = "swap"
<1>1. w.om \in Managers /\ n \in Nat
  BY DEF Worlds, Managers
<1>2. c = [w EXCEPT !.om = o]
  BY DEF Worlds
<1> HIDE DEF n
<1>3. /\ o \in Managers /\ o.phase = w.om.phase /\ o.hooks = w.om.hooks
      /\ o.handle = w.om.handle /\ o.model = w.om.model /\ o.serial = w.om.serial
      /\ o.forwards = w.om.forwards /\ o.cfg = w.om.cfg
  BY <1>1 DEF Managers
<1>4. Count(w, f) = IF DiscoveryDue(c) THEN p ELSE IF ProfilingDue(c) THEN i ELSE c
  BY DEF Count
<1>5. DiscoveryDue(c) => c.om.phase = "DISCOVERY"
  BY DEF DiscoveryDue
<1>6. ProfilingDue(c) => c.om.phase = "PROFILING"
  BY DEF ProfilingDue
<1> HIDE DEF o, c
<1>7. OmStep(c, w) /\ c.om = o
  BY <1>2, <1>3, OmChanges
<1>8. c \in Worlds /\ ~c.err /\ Registered(c) /\ HookFollows(c.om) /\ c.tm.on
  <2>1. HookFollows(c.om)
    BY <1>1, <1>3, <1>7, HookStays DEF HookStands
  <2>2. QED
    BY <1>7, <2>1 DEF OmStep, Registered
<1>9. Grounded(c) /\ Driven(c, h)
  BY <1>3, <1>7 DEF OmStep, Grounded, Driven, Alive
<1>10. ToProfile(p, c, f) /\ ToInference(i, c, f)
  BY <1>8, TransitionToProfileStep, TransitionToInferenceStep
<1> HIDE DEF p, i
<1>11. c.om.phase = "DISCOVERY" => Upheld(p, c, k, r)
  BY <1>8, <1>9, <1>10, ProfileUpheld
<1>12. c.om.phase = "PROFILING" => Upheld(i, c, k, r)
  BY <1>8, <1>9, <1>10, InferenceUpheld
<1>13. Upheld(c, c, k, r)
  <2>1. Driven(c, k)
    BY <1>9 DEF Driven
  <2>2. QED
    BY <1>3, <1>7, <1>9, <2>1 DEF Upheld, AtWork
<1>14. Upheld(Count(w, f), c, k, r)
  BY <1>4, <1>5, <1>6, <1>11, <1>12, <1>13
<1>15. c.om.cfg = w.om.cfg
  BY <1>3, <1>7
<1>16. QED
  BY <1>14, <1>15 DEF Upheld

LEMMA MoreHalfway ==
  ASSUME NEW w, NEW h \in BOOLEAN, NEW k \in BOOLEAN, NEW r \in BOOLEAN, h => k,
         AtWork(w, h, r)
  PROVE  AtWork(w, k, r)
BY DEF AtWork, Driven, Steady

(* One forward of the tail, and what it may come to. *)
LEMMA TickUpheld ==
  ASSUME NEW w \in Worlds, NEW v, NEW h \in BOOLEAN, NEW r \in BOOLEAN, ~w.err,
         w.tm.on, w.om.phase = "INFERENCE", Grounded(w), Steady(w, h, r), Ticked(v, w)
  PROVE  Upheld(v, w, h, r) /\ StaysFailed(v, w)
<1>1. /\ v \in Worlds /\ v.tm.cfg = w.tm.cfg /\ Carries(v, w)
      /\ v.comp.active = w.comp.active
      /\ v.om \in {w.om, [w.om EXCEPT !.manual = FALSE]}
      /\ w.comp.tail.state = "FAILED" => v = Raise(w)
      /\ w.comp.tail.state \in {"IDLE", "DONE"} => v = w
  BY DEF Ticked, Frame, PathKept
<1>2. /\ Raise(w).om = w.om /\ Raise(w).tm = w.tm /\ Raise(w).comp = w.comp
      /\ Raise(w).ops = w.ops /\ Raise(w).col = w.col
  BY StepsStay
<1>3. v.om.phase = "INFERENCE" /\ v.om.forwards = w.om.forwards /\ v.om.cfg = w.om.cfg
  BY <1>1 DEF Worlds, Managers
<1>4. IF v.err
        THEN v.comp.tail.state = "FAILED" /\ (v.ops.loader = 0 \/ v = Raise(w))
        ELSE /\ v.comp.tail.state # "FAILED"
             /\ (v.tm = w.tm /\ v.ops.loader = w.ops.loader) \/ Serves(v)
  BY DEF Ticked
<1>5. StaysFailed(v, w)
  BY <1>1, <1>2 DEF StaysFailed
<1>6. /\ Grounded(v) /\ v.tm.kind # "controller"
      /\ ~h => OwnView(v)
      /\ w.comp.active => Staged(v)
  BY <1>1 DEF Carries, Holds, Steady
<1>7. ASSUME w.comp.active, v.ops.loader # 0
      PROVE  Agreed(v)
  <2>1. CASE v = Raise(w) \/ (v.tm = w.tm /\ v.ops.loader = w.ops.loader)
    <3>1. v.tm = w.tm /\ v.ops.loader = w.ops.loader
      BY <1>2, <2>1
    <3>2. Agreed(w)
      BY <1>7, <3>1 DEF Steady
    <3>3. QED
      BY <3>1, <3>2 DEF Agreed
  <2>2. CASE Serves(v)
    <3>1. v.tm.cfg.block
      BY <1>6, <1>7 DEF Staged
    <3>2. QED
      BY <1>7, <2>2, <3>1 DEF Serves, Agreed, Views
  <2>3. QED
    BY <1>4, <1>7, <2>1, <2>2
<1>8. ~w.comp.active => v.comp.tail.state \in {"IDLE", "FAILED"} /\ v.tm = w.tm
  BY <1>1, <1>2 DEF Steady
<1>9. \/ v.comp.active /\ (v.comp.tail.state = "FAILED" \/ r)
      \/ Alive(v) /\ (v.comp.active /\ v.tm.cfg.block => v.ops.loader # 0)
  <2>1. CASE ~w.comp.active
    BY <1>1, <1>8, <2>1 DEF Steady, Alive
  <2>2. CASE w.comp.active /\ v.comp.tail.state # "FAILED" /\ ~r
    <3>1. w.comp.tail.state # "FAILED"
      BY <1>5, <2>2 DEF StaysFailed
    <3>2. Alive(w) /\ (w.tm.cfg.block => w.ops.loader # 0)
      BY <2>2, <3>1 DEF Steady
    <3>3. CASE v.tm = w.tm /\ v.ops.loader = w.ops.loader
      BY <3>2, <3>3 DEF Alive
    <3>4. CASE Serves(v)
      BY <3>4 DEF Serves, Alive
    <3>5. QED
      BY <1>4, <2>2, <3>3, <3>4
  <2>3. QED
    BY <1>1, <2>1, <2>2
<1>10. Steady(v, h, r)
  BY <1>1, <1>3, <1>6, <1>7, <1>8, <1>9 DEF Steady
<1>11. QED
  BY <1>3, <1>5, <1>6, <1>10 DEF Upheld, AtWork

(* A tail that is armed anew: a failure of the last one counts no longer.  *)
LEMMA RequestUpheld ==
  ASSUME NEW w \in Worlds, NEW v, NEW h \in BOOLEAN, NEW r \in BOOLEAN, ~w.err,
         w.tm.on, w.om.phase = "INFERENCE", Grounded(w), Steady(w, h, r), Requested(v, w)
  PROVE  Upheld(v, w, h, r \/ w.comp.tail.state = "FAILED")
<1> DEFINE q == r \/ w.comp.tail.state = "FAILED"
<1>1. /\ v \in Worlds /\ v.tm.cfg = w.tm.cfg /\ Carries(v, w)
      /\ v.comp.active = w.comp.active /\ (~w.comp.active => v = w)
  BY DEF Requested, Frame, PathKept
<1>2. PICK m \in BOOLEAN : v.om = [w.om EXCEPT !.manual = m]
  BY DEF Requested
<1>3. v.om.phase = "INFERENCE" /\ v.om.forwards = w.om.forwards /\ v.om.cfg = w.om.cfg
  BY <1>2 DEF Worlds, Managers
<1>4. IF v.err
        THEN v.comp.tail.state = "FAILED" /\ v.ops.loader = 0
        ELSE (v.tm = w.tm /\ v.ops.loader = w.ops.loader) \/ Serves(v)
  BY DEF Requested
<1>5. CASE ~w.comp.active
  <2>1. Steady(w, h, q)
    BY <1>5 DEF Steady
  <2>2. QED
    BY <1>1, <1>5, <2>1 DEF Upheld, AtWork
<1>6. CASE w.comp.active
  <2>1. /\ Grounded(v) /\ v.tm.kind # "controller"
        /\ ~h => OwnView(v)
        /\ Staged(v)
    BY <1>1, <1>6 DEF Carries, Holds, Steady
  <2>2. ASSUME v.ops.loader # 0
        PROVE  Agreed(v)
    <3>1. CASE v.tm = w.tm /\ v.ops.loader = w.ops.loader
      BY <1>6, <2>2, <3>1 DEF Steady, Agreed
    <3>2. CASE Serves(v)
      <4>1. v.tm.cfg.block
        BY <2>1, <2>2 DEF Staged
      <4>2. QED
        BY <2>2, <3>2, <4>1 DEF Serves, Agreed, Views
    <3>3. QED
      BY <1>4, <2>2, <3>1, <3>2
  <2>3. \/ v.comp.tail.state = "FAILED" \/ q
        \/ Alive(v) /\ (v.tm.cfg.block => v.ops.loader # 0)
    <3>1. CASE v.tm = w.tm /\ v.ops.loader = w.ops.loader
      BY <1>6, <3>1 DEF Steady, Alive
    <3>2. CASE Serves(v)
      BY <3>2 DEF Serves, Alive
    <3>3. QED
      BY <1>4, <3>1, <3>2
  <2>4. Steady(v, h, q)
    BY <1>1, <1>3, <1>6, <2>1, <2>2, <2>3 DEF Steady
  <2>5. QED
    BY <1>3, <2>1, <2>4 DEF Upheld, AtWork
<1>7. QED
  BY <1>5, <1>6


LEMMA FailedUpheld ==
  ASSUME NEW w \in Worlds, NEW h \in BOOLEAN, NEW r \in BOOLEAN,
         w.om.phase = "INFERENCE", Grounded(w), Steady(w, h, r)
  PROVE  LET v == FailManualUpdateReplan(w)
         IN  Upheld(v, w, h, r) /\ StaysFailed(v, w)
<1> DEFINE v == FailManualUpdateReplan(w)
<1>1. /\ v.om = [w.om EXCEPT !.manual = FALSE]
      /\ v.tm = w.tm /\ v.ops = w.ops /\ Timed(v.col, w.col)
      /\ v.comp.active = w.comp.active /\ v.comp.tail.state = "FAILED"
  BY FailedMeasure DEF PathKept
<1> HIDE DEF v
<1>2. v.om.phase = "INFERENCE" /\ v.om.forwards = w.om.forwards /\ v.om.cfg = w.om.cfg
  BY <1>1 DEF Worlds, Managers
<1>3. Grounded(v)
  BY <1>1 DEF Grounded, Timed
<1>4. (Alive(v) <=> Alive(w)) /\ (OwnView(v) <=> OwnView(w)) /\ (Agreed(v) <=> Agreed(w))
  BY <1>1 DEF Alive, OwnView, Agreed
<1>5. Staged(w) => Staged(v)
  BY <1>1, <1>3 DEF Staged
<1>6. Steady(v, h, r)
  BY <1>1, <1>2, <1>4, <1>5 DEF Steady
<1>7. QED
  BY <1>1, <1>2, <1>3, <1>6 DEF Upheld, AtWork, StaysFailed, v

Drives(w) == w.om.phase \in {"DISCOVERY", "PROFILING"}

LEMMA UpdateUpheld ==
  ASSUME NEW w \in Worlds, NEW gen \in Int, NEW f, NEW capturing \in BOOLEAN,
         NEW h \in BOOLEAN, NEW r \in BOOLEAN,
         ~w.err, w.tm.on, Registered(w), HookStands(w.om),
         w.om.phase # "NOT_INITIALIZED", Grounded(w), AtWork(w, h, r)
  PROVE  LET v == UpdateState(w, gen, f, capturing)
         IN  Upheld(v, w, h \/ (Drives(w) /\ f = "swap"), r) /\ StaysFailed(v, w)
<1> DEFINE pub == UpdateOffloadTiming(w, gen, capturing)
           u == pub.w
           v == UpdateState(w, gen, f, capturing)
           k == h \/ (Drives(w) /\ f = "swap")
<1>0. w.om.phase \in Phases /\ w.comp \in CompiledPaths
  BY DEF Worlds, Managers
<1>1. CASE w.om.phase = "INFERENCE"
  <2>1. Steady(w, h, r) /\ (h \/ (Drives(w) /\ f = "swap")) = h
    BY <1>1 DEF AtWork, Drives
  <2>2. CASE w.om.manual
    <3>1. v = IF pub.ok THEN ManualTick(u, f) ELSE FailManualUpdateReplan(u)
      BY <1>1, <2>2 DEF UpdateState, MeasureReplay, ManualTick
    <3>2. /\ u \in Worlds /\ u.om = w.om /\ u.tm = w.tm /\ u.comp = w.comp
          /\ u.ops = w.ops /\ ~u.err /\ Timed(u.col, w.col)
      BY TimingStep
    <3> HIDE DEF v, pub
    <3>3. Upheld(u, w, h, r)
      BY <3>2, UpheldSame DEF SameHold
    <3>4. Grounded(u) /\ Steady(u, h, r)
      BY <1>1, <3>2, <3>3 DEF Upheld, AtWork
    <3>5. Ticked(ManualTick(u, f), u)
      BY <3>2, TickSteps DEF Registered
    <3>6. Upheld(ManualTick(u, f), u, h, r) /\ StaysFailed(ManualTick(u, f), u)
      BY <1>1, <3>2, <3>4, <3>5, TickUpheld
    <3>7. Upheld(FailManualUpdateReplan(u), u, h, r)
          /\ StaysFailed(FailManualUpdateReplan(u), u)
      BY <1>1, <3>2, <3>4, FailedUpheld
    <3>8. Upheld(v, u, h, r) /\ StaysFailed(v, u)
      BY <3>1, <3>6, <3>7
    <3>9. Upheld(v, w, h, r) /\ StaysFailed(v, w)
      BY <3>2, <3>8 DEF Upheld, StaysFailed
    <3>10. QED
      BY <2>1, <3>9 DEF v
  <2>3. CASE ~w.om.manual
    <3>1. v = PassiveTick(w, f)
      BY <1>1, <2>3 DEF UpdateState, PassiveTick
    <3> HIDE DEF v
    <3>2. Ticked(v, w)
      BY <3>1, TickSteps
    <3>3. Upheld(v, w, h, r) /\ StaysFailed(v, w)
      BY <1>1, <2>1, <3>2, TickUpheld
    <3>4. QED
      BY <2>1, <3>3 DEF v
  <2>4. QED
    BY <2>2, <2>3
<1>2. CASE Drives(w)
  <2>1. Driven(w, h) /\ StaysFailed(v, w)
    BY <1>2 DEF AtWork, Drives, Driven, StaysFailed
  <2>2. k = (h \/ f = "swap") /\ k \in BOOLEAN
    BY <1>2
  <2>3. Driven(w, k)
    BY <2>1 DEF Driven
  <2>4. AtWork(w, k, r)
    BY <1>2, <2>3 DEF AtWork, Drives
  <2> HIDE DEF k
  <2>5. CASE w.om.phase = "PROFILING" /\ w.tm.suspended = 0 /\ w.comp.warm > 0
    <3>1. w.comp.warm # 0
      BY <1>0, <2>5 DEF CompiledPaths
    <3>2. v = [w EXCEPT !.comp = AdvanceProfileWarmup(w.comp)]
      BY <2>5, <3>1 DEF UpdateState, Counts
    <3> HIDE DEF v
    <3>3. v.om = w.om /\ v.tm = w.tm /\ v.ops = w.ops /\ v.col = w.col
          /\ v.comp = AdvanceProfileWarmup(w.comp)
      BY <3>2 DEF Worlds
    <3>4. v.comp.tail = w.comp.tail /\ v.comp.active = w.comp.active
      BY <1>0, <3>3 DEF AdvanceProfileWarmup, CompiledPaths
    <3>5. Upheld(v, w, k, r)
      BY <2>2, <2>4, <3>3, <3>4, UpheldSame DEF SameHold, Timed
    <3>6. QED
      BY <2>1, <3>5 DEF k, v
  <2>6. CASE ~(w.om.phase = "PROFILING" /\ w.tm.suspended = 0 /\ w.comp.warm > 0)
    <3>1. v = IF Counts(w) THEN Count(w, f) ELSE w
      BY <1>2, <2>6 DEF UpdateState, Drives
    <3> HIDE DEF v
    <3>2. Upheld(w, w, k, r)
      BY <2>4 DEF Upheld
    <3>3. Upheld(Count(w, f), w, k, r)
      BY <1>2, <2>1, <2>2, CountUpheld DEF Drives
    <3>4. QED
      BY <2>1, <3>1, <3>2, <3>3 DEF k, v
  <2>7. QED
    BY <2>5, <2>6
<1>3. QED
  BY <1>0, <1>1, <1>2 DEF Phases, Drives

(* What excuses a forward that was served from foreign blocks. *)
Excused(w, halfway, rearmed) ==
  \/ halfway
  \/ ~w.om.cfg.reachable /\ (w.comp.tail.state = "FAILED" \/ rearmed)

(* A manager at work serves from the loader that fills the blocks, or      *)
(* raises.                                                                 *)
LEMMA ServingSound ==
  ASSUME NEW w \in Worlds, NEW h \in BOOLEAN, NEW r \in BOOLEAN,
         w.om.phase # "NOT_INITIALIZED", Grounded(w), AtWork(w, h, r),
         Serving(w) = "garbage"
  PROVE  Excused(w, h, r)
<1>0. /\ w.om.phase \in Phases /\ w.tm.loader \in Nat /\ w.om.cfg.reachable \in BOOLEAN
      /\ w.tm.weights \in Int
  BY DEF Worlds, Managers, ConfigType, TensorManagers, TensorRecords
<1>1. SUFFICES ASSUME ~h PROVE ~w.om.cfg.reachable /\ (w.comp.tail.state = "FAILED" \/ r)
  BY DEF Excused
<1>2. CASE w.om.phase = "DISCOVERY"
  BY <1>1, <1>2 DEF AtWork, Driven, Serving
<1>3. CASE w.om.phase = "PROFILING"
  <2>1. Driven(w, h)
    BY <1>3 DEF AtWork
  <2>2. UnitLoader(w) = w.tm.loader /\ ~Transparent(w)
    BY <2>1 DEF Driven, UnitLoader, Transparent
  <2>3. w.tm.loader # 0 => w.tm.loader \in w.tm.live /\ w.tm.weights \in {0, w.tm.loader}
    BY <1>1, <1>3, <2>1 DEF Driven, Alive
  <2>4. QED
    BY <1>3, <2>2, <2>3 DEF Serving
<1>4. CASE w.om.phase = "INFERENCE"
  <2>1. Steady(w, h, r) /\ OwnView(w)
    BY <1>1, <1>4 DEF AtWork, Steady
  <2>2. CASE Transparent(w)
    <3>1. UnitLoader(w) = w.ops.loader /\ w.comp.active
      BY <2>1, <2>2 DEF UnitLoader, Transparent, Steady
    <3>2. Staged(w) /\ (w.ops.loader # 0 => Agreed(w))
      BY <2>1, <3>1 DEF Steady
    <3>3. CASE w.ops.loader = 0
      <4>1. ~w.ops.armed => w.tm.weights = 0
        BY <3>2 DEF Staged, Grounded
      <4>2. QED
        BY <1>4, <3>1, <3>3, <4>1 DEF Serving, Lookup
    <3>4. CASE w.ops.loader # 0
      <4>1. w.ops.loader \in w.tm.live /\ w.tm.weights = w.ops.loader
        BY <1>0, <2>1, <3>2, <3>4 DEF Agreed, OwnView, Stale
      <4>2. QED
        BY <1>4, <3>1, <3>4, <4>1 DEF Serving
    <3>5. QED
      BY <3>3, <3>4
  <2>3. CASE ~Transparent(w)
    <3>1. UnitLoader(w) = w.tm.loader
      BY <2>3 DEF UnitLoader
    <3>2. w.tm.loader # 0 /\ w.tm.loader \notin w.tm.live
      BY <1>4, <2>1, <2>3, <3>1 DEF Serving, OwnView
    <3>3. w.comp.active /\ (w.comp.tail.state = "FAILED" \/ r)
      BY <2>1, <3>2 DEF Steady, Alive
    <3>4. ~w.om.cfg.reachable
      BY <2>1, <2>3, <3>3 DEF Steady, Transparent
    <3>5. QED
      BY <3>3, <3>4
  <2>4. QED
    BY <2>2, <2>3
<1>5. QED
  BY <1>0, <1>2, <1>3, <1>4 DEF Phases

(* A unit that computes through the ops of a session without blocks finds  *)
(* no loader there.                                                        *)
LEMMA PassUpheld ==
  ASSUME NEW w \in Worlds, NEW pass \in Nat, NEW capturing \in BOOLEAN,
         NEW h \in BOOLEAN, NEW r \in BOOLEAN,
         w.om.phase # "NOT_INITIALIZED", Grounded(w), AtWork(w, h, r),
         Serving(w) # "raise"
  PROVE  Upheld(RunPass(w, pass, capturing), w, h, r)
<1> DEFINE v == RunPass(w, pass, capturing)
<1>0. w.om.phase \in Phases
  BY DEF Worlds, Managers
<1>1. /\ v.om = w.om /\ v.tm = w.tm /\ v.comp = w.comp
      /\ v.ops.loader = w.ops.loader /\ v.ops.armed = w.ops.armed
      /\ ~Transparent(w) => v.ops = w.ops
      /\ Timed(v.col, w.col)
  BY RunPassStep
<1> HIDE DEF v
<1>2. ASSUME Transparent(w)
      PROVE  w.tm.cfg.block
  <2>1. w.om.phase = "INFERENCE" /\ Steady(w, h, r)
    BY <1>0, <1>2 DEF Phases, AtWork, Driven, Transparent
  <2>2. w.comp.active /\ Staged(w)
    BY <1>2, <2>1 DEF Steady, Transparent
  <2>3. SUFFICES ASSUME ~w.tm.cfg.block PROVE FALSE
    OBVIOUS
  <2>4. UnitLoader(w) = 0 /\ w.tm.weights = 0
    BY <1>2, <2>2, <2>3 DEF Staged, Grounded, UnitLoader
  <2>5. QED
    BY <2>1, <2>4 DEF Serving
<1>3. v.ops.samples => w.ops.samples \/ w.tm.cfg.block
  BY <1>1, <1>2
<1>4. QED
  BY <1>1, <1>3, UpheldSame DEF SameHold, v


(* The invariant: a manager at work is served as its phase says, and what  *)
(* was last served from foreign blocks is excused.                         *)
ServeInv ==
  /\ Grounded(World)
  /\ om.phase # "NOT_INITIALIZED" /\ ~user.broken =>
       AtWork(World, hist.halfway, hist.rearmed)
  /\ hist.served = "garbage" => om.phase # "NOT_INITIALIZED"
  /\ NeverServesForeignBlocks

(* What a call makes of it is what its world says. *)
LEMMA ServeAfter ==
  ASSUME NEW w, Become(w), Grounded(w),
         w.om.phase # "NOT_INITIALIZED" /\ ~user'.broken =>
           AtWork(w, hist'.halfway, hist'.rearmed),
         hist'.served = "garbage" =>
           w.om.phase # "NOT_INITIALIZED" /\ Excused(w, hist'.halfway, hist'.rearmed)
  PROVE  ServeInv'
<1>1. /\ World'.om = w.om /\ World'.tm = w.tm /\ World'.comp = w.comp
      /\ World'.ops = w.ops /\ World'.col = w.col /\ om' = w.om /\ comp' = w.comp
  BY DEF Become, World
<1>2. Grounded(World')
  BY <1>1 DEF Grounded
<1>3. ASSUME AtWork(w, hist'.halfway, hist'.rearmed)
      PROVE  AtWork(World', hist'.halfway, hist'.rearmed)
  <2>1. /\ Alive(World') <=> Alive(w)
        /\ OwnView(World') <=> OwnView(w)
        /\ Agreed(World') <=> Agreed(w)
        /\ Staged(World') <=> Staged(w)
    BY <1>1, <1>2 DEF Alive, OwnView, Agreed, Staged
  <2>2. Driven(w, hist'.halfway) => Driven(World', hist'.halfway)
    BY <1>1, <2>1 DEF Driven
  <2>3. Steady(w, hist'.halfway, hist'.rearmed) => Steady(World', hist'.halfway, hist'.rearmed)
    BY <1>1, <2>1 DEF Steady
  <2>4. QED
    BY <1>1, <1>3, <2>2, <2>3 DEF AtWork
<1>4. QED
  BY <1>1, <1>2, <1>3 DEF ServeInv, NeverServesForeignBlocks, Excused

(* The manager as a call finds it.                                         *)
LEMMA StandingServe ==
  ASSUME Inv, ServeInv
  PROVE  /\ Grounded(World) /\ hist.halfway \in BOOLEAN /\ hist.rearmed \in BOOLEAN
         /\ om.phase # "NOT_INITIALIZED" => tm.on
         /\ om.phase # "NOT_INITIALIZED" /\ ~user.broken =>
              AtWork(World, hist.halfway, hist.rearmed)
         /\ hist.served = "garbage" =>
              om.phase # "NOT_INITIALIZED" /\ Excused(World, hist.halfway, hist.rearmed)
<1>1. Sound(World) /\ hist \in Histories
  BY StandingWorld
<1>2. QED
  BY <1>1, WorldFields DEF ServeInv, NeverServesForeignBlocks, Excused, Sound, Histories

(* A session begins with nothing served.                                   *)
LEMMA ServeBegins ==
  ASSUME Inv, ServeInv, NEW w, Become(w), SetUp(w, World), NewSession(w),
         user'.broken \/ ~w.err \/ w.om.phase = "NOT_INITIALIZED"
  PROVE  ServeInv'
<1>1. hist \in Histories
  BY StandingWorld
<1>2. hist'.served = "none" /\ hist'.halfway = FALSE /\ hist'.rearmed = FALSE
  BY <1>1 DEF NewSession, Histories
<1>3. Grounded(w) /\ (~w.err => AtWork(w, FALSE, FALSE))
  BY StandingServe DEF SetUp
<1>4. QED
  BY <1>2, <1>3, ServeAfter

(* A call on a manager at work that serves nothing. *)
LEMMA ServeGoesOn ==
  ASSUME Inv, ServeInv, NEW w, NEW v, Become(v), v.om.phase # "NOT_INITIALIZED",
         w.om = om, w.comp = comp,
         hist'.served = hist.served,
         Upheld(v, w, hist'.halfway, hist'.rearmed), StaysFailed(v, w) \/ hist'.rearmed,
         hist.halfway => hist'.halfway, hist.rearmed => hist'.rearmed
  PROVE  ServeInv'
<1>1. ASSUME hist'.served = "garbage"
      PROVE  Excused(v, hist'.halfway, hist'.rearmed)
  <2>1. Excused(World, hist.halfway, hist.rearmed)
    BY <1>1, StandingServe
  <2>2. QED
    BY <2>1, WorldFields DEF Excused, Upheld, StaysFailed
<1>2. QED
  BY <1>1, ServeAfter DEF Upheld

LEMMA ServeOfForward ==
  ASSUME Inv, ServeInv, NEW f, NEW capturing \in BOOLEAN, Forward(f, capturing)
  PROVE  ServeInv'
<1> DEFINE s == Serving(World)
           p == RunPass(World, PassNumber, capturing)
           u == UpdateState(p, NoGeneration, f, capturing)
           w == IF s = "raise" THEN Raise(World) ELSE u
           k == hist.halfway \/ (Driving /\ f = "swap")
<1>1. /\ World \in Worlds /\ Registered(World) /\ HookStands(World.om) /\ ~World.err
      /\ World.om = om /\ World.tm = tm
      /\ om.phase # "NOT_INITIALIZED" /\ ~user.broken
      /\ user \in Users /\ hist \in Histories
  BY StandingWorld, WorldFields DEF Forward
<1>2. Become(w)
  BY DEF Forward
<1>3. hist'.served = s /\ hist'.halfway = k /\ hist'.rearmed = hist.rearmed
  <2>1. PICK d, e, g : hist' = [hist EXCEPT !.served = s, !.driven = d, !.failures = e,
                                            !.halfway = k, !.dropped = g]
    BY DEF Forward
  <2> HIDE DEF s, k
  <2>2. QED
    BY <1>1, <2>1 DEF Histories
<1>4. PassNumber \in Nat
  BY <1>1 DEF PassNumber, Users
<1>5. /\ Grounded(World) /\ AtWork(World, hist.halfway, hist.rearmed) /\ tm.on
      /\ hist.halfway \in BOOLEAN /\ hist.rearmed \in BOOLEAN
  BY <1>1, StandingServe
<1>6. k \in BOOLEAN /\ (hist.halfway => k)
  BY <1>5
<1>7. CASE s = "raise"
  <2>1. /\ Raise(World).om = World.om /\ Raise(World).tm = World.tm
        /\ Raise(World).comp = World.comp /\ Raise(World).ops = World.ops
        /\ Raise(World).col = World.col
    BY <1>1, StepsStay
  <2>2. Upheld(Raise(World), World, hist.halfway, hist.rearmed)
    BY <1>5, <2>1, UpheldSame DEF SameHold, Timed
  <2>3. Become(Raise(World)) /\ hist'.served # "garbage"
    BY <1>2, <1>3, <1>7
  <2>4. AtWork(Raise(World), k, hist.rearmed)
    BY <1>5, <1>6, <2>2, MoreHalfway DEF Upheld
  <2> HIDE DEF k, s
  <2>5. QED
    BY <1>3, <2>2, <2>3, <2>4, ServeAfter DEF Upheld
<1>8. CASE s # "raise"
  <2>1. /\ p \in Worlds /\ p.om = World.om /\ p.tm = World.tm /\ ~p.err
        /\ p.comp = World.comp /\ p.ops.loader = World.ops.loader
    BY <1>1, <1>4, RunPassStep
  <2>2. Upheld(p, World, hist.halfway, hist.rearmed)
    BY <1>1, <1>4, <1>5, <1>8, PassUpheld
  <2>3. s = "garbage" => Excused(World, hist.halfway, hist.rearmed)
    BY <1>1, <1>5, ServingSound
  <2> HIDE DEF p, s
  <2>4. Registered(p) /\ HookStands(p.om) /\ p.om.phase # "NOT_INITIALIZED"
    BY <1>1, <2>1 DEF Registered
  <2>5. Grounded(p) /\ AtWork(p, hist.halfway, hist.rearmed) /\ p.tm.on
    BY <1>1, <1>5, <2>1, <2>2 DEF Upheld
  <2>6. k = (hist.halfway \/ (Drives(p) /\ f = "swap"))
    BY <1>1, <2>1 DEF Driving, Drives
  <2>7. Upheld(u, p, k, hist.rearmed) /\ StaysFailed(u, p)
    BY <1>5, <2>1, <2>4, <2>5, <2>6, NoGenerationType, UpdateUpheld
  <2>8. Moved(u, p, f)
    BY <2>1, <2>4, NoGenerationType, UpdateStateStep
  <2>9. Become(u)
    BY <1>2, <1>8
  <2> HIDE DEF u
  <2>10. s = "garbage" => Excused(u, k, hist.rearmed)
    BY <1>6, <2>1, <2>3, <2>7 DEF Excused, Upheld, StaysFailed
  <2> HIDE DEF k
  <2>11. QED
    BY <1>3, <2>7, <2>8, <2>9, <2>10, ServeAfter DEF Upheld, Moved
<1>9. QED
  BY <1>7, <1>8


(* Steps that leave what forwards are served from alone. *)
LEMMA ServeUnmoved ==
  ASSUME Inv, ServeInv, UNCHANGED <<comp, hist>>, user'.broken = user.broken,
         om'.phase = om.phase, om'.forwards = om.forwards, om'.cfg = om.cfg,
         SameHold(tm', tm), Timed(col', col),
         ops'.loader = ops.loader, ops'.armed = ops.armed, ops'.samples = ops.samples
  PROVE  ServeInv'
<1>1. /\ World'.om = om' /\ World'.tm = tm' /\ World'.comp = comp'
      /\ World'.ops = ops' /\ World'.col = col'
  BY DEF World
<1>2. Grounded(World')
  BY <1>1, StandingServe, WorldFields DEF Grounded, SameHold, Timed
<1>3. ASSUME om.phase # "NOT_INITIALIZED" /\ ~user.broken
      PROVE  AtWork(World', hist.halfway, hist.rearmed)
  <2>1. Upheld(World', World, hist.halfway, hist.rearmed)
    BY <1>1, <1>3, StandingServe, WorldFields, UpheldSame
  <2>2. QED
    BY <2>1 DEF Upheld
<1>4. QED
  BY <1>1, <1>2, <1>3 DEF ServeInv, NeverServesForeignBlocks

LEMMA ServeOfReplay ==
  ASSUME Inv, ServeInv, Replay
  PROVE  ServeInv'
<1> DEFINE c == RecordReplay(World.col, user.pass + 1)
           s == [World EXCEPT !.col = c]
           t == UpdateOffloadTiming(s, user.pass + 1, FALSE).w
           w == IF user.hooked THEN t ELSE s
<1>1. Become(w) /\ hist' = hist /\ user'.broken = user.broken
  BY StandingWorld DEF Replay, Worlds, Users
<1>2. user.pass + 1 \in Nat /\ user.pass + 1 \in Int /\ World.col \in Collectors
  BY StandingWorld DEF Worlds
<1>3. c \in Collectors /\ Timed(c, col)
  BY <1>2, PassTypes, TimedSteps, NoGenerationType, WorldFields
<1> HIDE DEF c
<1>4. s \in Worlds /\ s.om = om /\ s.comp = comp /\ s.tm = tm /\ s.ops = ops /\ s.col = c
  BY <1>3, StandingWorld, WorldFields DEF Worlds
<1> HIDE DEF s
<1>5. t \in Worlds /\ t.om = om /\ t.comp = comp /\ t.tm = tm /\ t.ops = ops
      /\ Timed(t.col, c)
  BY <1>2, <1>4, TimingStep
<1> HIDE DEF t
<1>6. UNCHANGED <<om, comp, hist, tm, ops>> /\ Timed(col', col)
  BY <1>1, <1>3, <1>4, <1>5 DEF Become, Timed
<1>7. QED
  BY <1>1, <1>6, ServeUnmoved DEF SameHold

LEMMA ServeOfRaise ==
  ASSUME Inv, ServeInv, ForwardRaises
  PROVE  ServeInv'
<1>1. ops \in Slots
  BY StandingWorld, WorldFields DEF Worlds
<1>2. /\ UnitForward(ops, TRUE).loader = ops.loader /\ UnitForward(ops, TRUE).armed = ops.armed
      /\ UnitForward(ops, TRUE).samples = ops.samples
  BY <1>1, SlotTypes, SlotSamples
<1>3. ops' = UnitForward(ops, TRUE) /\ UNCHANGED <<om, tm, comp, col, user, hist>>
  BY DEF ForwardRaises
<1>4. QED
  BY <1>2, <1>3, ServeUnmoved DEF SameHold, Timed

LEMMA ServeOfSuspension ==
  ASSUME Inv, ServeInv, Suspend \/ Resume \/ UNCHANGED vars
  PROVE  ServeInv'
<1>1. tm \in TensorManagers
  BY StandingWorld, WorldFields DEF Worlds
<1>2. SameHold(tm', tm)
  BY <1>1 DEF Suspend, Resume, vars, SameHold, TensorManagers, TensorRecords
<1>3. UNCHANGED <<om, comp, ops, col, user, hist>>
  BY DEF Suspend, Resume, vars
<1>4. QED
  BY <1>2, <1>3, ServeUnmoved DEF Timed

LEMMA ServeOfRequest ==
  ASSUME Inv, ServeInv, NEW manual \in BOOLEAN, RequestStrategyReplan(manual)
  PROVE  ServeInv'
<1> DEFINE w == IF manual THEN BeginManualUpdateReplan(World) ELSE RequestPassiveReplan(World)
           q == hist.rearmed \/ comp.tail.state = "FAILED"
<1>1. Become(w) /\ om.phase = "INFERENCE" /\ ~user.broken
  BY DEF RequestStrategyReplan
<1>2. hist' = [hist EXCEPT !.rearmed = q, !.from = IF w.om.manual THEN user.pass ELSE @]
  BY DEF RequestStrategyReplan
<1>3. Requested(w, World)
  BY StandingWorld, RequestPassiveStep, BeginManualStep
<1> HIDE DEF w
<1>4. /\ Grounded(World) /\ AtWork(World, hist.halfway, hist.rearmed) /\ World.tm.on
      /\ hist.halfway \in BOOLEAN /\ hist.rearmed \in BOOLEAN
  BY <1>1, StandingServe, WorldFields
<1>5. Steady(World, hist.halfway, hist.rearmed) /\ World.om.phase = "INFERENCE"
  BY <1>1, <1>4, WorldFields DEF AtWork
<1>6. Upheld(w, World, hist.halfway, q)
  BY <1>3, <1>4, <1>5, StandingWorld, RequestUpheld, WorldFields
<1>7. StaysFailed(w, World) \/ q
  BY WorldFields DEF StaysFailed
<1>8. hist.rearmed => q
  OBVIOUS
<1> HIDE DEF q
<1>9. hist'.served = hist.served /\ hist'.halfway = hist.halfway /\ hist'.rearmed = q
  BY <1>2, StandingWorld DEF Histories
<1>10. w.om.phase = "INFERENCE"
  <2>1. PICK m \in BOOLEAN : w.om = [World.om EXCEPT !.manual = m]
    BY <1>3 DEF Requested
  <2>2. QED
    BY <1>5, <2>1, StandingWorld DEF Worlds, Managers
<1>11. QED
  BY <1>1, <1>6, <1>7, <1>8, <1>9, <1>10, WorldFields, ServeGoesOn

LEMMA ServeOfUpdate ==
  ASSUME Inv, ServeInv, NEW gen \in Int, NEW f, NEW capturing \in BOOLEAN, f # "swap",
         UpdateAfterReplay(gen, f, capturing)
  PROVE  ServeInv'
<1> DEFINE w == UpdateState(World, gen, f, capturing)
<1>1. Become(w) /\ hist' = hist /\ ~user.broken /\ user'.broken = user.broken
  BY StandingWorld DEF UpdateAfterReplay, Users
<1>2. CASE om.phase = "NOT_INITIALIZED"
  <2>1. w = World
    BY <1>2, WorldFields DEF UpdateState
  <2>2. UNCHANGED <<om, tm, comp, ops, col>>
    BY <1>1, <2>1, WorldFields DEF Become
  <2>3. QED
    BY <1>1, <2>2, ServeUnmoved DEF SameHold, Timed
<1>3. CASE om.phase # "NOT_INITIALIZED"
  <2>1. /\ Grounded(World) /\ AtWork(World, hist.halfway, hist.rearmed) /\ World.tm.on
        /\ hist.halfway \in BOOLEAN /\ hist.rearmed \in BOOLEAN
        /\ HookStands(World.om) /\ World.om.phase # "NOT_INITIALIZED"
    BY <1>1, <1>3, StandingServe, StandingWorld, WorldFields
  <2>2. (hist.halfway \/ (Drives(World) /\ f = "swap")) = hist.halfway
    BY <2>1
  <2>3. /\ Upheld(w, World, hist.halfway \/ (Drives(World) /\ f = "swap"), hist.rearmed)
        /\ StaysFailed(w, World)
    BY <2>1, StandingWorld, UpdateUpheld
  <2>4. Upheld(w, World, hist.halfway, hist.rearmed)
    BY <2>2, <2>3
  <2>5. Moved(w, World, f)
    BY <2>1, StandingWorld, UpdateStateStep
  <2> HIDE DEF w
  <2>6. w.om.phase # "NOT_INITIALIZED"
    BY <2>5 DEF Moved
  <2>7. QED
    BY <1>1, <2>3, <2>4, <2>6, WorldFields, ServeGoesOn
<1>4. QED
  BY <1>2, <1>3


LEMMA ServeOfLoadProfile ==
  ASSUME Inv, ServeInv, NEW c \in Configs, LoadProfile(c)
  PROVE  ServeInv'
<1> DEFINE s == [World EXCEPT !.om.cfg = c]
           i == InitializeTensorManager(s, c, "none")
           u == IF tm.on THEN s ELSE i
           w == [u EXCEPT !.tm.restored = TRUE]
<1>1. c \in ConfigType
  BY ConfigsAssumption
<1>2. OmStep(s, World) /\ SameStation(s.om, World.om)
  BY <1>1, StandingWorld, ConfigStep
<1>3. om.phase = "NOT_INITIALIZED" /\ hist' = hist /\ Become(w)
  <2>1. SetConfig(World, c) = s
    BY StandingWorld, StepsStay DEF LoadProfile, SetConfig
  <2>2. QED
    BY <2>1 DEF LoadProfile
<1> HIDE DEF s
<1>4. s \in Worlds /\ s.tm = tm /\ s.col = col
  BY <1>2, WorldFields DEF OmStep
<1>5. Grounded(World)
  BY StandingServe
<1>6. u \in Worlds /\ u.om = s.om /\ Grounded(u)
  <2>1. Initialized(i, s, c)
    BY <1>1, <1>4, InitializeTensorManagerStep
  <2> HIDE DEF i
  <2>2. CASE tm.on
    BY <1>4, <1>5, <2>2, WorldFields DEF Grounded
  <2>3. CASE ~tm.on
    BY <1>4, <1>5, <2>1, <2>3, WorldFields DEF Grounded, Initialized
  <2>4. QED
    BY <2>2, <2>3
<1> HIDE DEF u
<1>7. w.om = u.om /\ Grounded(w)
  <2>1. /\ w.om = u.om /\ w.tm.on = u.tm.on /\ w.tm.weights = u.tm.weights
        /\ w.tm.kind = u.tm.kind /\ w.tm.cfg = u.tm.cfg /\ w.col = u.col
    BY <1>6, RestoredStep
  <2> HIDE DEF w
  <2>2. QED
    BY <1>6, <2>1 DEF Grounded
<1> HIDE DEF w
<1>8. w.om.phase = "NOT_INITIALIZED"
  BY <1>2, <1>3, <1>6, <1>7, WorldFields DEF SameStation
<1>9. hist'.served # "garbage"
  BY <1>3, StandingServe
<1>10. QED
  BY <1>3, <1>7, <1>8, <1>9, ServeAfter

LEMMA ServeOfOffload ==
  ASSUME Inv, ServeInv, NEW c \in Configs, NEW f, Offload(c, f)
  PROVE  ServeInv'
<1> DEFINE w == OffloadModel(World, c, f)
<1>1. Become(w)
  BY DEF Offload
<1>2. c \in ConfigType
  BY ConfigsAssumption
<1>3. Offloaded(w, World, c)
  BY <1>2, StandingWorld, OffloadModelStep
<1>4. w.err /\ ~Acceptable(c) => hist' = hist
  BY DEF Offload
<1>5. ~(w.err /\ ~Acceptable(c)) => NewSession(w)
  BY DEF Offload
<1>6. user' = [user EXCEPT !.faults = Faulted(f), !.due = FALSE,
                           !.broken = IF Acceptable(c) THEN w.err ELSE @]
  BY DEF Offload
<1> HIDE DEF w
<1>7. user'.broken = IF Acceptable(c) THEN w.err ELSE user.broken
  BY <1>6, StandingWorld DEF Users
<1>8. CASE Acceptable(c)
  BY <1>1, <1>3, <1>5, <1>7, <1>8, ServeBegins DEF Offloaded
<1>9. CASE ~Acceptable(c)
  <2>1. /\ w.err /\ w.tm = tm /\ w.ops = ops /\ w.comp = comp /\ w.col = col
        /\ SameStation(w.om, om) /\ w.om.cfg = om.cfg
    BY <1>3, <1>9, WorldFields DEF Offloaded
  <2>2. /\ tm' = tm /\ ops' = ops /\ comp' = comp /\ col' = col /\ hist' = hist
        /\ om'.phase = om.phase /\ om'.forwards = om.forwards /\ om'.cfg = om.cfg
    BY <1>1, <1>4, <1>9, <2>1 DEF Become, SameStation
  <2>3. QED
    BY <1>7, <1>9, <2>2, ServeUnmoved DEF SameHold, Timed
<1>10. QED
  BY <1>8, <1>9

LEMMA ServeOfRelease ==
  ASSUME Inv, ServeInv, NEW f, ReleaseAll(f)
  PROVE  ServeInv'
<1> DEFINE w == Release(World, f)
<1>1. Become(w)
  BY DEF ReleaseAll
<1>2. user' = [user EXCEPT !.broken = w.err, !.due = FALSE, !.faults = Faulted(f),
                           !.pass = 0, !.graph = 0]
  BY DEF ReleaseAll
<1>3. hist'.served = "none"
  BY DEF ReleaseAll, NoHistory
<1>4. Released(w, World)
  BY StandingWorld, ReleaseStep
<1> HIDE DEF w
<1>5. user'.broken = w.err
  BY <1>2, StandingWorld DEF Users
<1>6. Grounded(w) /\ (~w.err => w.om.phase = "NOT_INITIALIZED")
  BY <1>4, StandingServe DEF Released
<1>7. QED
  BY <1>1, <1>3, <1>5, <1>6, ServeAfter

LEMMA InitServe == Init => ServeInv
<1> SUFFICES ASSUME Init PROVE ServeInv
  OBVIOUS
<1>1. Grounded(World)
  BY WorldFields DEF Init, Grounded, NoTensorManager, NoConfig, NewCollector
<1>2. om.phase = "NOT_INITIALIZED" /\ hist.served = "none"
  BY DEF Init, NoHistory
<1>3. QED
  BY <1>1, <1>2 DEF ServeInv, NeverServesForeignBlocks

LEMMA NextServe == Inv /\ ServeInv /\ [Next]_vars => ServeInv'
<1> SUFFICES ASSUME Inv, ServeInv, [Next]_vars PROVE ServeInv'
  OBVIOUS
<1>1. ASSUME NEW f \in DriveFaults, Forward(f, FALSE) PROVE ServeInv'
  BY <1>1, ServeOfForward
<1>2. CASE Forward("none", TRUE)
  BY <1>2, ServeOfForward
<1>3. CASE ForwardRaises
  BY <1>3, ServeOfRaise
<1>4. CASE Suspend \/ Resume \/ UNCHANGED vars
  BY <1>4, ServeOfSuspension
<1>5. ASSUME NEW c \in Configs, NEW f \in SetupFaults, Offload(c, f) PROVE ServeInv'
  BY <1>5, ServeOfOffload
<1>6. ASSUME NEW c \in Configs, LoadProfile(c) PROVE ServeInv'
  BY <1>6, ServeOfLoadProfile
<1>7. ASSUME NEW c \in Configs, NEW f \in SetupFaults, FollowShm(c, f) PROVE ServeInv'
  <2> DEFINE w == InitializeFromShm(World, c, f)
  <2>1. Become(w) /\ NewSession(w) /\ ~tm.on
        /\ user' = [user EXCEPT !.faults = Faulted(f), !.broken = w.err]
    BY <1>7 DEF FollowShm
  <2>2. SetUp(w, World)
    BY <2>1, ConfigsAssumption, StandingWorld, WorldFields, FollowStep
  <2> HIDE DEF w
  <2>3. user'.broken = w.err
    BY <2>1, StandingWorld DEF Users
  <2>4. w.err \in BOOLEAN
    BY <2>2 DEF SetUp, Sound, Worlds
  <2>5. QED
    BY <2>1, <2>2, <2>3, <2>4, ServeBegins
<1>8. ASSUME NEW c \in Configs, NEW f \in SetupFaults, NEW g \in ReleaseFaults,
             TakeOver(c, f, g)
      PROVE  ServeInv'
  <2> DEFINE w == OffloadFromState(World, c, f, g)
  <2>1. Become(w) /\ NewSession(w) /\ om.phase = "NOT_INITIALIZED" /\ ~tm.on
    BY <1>8 DEF TakeOver
  <2>2. TakenOver(w, World)
    BY <2>1, ConfigsAssumption, StandingWorld, WorldFields, OffloadFromStateStep
  <2> HIDE DEF w
  <2>3. SetUp(w, World) /\ (w.err => w.om.phase = "NOT_INITIALIZED")
    BY <2>1, <2>2, WorldFields DEF TakenOver
  <2>4. QED
    BY <2>1, <2>3, ServeBegins
<1>9. ASSUME NEW manual \in BOOLEAN, RequestStrategyReplan(manual) PROVE ServeInv'
  BY <1>9, ServeOfRequest
<1>10. CASE Replay
  BY <1>10, ServeOfReplay
<1>11. ASSUME NEW gen \in {NoGeneration, user.pass}, NEW f \in ReplanFaults,
              NEW capturing \in BOOLEAN, UpdateAfterReplay(gen, f, capturing)
       PROVE  ServeInv'
  <2>1. gen \in Int /\ f # "swap"
    BY StandingWorld, NoGenerationType DEF ReplanFaults
  <2>2. QED
    BY <1>11, <2>1, ServeOfUpdate
<1>12. ASSUME NEW f \in ReleaseFaults, ReleaseAll(f) PROVE ServeInv'
  BY <1>12, ServeOfRelease
<1>13. QED
  BY <1>1, <1>2, <1>3, <1>4, <1>5, <1>6, <1>7, <1>8, <1>9, <1>10, <1>11, <1>12 DEF Next

LEMMA ServeMeansAgreement == Inv /\ ServeInv => CompiledSessionAgrees
<1> SUFFICES ASSUME Inv, ServeInv, om.phase = "INFERENCE", comp.active,
                    ~user.broken, ~hist.rearmed, comp.tail.state # "FAILED",
                    tm.cfg.block \/ ops.loader # 0
             PROVE  /\ ops.loader = tm.loader /\ ops.loader \in tm.live
                    /\ tm.weights \in {tm.loader, Stale}
  BY DEF CompiledSessionAgrees
<1>1. Steady(World, hist.halfway, hist.rearmed)
  BY StandingServe, WorldFields DEF AtWork
<1>2. ops.loader # 0
  BY <1>1, WorldFields DEF Steady
<1>3. QED
  BY <1>1, <1>2, WorldFields DEF Steady, Agreed

(* No forward is served from blocks that its loader does not fill, after   *)
(* any order of offloads, releases, takeovers, replans, replays and        *)
(* failures, for any configurations and bounds; the two failures that the  *)
(* property excepts are the only ways to it.                               *)
THEOREM NothingForeignServed == Spec => []NeverServesForeignBlocks
<1>1. Init => Inv /\ ServeInv
  BY InitInv, InitServe
<1>2. Inv /\ ServeInv /\ [Next]_vars => (Inv /\ ServeInv)'
  BY NextInv, NextServe
<1>3. ServeInv => NeverServesForeignBlocks
  BY DEF ServeInv
<1>4. QED
  BY <1>1, <1>2, <1>3, PTL DEF Spec

(* The registry, the tensor manager and the parameters of a compiled       *)
(* session name one loader that is alive, whatever was called and whatever *)
(* failed before; a replan that failed shows in the tail.                  *)
THEOREM SessionAgrees == Spec => []CompiledSessionAgrees
<1>1. Init => Inv /\ ServeInv
  BY InitInv, InitServe
<1>2. Inv /\ ServeInv /\ [Next]_vars => (Inv /\ ServeInv)'
  BY NextInv, NextServe
<1>3. Inv /\ ServeInv => CompiledSessionAgrees
  BY ServeMeansAgreement
<1>4. QED
  BY <1>1, <1>2, <1>3, PTL DEF Spec

------------------------------------------------------------------------------
(* What the replan of a captured graph measures.                           *)

LEMMA CapturedSteps ==
  ASSUME NEW c \in Collectors, NEW gen \in Int, NEW pass \in Nat, NEW capturing \in BOOLEAN
  PROVE  /\ Captured(c) => Captured(FinalizeReplayPass(c, gen, capturing).col)
         /\ Captured(c) => Captured(DisarmReplayMeasure(c))
         /\ capturing \/ Captured(c) =>
              Captured(RecordPass(OnPassStart(c, capturing), pass, capturing))
<1>1. Captured(c) => Captured(FinalizeReplayPass(c, gen, capturing).col)
  BY DEF Captured, FinalizeReplayPass, PublishPass, Collectors
<1>2. Captured(c) => Captured(DisarmReplayMeasure(c))
  BY DEF Captured, DisarmReplayMeasure, Collectors
<1>3. ASSUME capturing \/ Captured(c)
      PROVE  Captured(RecordPass(OnPassStart(c, capturing), pass, capturing))
  <2> DEFINE kept == FinalizeReplayPass(c, NoGeneration, FALSE)
             d == OnPassStart(c, capturing)
             e == RecordPass(d, pass, capturing)
  <2>1. CASE ~c.enabled
    BY <2>1 DEF OnPassStart, RecordPass, Captured
  <2>2. CASE c.enabled /\ capturing
    <3>1. d = [c EXCEPT !.active = TRUE, !.captured = TRUE]
      BY <2>2 DEF OnPassStart, Collectors
    <3>2. d \in Collectors /\ d.enabled /\ d.captured
      BY <2>2, <3>1 DEF Collectors
    <3> HIDE DEF d
    <3>3. e.captured /\ e.has
      BY <3>2 DEF RecordPass, Collectors
    <3>4. QED
      BY <3>3 DEF Captured, d
  <2>3. CASE c.enabled /\ ~capturing
    <3>1. d \in Collectors /\ d.enabled
      <4>1. Timed(d, c)
        BY TimedSteps
      <4>2. QED
        BY <2>3, <4>1, PassTypes DEF Timed
    <3>2. c.external => c.captured /\ c.has
      BY <1>3, <2>3 DEF Captured
    <3>3. d.external => d.captured
      <4>1. CASE ~c.external
        BY <2>3, <4>1 DEF OnPassStart, FinalizePass, ResetPassState, PublishPass, Collectors
      <4>2. CASE c.external /\ ~c.active
        BY <2>3, <3>2, <4>2 DEF OnPassStart, Collectors
      <4>3. CASE c.external /\ c.active
        <5>1. kept.ok /\ kept.col.captured /\ kept.col \in Collectors
          <6>1. kept.col \in Collectors
            BY PassTypes, NoGenerationType
          <6>2. QED
            BY <2>3, <3>2, <4>3, <6>1 DEF FinalizeReplayPass, PublishPass, Collectors
        <5>2. d = [kept.col EXCEPT !.active = TRUE, !.captured = @ \/ capturing]
          BY <2>3, <3>2, <4>3, <5>1 DEF OnPassStart
        <5> HIDE DEF kept
        <5>3. QED
          BY <5>1, <5>2 DEF Collectors
      <4>4. QED
        BY <4>1, <4>2, <4>3
    <3> HIDE DEF d
    <3>4. e.has /\ (e.external => e.captured)
      BY <3>1, <3>3 DEF RecordPass, Collectors
    <3>5. QED
      BY <3>4 DEF Captured, d
  <2>4. QED
    BY <2>1, <2>2, <2>3
<1>4. QED
  BY <1>1, <1>2, <1>3

(* A manager that serves moves on: the graph of its loader stays readable, *)
(* and a session that reaches inference has a loader without a graph.      *)
Onward(v, w) ==
  /\ v.om.phase # "NOT_INITIALIZED" /\ v.tm.built >= w.tm.built
  /\ v.om.phase = "INFERENCE" =>
       v.tm.loader > w.tm.built \/ (w.om.phase = "INFERENCE" /\ Follows(v, w))

(* The graph that was captured last: none where no session is, and one     *)
(* over the loader in use is read over its events.                         *)
GraphStands(w, u) ==
  /\ w.om.phase = "NOT_INITIALIZED" => u.graph = 0
  /\ u.graph <= w.tm.built
  /\ w.om.phase = "INFERENCE" /\ ~u.broken /\ u.graph # 0 /\ u.graph = w.tm.loader =>
       Captured(w.col)

LEMMA GraphGoesOn ==
  ASSUME NEW w \in Worlds, NEW v \in Worlds, NEW u \in Users, NEW t \in Users,
         GraphStands(w, u), Onward(v, w), t.graph = u.graph, ~u.broken
  PROVE  GraphStands(v, t)
<1>1. /\ v.tm.built \in Nat /\ w.tm.built \in Nat /\ u.graph \in Nat
      /\ v.tm.loader \in Nat /\ w.tm.loader \in Nat
  BY DEF Worlds, TensorManagers, TensorRecords, Users
<1>2. u.graph <= v.tm.built
  BY <1>1 DEF GraphStands, Onward
<1>3. ASSUME v.om.phase = "INFERENCE", t.graph # 0, t.graph = v.tm.loader
      PROVE  Captured(v.col)
  <2>1. ~(v.tm.loader > w.tm.built)
    BY <1>1, <1>3 DEF GraphStands
  <2>2. w.om.phase = "INFERENCE" /\ v.tm.loader = w.tm.loader
        /\ (Captured(w.col) => Captured(v.col))
    BY <1>1, <1>3, <2>1 DEF Onward, Follows
  <2>3. QED
    BY <1>3, <2>2 DEF GraphStands
<1>4. QED
  BY <1>2, <1>3 DEF GraphStands, Onward

LEMMA CountOnward ==
  ASSUME NEW w \in Worlds, NEW f, NEW h \in BOOLEAN,
         ~w.err, Registered(w), HookStands(w.om),
         w.om.phase \in {"DISCOVERY", "PROFILING"}, Driven(w, h)
  PROVE  Onward(Count(w, f), w)
<1> DEFINE n == w.om.iter + 1
           o == [w.om EXCEPT !.iter = n]
           c == [w EXCEPT !.om.iter = @ + 1]
           p == TransitionToProfile(c, f)
           i == TransitionToInference(c, f)
<1>1. w.om \in Managers /\ n \in Nat /\ w.tm.built \in Nat
  BY DEF Worlds, Managers, TensorManagers, TensorRecords
<1>2. c = [w EXCEPT !.om = o]
  BY DEF Worlds
<1> HIDE DEF n
<1>3. /\ o \in Managers /\ o.phase = w.om.phase /\ o.hooks = w.om.hooks
      /\ o.handle = w.om.handle /\ o.model = w.om.model /\ o.serial = w.om.serial
  BY <1>1 DEF Managers
<1>4. Count(w, f) = IF DiscoveryDue(c) THEN p ELSE IF ProfilingDue(c) THEN i ELSE c
  BY DEF Count
<1> HIDE DEF o, c
<1>5. OmStep(c, w) /\ c.om = o
  BY <1>2, <1>3, OmChanges
<1>6. c \in Worlds /\ ~c.err /\ Registered(c) /\ HookFollows(c.om) /\ c.tm = w.tm
  <2>1. HookFollows(c.om)
    BY <1>1, <1>3, <1>5, HookStays DEF HookStands
  <2>2. QED
    BY <1>5, <2>1 DEF OmStep, Registered
<1>7. ToProfile(p, c, f) /\ ToInference(i, c, f)
  BY <1>6, TransitionToProfileStep, TransitionToInferenceStep
<1> HIDE DEF p, i
<1>8. Onward(c, w)
  BY <1>1, <1>3, <1>5, <1>6 DEF Onward
<1>9. Onward(p, w)
  <2>1. p.tm.built >= w.tm.built
    BY <1>6, <1>7 DEF ToProfile, SameSettings
  <2>2. CASE p.err
    <3>1. p.om = o
      BY <1>5, <1>7, <2>2 DEF ToProfile
    <3>2. QED
      BY <1>3, <2>1, <3>1 DEF Onward
  <2>3. CASE ~p.err
    <3>1. p.om.phase = "PROFILING"
      BY <1>7, <2>3 DEF ToProfile, Swapped
    <3>2. QED
      BY <2>1, <3>1 DEF Onward
  <2>4. QED
    BY <2>2, <2>3
<1>10. Onward(i, w)
  <2>1. i.tm.built >= w.tm.built /\ i \in Worlds
    BY <1>6, <1>7 DEF ToInference, SameSettings
  <2>2. CASE InferenceFails(c, f) \/ f = "swap"
    <3>1. i.om = o
      BY <1>5, <1>7, <2>2 DEF ToInference
    <3>2. QED
      BY <1>3, <2>1, <3>1 DEF Onward
  <2>3. CASE ~(InferenceFails(c, f) \/ f = "swap")
    <3>1. PICK z \in Managers :
             /\ Swapped(z, c.om, UserModel(c), "INFERENCE")
             /\ i.om = IF c.comp.active THEN [z EXCEPT !.forwards = "compiled"] ELSE z
      BY <1>7, <2>3 DEF ToInference
    <3>2. i.om.phase = "INFERENCE"
      BY <3>1 DEF Swapped, Managers
    <3>3. ~c.tm.restored
      BY <1>6 DEF Driven
    <3>4. NewLoader(i, c)
      <4>1. InferenceFails(c, f) = FALSE
        BY <2>3 DEF InferenceFails
      <4>2. QED
        BY <1>7, <3>3, <4>1 DEF ToInference, InferenceTm
    <3>5. QED
      BY <1>6, <2>1, <3>2, <3>4 DEF Onward, NewLoader
  <2>4. QED
    BY <2>2, <2>3
<1>11. QED
  BY <1>4, <1>8, <1>9, <1>10

LEMMA TimingCaptured ==
  ASSUME NEW w \in Worlds, NEW gen \in Int, NEW capturing \in BOOLEAN, Captured(w.col)
  PROVE  Captured(UpdateOffloadTiming(w, gen, capturing).w.col)
<1> DEFINE fin == FinalizeReplayPass(w.col, gen, capturing).col
           u == UpdateOffloadTiming(w, gen, capturing).w
<1>1. Captured(fin)
  BY CapturedSteps DEF Worlds
<1>2. u \in {w, [w EXCEPT !.col = fin]}
  BY DEF UpdateOffloadTiming
<1> HIDE DEF fin, u
<1>3. u.col \in {w.col, fin}
  BY <1>2 DEF Worlds
<1>4. QED
  BY <1>1, <1>3 DEF u

LEMMA FailedCaptured ==
  ASSUME NEW w \in Worlds, Captured(w.col)
  PROVE  Captured(FailManualUpdateReplan(w).col)
<1> DEFINE v == FailManualUpdateReplan(w)
           c == DisarmReplayMeasure(w.col)
<1>1. Captured(c)
  BY CapturedSteps, NoGenerationType DEF Worlds
<1>2. v.col = c
  BY DEF FailManualUpdateReplan, Raise, Worlds
<1>3. QED
  BY <1>1, <1>2

(* A forward or a replay that is counted.                                  *)
LEMMA UpdateOnward ==
  ASSUME NEW w \in Worlds, NEW gen \in Int, NEW f, NEW capturing \in BOOLEAN,
         NEW h \in BOOLEAN, NEW r \in BOOLEAN,
         ~w.err, Registered(w), HookStands(w.om), w.om.phase # "NOT_INITIALIZED",
         AtWork(w, h, r)
  PROVE  /\ Onward(UpdateState(w, gen, f, capturing), w)
         /\ ~w.om.manual => ~UpdateState(w, gen, f, capturing).om.manual
<1> DEFINE pub == UpdateOffloadTiming(w, gen, capturing)
           u == pub.w
           v == UpdateState(w, gen, f, capturing)
<1>0. w.om.phase \in Phases /\ w.comp \in CompiledPaths /\ w.tm.built \in Nat
  BY DEF Worlds, Managers, TensorManagers, TensorRecords
<1>1. CASE w.om.phase = "INFERENCE"
  <2>1. Moved(v, w, f)
    BY UpdateStateStep
  <2>2. CASE w.om.manual
    <3>1. v = IF pub.ok THEN ManualTick(u, f) ELSE FailManualUpdateReplan(u)
      BY <1>1, <2>2 DEF UpdateState, MeasureReplay, ManualTick
    <3>2. /\ u \in Worlds /\ u.om = w.om /\ u.tm = w.tm /\ u.ops = w.ops /\ ~u.err
      BY TimingStep
    <3>3. Captured(w.col) => Captured(u.col)
      BY TimingCaptured
    <3> HIDE DEF v, pub
    <3>4. Ticked(ManualTick(u, f), u)
      BY <3>2, TickSteps DEF Registered
    <3>5. Follows(ManualTick(u, f), u)
      BY <3>4 DEF Ticked, Carries
    <3>6. Follows(FailManualUpdateReplan(u), u)
      <4>1. FailManualUpdateReplan(u).tm = u.tm
        BY <3>2, FailedMeasure
      <4>2. Captured(u.col) => Captured(FailManualUpdateReplan(u).col)
        BY <3>2, FailedCaptured
      <4>3. QED
        BY <1>0, <3>2, <4>1, <4>2 DEF Follows
    <3>7. Follows(v, u)
      BY <3>1, <3>5, <3>6
    <3>8. Follows(v, w)
      BY <3>2, <3>3, <3>7 DEF Follows
    <3>9. QED
      BY <1>1, <2>1, <2>2, <3>8 DEF Onward, Follows, Moved, v
  <2>3. CASE ~w.om.manual
    <3>1. v = PassiveTick(w, f)
      BY <1>1, <2>3 DEF UpdateState, PassiveTick
    <3> HIDE DEF v
    <3>2. Ticked(v, w) /\ v.om = w.om
      BY <3>1, TickSteps
    <3>3. Follows(v, w)
      BY <3>2 DEF Ticked, Carries
    <3>4. QED
      BY <1>1, <2>3, <3>2, <3>3 DEF Onward, Follows, v
  <2>4. QED
    BY <2>2, <2>3
<1>2. CASE w.om.phase \in {"DISCOVERY", "PROFILING"}
  <2> DEFINE x == [w EXCEPT !.comp = AdvanceProfileWarmup(w.comp)]
  <2>1. v \in {w, x, Count(w, f)}
    BY <1>2 DEF UpdateState
  <2>2. x.om = w.om /\ x.tm = w.tm
    BY DEF Worlds
  <2>3. v.om.manual = w.om.manual
    BY <1>2, DrivingManual
  <2> HIDE DEF x, v
  <2>4. Driven(w, h)
    BY <1>2 DEF AtWork
  <2>5. Onward(Count(w, f), w)
    BY <1>2, <2>4, CountOnward
  <2>6. Onward(w, w) /\ Onward(x, w)
    BY <1>0, <1>2, <2>2 DEF Onward
  <2>7. QED
    BY <2>1, <2>3, <2>5, <2>6 DEF v
<1>3. QED
  BY <1>0, <1>1, <1>2 DEF Phases

(* Passes from one on, up to another, none of them twice. *)
Passes(s, from, top) ==
  /\ \A i, j \in 1..Len(s) : i # j => s[i] # s[j]
  /\ \A i \in 1..Len(s) : from < s[i] /\ s[i] <= top

(* The last replay that may have been published, and whether the hook has  *)
(* published one that is still to be counted.                              *)
LastRead(u) == IF u.due /\ ~u.hooked THEN u.pass - 1 ELSE u.pass
Ahead(u) == IF u.due /\ u.hooked THEN 1 ELSE 0

(* The durable store of a measurement: a pass of its own for every replay  *)
(* that was counted, and for the one that a hook has published before it   *)
(* is counted.                                                             *)
Recorded(c, measure, u, from) ==
  /\ c.enabled /\ c.external /\ c.active /\ c.has
  /\ from <= u.pass /\ (u.due => from < u.pass /\ c.held = u.pass)
  /\ IF u.hooked THEN c.lastGen <= u.pass /\ (u.due => c.lastGen = u.pass)
                 ELSE c.lastGen = NoGeneration
  /\ Passes(c.durable, from, LastRead(u)) /\ Len(c.durable) = measure + Ahead(u)

(* While a captured graph is measured there is a loader with a collector   *)
(* that can read it.                                                       *)
Measuring(w, u, from) ==
  /\ w.om.phase = "INFERENCE" /\ w.comp.tail.state = "MEASURING"
  /\ w.om.cfg.timing # "off" /\ w.tm.loader # 0
  /\ Recorded(w.col, w.comp.tail.measure, u, from)

(* The invariant: only a manager at work measures, and one that could not  *)
(* let go of what it has takes no further call.                            *)
Measured(w, u, from) ==
  /\ GraphStands(w, u)
  /\ w.om.phase = "NOT_INITIALIZED" => ~w.om.manual
  /\ w.om.blocked => ~w.om.manual /\ (w.om.phase = "NOT_INITIALIZED" \/ u.broken)
  /\ w.om.manual => Measuring(w, u, from)

MeasureInv == Measured(World, user, hist.from)

LEMMA MeasureAfter ==
  ASSUME NEW w, Become(w), Measured(w, user', hist'.from)
  PROVE  MeasureInv'
<1>1. /\ World'.om = w.om /\ World'.tm = w.tm /\ World'.comp = w.comp
      /\ World'.col = w.col
  BY DEF Become, World
<1>2. GraphStands(World', user')
  BY <1>1 DEF Measured, GraphStands
<1>3. Measuring(w, user', hist'.from) => Measuring(World', user', hist'.from)
  BY <1>1 DEF Measuring
<1>4. QED
  BY <1>1, <1>2, <1>3 DEF MeasureInv, Measured

LEMMA OneMorePass ==
  ASSUME NEW s \in Seq(Nat), NEW from \in Nat, NEW top \in Int, NEW pass \in Nat,
         Passes(s, from, top), top < pass, from < pass
  PROVE  Passes(Append(s, pass), from, pass) /\ Len(Append(s, pass)) = Len(s) + 1
<1> DEFINE d == Append(s, pass)
           n == Len(s)
<1>1. /\ n \in Nat /\ Len(d) = n + 1 /\ d[n + 1] = pass
      /\ \A i \in 1..n : d[i] = s[i] /\ s[i] \in Nat
  OBVIOUS
<1>2. \A i \in 1..n : from < d[i] /\ d[i] <= top
  BY <1>1 DEF Passes
<1>3. \A i, j \in 1..n : i # j => d[i] # d[j]
  BY <1>1 DEF Passes
<1> HIDE DEF d, n
<1>4. \A i \in 1..(n + 1) : i \in 1..n \/ i = n + 1
  BY <1>1
<1>5. \A i \in 1..n : d[i] \in Nat /\ d[i] < pass
  BY <1>1, <1>2
<1>6. \A i \in 1..(n + 1) : from < d[i] /\ d[i] <= pass
  BY <1>1, <1>2, <1>4, <1>5
<1>7. \A i, j \in 1..(n + 1) : i # j => d[i] # d[j]
  BY <1>1, <1>3, <1>4, <1>5
<1>8. QED
  BY <1>1, <1>6, <1>7 DEF Passes, d, n

(* A replay is published at once by the hook, or else when it is counted.  *)
LEMMA RecordedSteps ==
  ASSUME NEW c \in Collectors, NEW u \in Users, NEW t \in Users, NEW n \in Nat,
         NEW from \in Nat, Recorded(c, n, u, from), t.hooked = u.hooked
  PROVE  /\ ~u.due /\ t.due /\ t.pass = u.pass + 1 =>
              Recorded(IF u.hooked
                         THEN FinalizeReplayPass(RecordReplay(c, t.pass), t.pass, FALSE).col
                         ELSE RecordReplay(c, t.pass), n, t, from)
         /\ \A gen \in Int, capturing \in BOOLEAN :
              u.due /\ ~t.due /\ t.pass = u.pass
              /\ gen \in {NoGeneration} \cup (IF u.hooked THEN {u.pass} ELSE {})
              /\ FinalizeReplayPass(c, gen, capturing).ok =>
                Recorded(FinalizeReplayPass(c, gen, capturing).col, n + 1, t, from)
<1>1. /\ u.pass \in Nat /\ u.due \in BOOLEAN /\ u.hooked \in BOOLEAN
      /\ t.pass \in Nat /\ t.due \in BOOLEAN /\ c.durable \in Seq(Nat)
      /\ c.lastGen \in Int /\ c.held \in Nat
  BY DEF Users, Collectors
<1>2. ASSUME NEW k \in Collectors, k.durable = c.durable
      PROVE  LET p == PublishPass(k)
             IN  /\ p \in Collectors /\ p.durable = Append(c.durable, k.held)
                 /\ p.enabled = k.enabled /\ p.external = k.external /\ p.active = k.active
                 /\ p.has = k.has /\ p.held = k.held /\ p.lastGen = k.lastGen
  <2> DEFINE p == PublishPass(k)
  <2>1. p \in Collectors
    BY CollectorTypes
  <2>2. p = [k EXCEPT !.durable = Append(c.durable, k.held)] /\ k.held \in Nat
    BY <1>2 DEF PublishPass, Collectors
  <2>3. p.durable = Append(c.durable, k.held)
        /\ p.enabled = k.enabled /\ p.external = k.external /\ p.active = k.active
        /\ p.has = k.has /\ p.held = k.held /\ p.lastGen = k.lastGen
    BY <2>2 DEF Collectors
  <2> HIDE DEF p
  <2>4. QED
    BY <2>1, <2>3 DEF p
<1>3. ASSUME ~u.due, t.due, t.pass = u.pass + 1
      PROVE  Recorded(IF u.hooked
                        THEN FinalizeReplayPass(RecordReplay(c, t.pass), t.pass, FALSE).col
                        ELSE RecordReplay(c, t.pass), n, t, from)
  <2> DEFINE r == RecordReplay(c, t.pass)
             p == PublishPass(r)
             e == [p EXCEPT !.lastGen = t.pass]
  <2>1. /\ r \in Collectors /\ r.held = t.pass /\ r.durable = c.durable
        /\ r.enabled /\ r.external /\ r.active /\ r.has /\ r.lastGen = c.lastGen
    BY <1>1 DEF Recorded, RecordReplay, Collectors
  <2>2. CASE ~u.hooked
    <3>1. LastRead(t) = LastRead(u) /\ Ahead(t) = Ahead(u)
      BY <1>1, <1>3, <2>2 DEF LastRead, Ahead
    <3> HIDE DEF r
    <3>2. Recorded(r, n, t, from)
      BY <1>1, <1>3, <2>1, <2>2, <3>1 DEF Recorded
    <3>3. QED
      BY <2>2, <3>2 DEF r
  <2>3. CASE u.hooked
    <3>1. FinalizeReplayPass(r, t.pass, FALSE).col = e
      BY <1>1, <1>3, <2>1, <2>3 DEF FinalizeReplayPass, Recorded
    <3> HIDE DEF r
    <3>2. /\ p \in Collectors /\ p.durable = Append(c.durable, t.pass)
          /\ p.enabled /\ p.external /\ p.active /\ p.has /\ p.held = t.pass
      BY <1>2, <2>1
    <3> HIDE DEF p
    <3>3. /\ e.durable = p.durable /\ e.enabled /\ e.external /\ e.active /\ e.has
          /\ e.held = t.pass /\ e.lastGen = t.pass
      BY <3>2 DEF Collectors
    <3> HIDE DEF e
    <3>4. LastRead(u) = u.pass /\ LastRead(t) = t.pass /\ Ahead(u) = 0 /\ Ahead(t) = 1
      BY <1>3, <2>3 DEF LastRead, Ahead
    <3>5. /\ Passes(c.durable, from, u.pass) /\ Len(c.durable) = n + 0
          /\ from <= u.pass
      BY <3>4 DEF Recorded
    <3>6. /\ Passes(p.durable, from, t.pass) /\ Len(p.durable) = n + 1
      BY <1>1, <1>3, <3>2, <3>5, OneMorePass
    <3>7. Recorded(e, n, t, from)
      BY <1>1, <1>3, <2>3, <3>3, <3>4, <3>5, <3>6 DEF Recorded
    <3>8. QED
      BY <2>3, <3>1, <3>7 DEF r
  <2>4. QED
    BY <1>1, <2>2, <2>3
<1>4. ASSUME NEW gen \in Int, NEW capturing \in BOOLEAN,
             u.due, ~t.due, t.pass = u.pass,
             gen \in {NoGeneration} \cup (IF u.hooked THEN {u.pass} ELSE {}),
             FinalizeReplayPass(c, gen, capturing).ok
      PROVE  Recorded(FinalizeReplayPass(c, gen, capturing).col, n + 1, t, from)
  <2> DEFINE p == PublishPass(c)
             e == [p EXCEPT !.lastGen = IF gen >= 0 THEN gen ELSE @]
  <2>1. CASE u.hooked
    <3>1. FinalizeReplayPass(c, gen, capturing).col = c
      BY <1>1, <1>4, <2>1 DEF FinalizeReplayPass, Recorded, NoGeneration
    <3>2. LastRead(t) = LastRead(u) /\ Ahead(u) = 1 /\ Ahead(t) = 0
      BY <1>4, <2>1 DEF LastRead, Ahead
    <3>3. Recorded(c, n + 1, t, from)
      BY <1>1, <1>4, <2>1, <3>2 DEF Recorded
    <3>4. QED
      BY <3>1, <3>3
  <2>2. CASE ~u.hooked
    <3>1. gen = NoGeneration /\ c.lastGen = NoGeneration
      BY <1>4, <2>2 DEF Recorded
    <3>2. FinalizeReplayPass(c, gen, capturing).col = e
      BY <1>4, <3>1 DEF FinalizeReplayPass, Recorded, NoGeneration
    <3>3. /\ p \in Collectors /\ p.durable = Append(c.durable, u.pass)
          /\ p.enabled /\ p.external /\ p.active /\ p.has /\ p.lastGen = NoGeneration
      BY <1>2, <1>4, <3>1 DEF Recorded
    <3> HIDE DEF p
    <3>4. e = p
      BY <3>1, <3>3 DEF Collectors, NoGeneration
    <3> HIDE DEF e
    <3>5. LastRead(u) = u.pass - 1 /\ LastRead(t) = u.pass /\ Ahead(u) = 0 /\ Ahead(t) = 0
      BY <1>4, <2>2 DEF LastRead, Ahead
    <3>6. Passes(c.durable, from, u.pass - 1) /\ Len(c.durable) = n + 0 /\ from < u.pass
      BY <1>4, <3>5 DEF Recorded
    <3>7. Passes(p.durable, from, u.pass) /\ Len(p.durable) = n + 1
      BY <1>1, <3>3, <3>6, OneMorePass
    <3>8. Recorded(p, n + 1, t, from)
      BY <1>1, <1>4, <2>2, <3>3, <3>5, <3>6, <3>7 DEF Recorded
    <3>9. QED
      BY <3>2, <3>4, <3>8
  <2>3. QED
    BY <1>1, <2>1, <2>2
<1>5. QED
  BY <1>3, <1>4

LEMMA ManualTicks ==
  ASSUME NEW w \in Worlds, NEW f, ~w.err, Registered(w), w.comp.tail.state = "MEASURING"
  PROVE  LET v == ManualTick(w, f)
         IN  \/ ~v.om.manual
             \/ /\ v.om = w.om /\ v.tm = w.tm /\ v.col = w.col
                /\ v.comp.tail.state = "MEASURING"
                /\ v.comp.tail.measure = w.comp.tail.measure + 1
<1> DEFINE t == w.comp.tail
           n == TickedTail(w)
           k == Tick(t, Measures(w))
           v == ManualTick(w, f)
           e == ManualEnd(n, f)
<1>1. w.comp \in CompiledPaths /\ t \in Tails /\ t.measure \in Nat /\ Measures(w) \in Nat
      /\ w.om \in Managers
  BY DEF Worlds, CompiledPaths, Tails, Managers, ConfigType, Measures
<1>2. TailMoved(n, w)
  BY TickedTailStep
<1>3. v = IF k.complete THEN e ELSE n
  BY DEF ManualTick, AdvanceTail, ManualEnd, TickedTail
<1>4. /\ k.complete \/ k.tail = [t EXCEPT !.measure = t.measure + 1]
  BY DEF Tick, TickMeasuring
<1> HIDE DEF n, k
<1>5. CASE k.complete
  <2>1. n \in Worlds /\ ~n.err /\ Registered(n) /\ n.om = w.om
    BY <1>2 DEF TailMoved, Frame
  <2>2. e.om = [n.om EXCEPT !.manual = FALSE]
    BY <2>1, EndSteps
  <2> HIDE DEF e
  <2>3. ~e.om.manual
    BY <1>1, <2>1, <2>2 DEF Managers
  <2> HIDE DEF v
  <2>4. ~v.om.manual
    BY <1>3, <1>5, <2>3
  <2>5. QED
    BY <2>4 DEF v
<1>6. CASE ~k.complete
  <2> HIDE DEF e
  <2>1. n.comp.tail = k.tail
    BY <1>2 DEF TailMoved, k
  <2>2. n.comp.tail.state = "MEASURING" /\ n.comp.tail.measure = w.comp.tail.measure + 1
    BY <1>1, <1>4, <1>6, <2>1 DEF Tails
  <2>3. n.om = w.om /\ n.tm = w.tm /\ n.col = w.col
    BY <1>2 DEF TailMoved
  <2> HIDE DEF v
  <2>4. v = n
    BY <1>3, <1>6
  <2>5. QED
    BY <2>2, <2>3, <2>4 DEF v
<1>7. QED
  BY <1>5, <1>6

(* A replay that is counted is in the durable store, or the measurement    *)
(* ends.                                                                   *)
LEMMA CountedIsRecorded ==
  ASSUME NEW w \in Worlds, NEW u \in Users, NEW t \in Users, NEW from \in Nat, NEW f,
         NEW gen \in Int, NEW capturing \in BOOLEAN, ~w.err, Registered(w), w.tm.on,
         w.om.manual, Measuring(w, u, from),
         u.due, ~t.due, t.pass = u.pass, t.hooked = u.hooked,
         gen \in {NoGeneration} \cup (IF u.hooked THEN {u.pass} ELSE {}),
         UpdateState(w, gen, f, capturing).om.manual
  PROVE  Measuring(UpdateState(w, gen, f, capturing), t, from)
<1> DEFINE fin == FinalizeReplayPass(w.col, gen, capturing)
           pub == UpdateOffloadTiming(w, gen, capturing)
           x == [w EXCEPT !.col = fin.col]
           m == ManualTick(pub.w, f)
           d == FailManualUpdateReplan(pub.w)
           v == UpdateState(w, gen, f, capturing)
           n == w.comp.tail.measure
<1>1. /\ w.om.phase = "INFERENCE" /\ w.comp.tail.state = "MEASURING"
      /\ w.om.cfg.timing # "off" /\ w.tm.loader # 0 /\ Recorded(w.col, n, u, from)
  BY DEF Measuring
<1>2. w.col \in Collectors /\ n \in Nat
  BY DEF Worlds, CompiledPaths, Tails
<1>3. v = IF pub.ok THEN m ELSE d
  BY <1>1 DEF UpdateState, MeasureReplay, ManualTick
<1>4. pub.ok = fin.ok /\ pub.w = x
  BY <1>1 DEF UpdateOffloadTiming
<1>5. /\ pub.w \in Worlds /\ pub.w.om = w.om /\ pub.w.tm = w.tm /\ pub.w.comp = w.comp
      /\ pub.w.ops = w.ops /\ ~pub.w.err
  BY TimingStep
<1>6. fin.ok => Recorded(fin.col, n + 1, t, from)
  BY <1>1, <1>2, RecordedSteps
<1> HIDE DEF fin
<1>7. x.col = fin.col
  BY DEF Worlds
<1> HIDE DEF v, pub, x
<1>8. d.om = [w.om EXCEPT !.manual = FALSE]
  BY <1>5, FailedMeasure
<1>9. ~d.om.manual
  BY <1>5, <1>8 DEF Worlds, Managers
<1> HIDE DEF d
<1>10. v = m /\ fin.ok
  BY <1>3, <1>4, <1>9 DEF v
<1>11. v.om.manual
  BY DEF v
<1>12. Registered(pub.w)
  BY <1>5 DEF Registered
<1>13. /\ m.om = w.om /\ m.tm = w.tm /\ m.col = fin.col
       /\ m.comp.tail.state = "MEASURING" /\ m.comp.tail.measure = n + 1
  BY <1>1, <1>4, <1>5, <1>7, <1>10, <1>11, <1>12, ManualTicks
<1> HIDE DEF m, n
<1>14. Measuring(v, t, from)
  BY <1>1, <1>6, <1>10, <1>13 DEF Measuring
<1>15. QED
  BY <1>14 DEF v

(* What the request of a measurement leaves: the tail measures at once,    *)
(* the store is empty, and the collector can read the captured graph.      *)
LEMMA RequestMeasures ==
  ASSUME NEW w \in Worlds, NEW u \in Users, NEW t \in Users, ~w.err, Registered(w),
         w.om.phase = "INFERENCE", ~w.om.manual, GraphStands(w, u), ~u.broken,
         u.graph = w.tm.loader, t.pass = u.pass, ~t.due, t.hooked = u.hooked,
         BeginManualUpdateReplan(w).om.manual
  PROVE  Measuring(BeginManualUpdateReplan(w), t, u.pass)
<1> DEFINE v == BeginManualUpdateReplan(w)
           o == [w.om EXCEPT !.manual = TRUE]
           k == ArmReplayMeasure(ResetCollector(DrainMeasure(w.col)))
           z == [w EXCEPT !.om = o, !.col = k]
           a == ArmedTail(z, WarmupForwards, FALSE)
           e == ManualEnd(a, "none")
           asked == /\ w.om.cfg.timing = "cuda_graph"
                    /\ w.comp.active /\ w.comp.replan
                    /\ w.tm.loader # 0 /\ w.col.enabled /\ w.col.external
<1>1. [w EXCEPT !.col = ArmReplayMeasure(ResetCollector(DrainMeasure(@))), !.om.manual = TRUE] = z
  BY DEF Worlds
<1>2. w.col \in Collectors /\ w.om \in Managers /\ u.pass \in Nat
  BY DEF Worlds, Users
<1>3. v = w \/ (asked /\ v \in {a, e})
  <2> DEFINE x == [w EXCEPT !.col = ArmReplayMeasure(ResetCollector(DrainMeasure(@))),
                            !.om.manual = TRUE]
             b == ArmedTail(x, WarmupForwards, FALSE)
  <2>1. v = w \/ (asked /\ v \in {b, ManualEnd(b, "none")})
    BY DEF BeginManualUpdateReplan, ArmReplanTail, ArmedTail, ManualEnd
  <2>2. b = a
    BY <1>1
  <2> HIDE DEF a, b, asked
  <2>3. QED
    BY <2>1, <2>2
<1>4. asked => Captured(w.col)
  BY DEF GraphStands
<1>5. asked => /\ k.enabled /\ k.external /\ k.active /\ k.has
               /\ k.lastGen = NoGeneration /\ k.durable = <<>>
  BY <1>2, <1>4 DEF Captured, Collectors, ArmReplayMeasure, ResetCollector, ResetPassState,
                    DrainMeasure
<1>6. k \in Collectors /\ o \in Managers /\ o.phase = "INFERENCE" /\ o.cfg = w.om.cfg
  BY <1>2, CollectorTypes DEF Managers
<1> HIDE DEF k, o, v, asked
<1>7. /\ z \in Worlds /\ z.om = o /\ z.tm = w.tm /\ z.comp = w.comp /\ z.ops = w.ops
      /\ ~z.err /\ z.col = k
  BY <1>6 DEF Worlds
<1> HIDE DEF z
<1>8. Registered(z)
  BY <1>7 DEF Registered
<1>9. /\ a \in Worlds /\ a.om = o /\ a.tm = w.tm /\ a.col = k /\ Frame(a, z) /\ ~a.err
      /\ a.comp.tail = Arm(WarmupForwards, FALSE)
  BY <1>7, <1>8, ArmedTailStep
<1> HIDE DEF a
<1>10. e.om = [o EXCEPT !.manual = FALSE]
  BY <1>9, EndSteps DEF Frame
<1> HIDE DEF e
<1>11. ~e.om.manual
  BY <1>6, <1>10 DEF Managers
<1>12. v = a /\ asked
  BY <1>3, <1>11 DEF v
<1>13. Recorded(k, 0, t, u.pass)
  <2>1. Ahead(t) = 0 /\ Passes(k.durable, u.pass, LastRead(t)) /\ Len(k.durable) = 0
    BY <1>5, <1>12 DEF Ahead, Passes
  <2>2. QED
    BY <1>2, <1>5, <1>12, <2>1 DEF Recorded, NoGeneration
<1>14. a.comp.tail.state = "MEASURING" /\ a.comp.tail.measure = 0
  BY <1>9 DEF Arm, WarmupForwards
<1>15. w.tm.loader # 0 /\ w.om.cfg.timing # "off"
  BY <1>12 DEF asked
<1>16. Measuring(a, t, u.pass)
  BY <1>6, <1>9, <1>13, <1>14, <1>15 DEF Measuring
<1>17. QED
  BY <1>12, <1>16 DEF v

(* A call on a manager that serves. *)
LEMMA MeasureGoesOn ==
  ASSUME Inv, MeasureInv, Inv', NEW w \in Worlds, Become(w), Onward(w, World),
         om.phase # "NOT_INITIALIZED", ~user.broken, user'.graph = user.graph,
         w.om.blocked = om.blocked, w.om.manual => Measuring(w, user', hist'.from)
  PROVE  MeasureInv'
<1>1. user \in Users /\ user' \in Users /\ World \in Worlds
  BY StandingWorld DEF Inv
<1>2. GraphStands(World, user)
  BY DEF MeasureInv, Measured
<1>3. GraphStands(w, user')
  BY <1>1, <1>2, GraphGoesOn
<1>4. w.om.phase # "NOT_INITIALIZED"
  BY DEF Onward
<1>5. ~w.om.blocked
  BY WorldFields DEF MeasureInv, Measured
<1>6. Measured(w, user', hist'.from)
  BY <1>3, <1>4, <1>5 DEF Measured
<1>7. QED
  BY <1>6, MeasureAfter

LEMMA SameOnward ==
  ASSUME NEW w \in Worlds, NEW v \in Worlds, w.om.phase # "NOT_INITIALIZED",
         v.om.phase = w.om.phase, v.tm.loader = w.tm.loader, v.tm.built = w.tm.built,
         Captured(w.col) => Captured(v.col)
  PROVE  Onward(v, w)
<1>1. w.tm.built \in Nat
  BY DEF Worlds, TensorManagers, TensorRecords
<1>2. QED
  BY <1>1 DEF Onward, Follows

(* A forward runs while nothing is measured; one under capture leaves the  *)
(* graph of the loader in use behind it, whose events were recorded.       *)
LEMMA PassCaptures ==
  ASSUME NEW w \in Worlds, NEW pass \in Nat, NEW capturing \in BOOLEAN
  PROVE  LET v == RunPass(w, pass, capturing)
         IN  /\ Captured(w.col) => Captured(v.col)
             /\ capturing /\ w.om.phase = "INFERENCE" /\ w.tm.loader # 0 => Captured(v.col)
<1> DEFINE timed == w.om.phase = "INFERENCE" /\ w.tm.loader # 0
           e == RecordPass(OnPassStart(w.col, capturing), pass, capturing)
           v == RunPass(w, pass, capturing)
<1>1. v.col = IF timed THEN e ELSE w.col
  BY DEF RunPass, Worlds
<1>2. capturing \/ Captured(w.col) => Captured(e)
  BY CapturedSteps, NoGenerationType DEF Worlds
<1> HIDE DEF e, v
<1>3. QED
  BY <1>1, <1>2 DEF v

LEMMA MeasureOfForward ==
  ASSUME Inv, ServeInv, MeasureInv, Inv', NEW f, NEW capturing \in BOOLEAN,
         Forward(f, capturing)
  PROVE  MeasureInv'
<1> DEFINE s == Serving(World)
           p == RunPass(World, PassNumber, capturing)
           u == UpdateState(p, NoGeneration, f, capturing)
           w == IF s = "raise" THEN Raise(World) ELSE u
<1>1. /\ World \in Worlds /\ Registered(World) /\ HookStands(World.om) /\ ~World.err
      /\ World.om = om /\ World.tm = tm /\ World.comp = comp /\ World.col = col
      /\ om.phase # "NOT_INITIALIZED" /\ ~user.broken /\ ~om.manual
      /\ user \in Users
  BY StandingWorld, WorldFields DEF Forward
<1>2. Become(w)
  BY DEF Forward
<1>3. /\ user'.broken = user.broken
      /\ user'.graph = IF capturing /\ ~w.err THEN tm.loader ELSE user.graph
  <2>1. user' = [user EXCEPT !.pass = PassNumber, !.faults = Faulted(f),
                             !.graph = IF capturing /\ ~w.err THEN tm.loader ELSE @,
                             !.due = FALSE]
    BY DEF Forward
  <2> HIDE DEF w
  <2>2. QED
    BY <1>1, <2>1 DEF Users
<1>4. PassNumber \in Nat
  BY <1>1 DEF PassNumber, Users
<1>5. /\ AtWork(World, hist.halfway, hist.rearmed) /\ Grounded(World)
      /\ hist.halfway \in BOOLEAN /\ hist.rearmed \in BOOLEAN
  BY <1>1, StandingServe
<1>6. CASE s = "raise"
  <2>1. /\ w \in Worlds /\ w.om = World.om /\ w.tm = World.tm /\ w.col = World.col /\ w.err
    BY <1>1, <1>6, StepsStay DEF Raise, Worlds
  <2> HIDE DEF w
  <2>2. Onward(w, World)
    BY <1>1, <2>1, SameOnward
  <2>3. QED
    BY <1>1, <1>2, <1>3, <2>1, <2>2, MeasureGoesOn
<1>7. CASE s # "raise"
  <2>1. /\ p \in Worlds /\ p.om = World.om /\ p.tm = World.tm /\ ~p.err
        /\ p.comp = World.comp /\ p.ops.loader = World.ops.loader
    BY <1>1, <1>4, RunPassStep
  <2>2. /\ Captured(World.col) => Captured(p.col)
        /\ capturing /\ om.phase = "INFERENCE" /\ tm.loader # 0 => Captured(p.col)
    BY <1>1, <1>4, PassCaptures
  <2>3. Upheld(p, World, hist.halfway, hist.rearmed)
    BY <1>1, <1>4, <1>5, <1>7, PassUpheld
  <2>4. w = u
    BY <1>7
  <2> HIDE DEF p, s
  <2>5. Registered(p) /\ HookStands(p.om) /\ p.om.phase # "NOT_INITIALIZED"
    BY <1>1, <2>1 DEF Registered
  <2>6. AtWork(p, hist.halfway, hist.rearmed)
    BY <1>5, <2>3 DEF Upheld
  <2>7. /\ Onward(u, p) /\ ~u.om.manual
    BY <1>1, <1>5, <2>1, <2>5, <2>6, NoGenerationType, UpdateOnward
  <2>8. Moved(u, p, f)
    BY <2>1, <2>5, NoGenerationType, UpdateStateStep
  <2>9. Onward(p, World)
    BY <1>1, <2>1, <2>2, SameOnward
  <2>10. ASSUME capturing
         PROVE  u = p /\ om.phase = "INFERENCE"
    <3>1. om.phase = "INFERENCE" /\ comp.tail.state \in {"IDLE", "DONE"}
      BY <2>10 DEF Forward
    <3>2. u = PassiveTick(p, f)
      BY <1>1, <2>1, <3>1 DEF UpdateState, PassiveTick
    <3>3. Ticked(PassiveTick(p, f), p)
      BY <2>1, <2>5, TickSteps
    <3>4. QED
      BY <1>1, <2>1, <3>1, <3>2, <3>3 DEF Ticked
  <2> HIDE DEF u, w
  <2>11. /\ u \in Worlds /\ u.om.phase # "NOT_INITIALIZED" /\ u.om.blocked = om.blocked
    BY <1>1, <2>1, <2>8 DEF Moved
  <2>12. user' \in Users
    BY DEF Inv
  <2>13. GraphStands(u, user')
    <3>1. CASE user'.graph = user.graph
      <4>1. GraphStands(p, user)
        BY <1>1, <2>1, <2>9, GraphGoesOn DEF MeasureInv, Measured
      <4>2. QED
        BY <1>1, <2>1, <2>7, <2>11, <2>12, <3>1, <4>1, GraphGoesOn
    <3>2. CASE capturing /\ user'.graph = tm.loader
      <4>1. u.tm.loader \in 0..u.tm.built
        BY <2>11 DEF Worlds, TensorManagers, InBounds
      <4>2. u.tm.loader = tm.loader /\ (tm.loader # 0 => Captured(u.col))
        BY <1>1, <2>1, <2>2, <2>10, <3>2
      <4>3. QED
        BY <2>11, <3>2, <4>1, <4>2 DEF GraphStands
    <3>3. QED
      BY <1>3, <3>1, <3>2
  <2>14. ~u.om.blocked
    BY <1>1, <2>11 DEF MeasureInv, Measured
  <2>15. Measured(u, user', hist'.from)
    BY <2>7, <2>11, <2>13, <2>14 DEF Measured
  <2>16. QED
    BY <1>2, <2>4, <2>15, MeasureAfter DEF w
<1>8. QED
  BY <1>6, <1>7

LEMMA MeasureOfRequest ==
  ASSUME Inv, ServeInv, MeasureInv, Inv', NEW manual \in BOOLEAN,
         RequestStrategyReplan(manual)
  PROVE  MeasureInv'
<1> DEFINE b == BeginManualUpdateReplan(World)
           w == IF manual THEN b ELSE RequestPassiveReplan(World)
<1>1. /\ World \in Worlds /\ Registered(World) /\ ~World.err
      /\ World.om = om /\ World.tm = tm /\ om \in Managers
      /\ om.phase = "INFERENCE" /\ ~user.broken /\ ~om.manual
      /\ manual => user.graph = tm.loader
      /\ user \in Users /\ user' \in Users /\ user.pass \in Nat
  BY StandingWorld, WorldFields DEF RequestStrategyReplan, Inv, Worlds
<1>2. Become(w)
  BY DEF RequestStrategyReplan
<1>3. user' = [user EXCEPT !.due = FALSE]
  BY DEF RequestStrategyReplan
<1>4. w.om.manual => hist'.from = user.pass
  <2>1. hist' = [hist EXCEPT !.rearmed = @ \/ comp.tail.state = "FAILED",
                             !.from = IF w.om.manual THEN user.pass ELSE @]
    BY DEF RequestStrategyReplan
  <2> HIDE DEF w
  <2>2. QED
    BY <2>1, StandingWorld DEF Histories
<1>5. Requested(w, World)
  BY <1>1, RequestPassiveStep, BeginManualStep
<1>6. ~manual => w.om = om
  BY <1>1, RequestPassiveStep
<1>7. manual => w = b
  OBVIOUS
<1> HIDE DEF w, b
<1>8. /\ user'.pass = user.pass /\ ~user'.due /\ user'.hooked = user.hooked
      /\ user'.graph = user.graph
  BY <1>1, <1>3 DEF Users
<1>9. w.om.manual => Measuring(w, user', hist'.from)
  <2>1. SUFFICES ASSUME w.om.manual PROVE Measuring(w, user', hist'.from)
    OBVIOUS
  <2>2. w = b /\ user.graph = tm.loader
    BY <1>1, <1>6, <1>7, <2>1
  <2>3. GraphStands(World, user)
    BY DEF MeasureInv, Measured
  <2>4. Measuring(b, user', user.pass)
    BY <1>1, <1>8, <2>1, <2>2, <2>3, RequestMeasures DEF b
  <2>5. QED
    BY <1>4, <2>1, <2>2, <2>4
<1>10. PICK m \in BOOLEAN : w.om = [om EXCEPT !.manual = m]
  BY <1>1, <1>5 DEF Requested
<1>11. w.om.phase = "INFERENCE" /\ w.om.blocked = om.blocked
  BY <1>1, <1>10 DEF Managers
<1>12. w \in Worlds /\ Onward(w, World)
  BY <1>1, <1>5, <1>11 DEF Requested, Frame, Carries, Onward, Follows
<1>13. QED
  BY <1>1, <1>2, <1>8, <1>9, <1>11, <1>12, MeasureGoesOn

LEMMA MeasureOfReplay ==
  ASSUME Inv, ServeInv, MeasureInv, Inv', Replay
  PROVE  MeasureInv'
<1> DEFINE pass == user.pass + 1
           c == RecordReplay(col, pass)
           s == [World EXCEPT !.col = c]
           fin == FinalizeReplayPass(c, pass, FALSE)
           t == UpdateOffloadTiming(s, pass, FALSE).w
           w == IF user.hooked THEN t ELSE s
           k == IF user.hooked THEN fin.col ELSE c
<1>1. /\ Become(w) /\ om.phase = "INFERENCE" /\ ~user.broken /\ om.manual /\ ~user.due
      /\ user' = [user EXCEPT !.pass = @ + 1, !.due = TRUE] /\ hist' = hist
  BY StandingWorld, WorldFields DEF Replay, Worlds
<1>2. /\ World \in Worlds /\ World.om = om /\ World.tm = tm /\ World.comp = comp
      /\ World.col = col /\ user \in Users /\ user' \in Users /\ hist.from \in Nat
      /\ col \in Collectors /\ pass \in Nat /\ pass \in Int /\ tm.on
      /\ comp.tail.measure \in Nat
  BY <1>1, StandingWorld, StandingServe, WorldFields
  DEF Inv, Worlds, Histories, CompiledPaths, Tails
<1>3. /\ user'.pass = user.pass + 1 /\ user'.due /\ user'.hooked = user.hooked
      /\ user'.graph = user.graph
  BY <1>1, <1>2 DEF Users
<1>4. Measuring(World, user, hist.from)
  BY <1>1, WorldFields DEF MeasureInv, Measured
<1>5. Recorded(col, comp.tail.measure, user, hist.from)
  BY <1>2, <1>4 DEF Measuring
<1>6. Recorded(k, comp.tail.measure, user', hist.from)
  BY <1>1, <1>2, <1>3, <1>5, RecordedSteps
<1>7. c \in Collectors
  BY <1>2, PassTypes, NoGenerationType
<1>8. Captured(col) => Captured(c)
  BY <1>2 DEF Captured, RecordReplay, Collectors
<1> HIDE DEF c, pass
<1>9. /\ s \in Worlds /\ s.om = om /\ s.tm = tm /\ s.comp = comp /\ s.col = c
  BY <1>2, <1>7 DEF Worlds
<1> HIDE DEF s
<1>10. t \in Worlds /\ t.om = om /\ t.tm = tm /\ t.comp = comp
  BY <1>2, <1>9, TimingStep
<1>11. t.col = fin.col
  <2>1. om.cfg.timing # "off" /\ tm.loader # 0
    BY <1>2, <1>4 DEF Measuring
  <2>2. t = [s EXCEPT !.col = FinalizeReplayPass(s.col, pass, FALSE).col]
    BY <1>2, <1>9, <2>1 DEF UpdateOffloadTiming
  <2> HIDE DEF t
  <2>3. QED
    BY <1>9, <2>2 DEF Worlds
<1>12. Captured(c) => Captured(fin.col)
  BY <1>2, <1>7, CapturedSteps
<1> HIDE DEF t, fin
<1>13. w \in Worlds /\ w.om = om /\ w.tm = tm /\ w.comp = comp /\ w.col = k
  BY <1>9, <1>10, <1>11
<1>14. Captured(col) => Captured(k)
  BY <1>8, <1>12
<1> HIDE DEF w, k
<1>15. Measuring(w, user', hist.from)
  BY <1>2, <1>4, <1>6, <1>13 DEF Measuring
<1>16. Onward(w, World)
  BY <1>1, <1>2, <1>13, <1>14, SameOnward
<1>17. QED
  BY <1>1, <1>3, <1>13, <1>15, <1>16, MeasureGoesOn

LEMMA MeasureOfUpdate ==
  ASSUME Inv, ServeInv, MeasureInv, Inv', NEW gen \in Int, NEW f,
         NEW capturing \in BOOLEAN, f # "swap", UpdateAfterReplay(gen, f, capturing)
  PROVE  MeasureInv'
<1> DEFINE w == UpdateState(World, gen, f, capturing)
<1>1. /\ World \in Worlds /\ Registered(World) /\ ~World.err
      /\ World.om = om /\ World.tm = tm
      /\ om.manual /\ ~user.broken /\ user.due /\ hist' = hist /\ hist.from \in Nat
      /\ user' = [user EXCEPT !.due = FALSE, !.faults = Faulted(f)]
      /\ gen \in {NoGeneration} \cup (IF user.hooked THEN {user.pass} ELSE {})
      /\ user \in Users /\ user' \in Users
  BY StandingWorld, WorldFields DEF UpdateAfterReplay, Inv, Histories
<1>2. Become(w)
  BY DEF UpdateAfterReplay
<1>3. /\ user'.pass = user.pass /\ ~user'.due /\ user'.hooked = user.hooked
      /\ user'.graph = user.graph
  BY <1>1 DEF Users
<1>4. Measuring(World, user, hist.from)
  BY <1>1 DEF MeasureInv, Measured
<1>5. om.phase = "INFERENCE"
  BY <1>1, <1>4 DEF Measuring
<1>6. /\ HookStands(World.om) /\ AtWork(World, hist.halfway, hist.rearmed) /\ tm.on
      /\ hist.halfway \in BOOLEAN /\ hist.rearmed \in BOOLEAN
  BY <1>1, <1>5, StandingWorld, StandingServe
<1>7. w.om.manual => Measuring(w, user', hist.from)
  BY <1>1, <1>3, <1>4, <1>6, CountedIsRecorded
<1>8. Onward(w, World)
  BY <1>1, <1>5, <1>6, UpdateOnward
<1>9. Moved(w, World, f)
  BY <1>1, <1>5, <1>6, UpdateStateStep
<1> HIDE DEF w
<1>10. w \in Worlds /\ w.om.blocked = om.blocked
  BY <1>1, <1>9 DEF Moved
<1>11. QED
  BY <1>1, <1>2, <1>3, <1>5, <1>7, <1>8, <1>10, MeasureGoesOn

(* Steps that leave what is measured alone. *)
LEMMA MeasureUnmoved ==
  ASSUME Inv, MeasureInv, UNCHANGED <<comp, col, user, hist>>,
         om'.phase = om.phase, om'.manual = om.manual, om'.blocked = om.blocked,
         om.manual => om'.cfg = om.cfg, tm'.loader = tm.loader, tm'.built = tm.built
  PROVE  MeasureInv'
<1>1. /\ World'.om = om' /\ World'.tm = tm' /\ World'.comp = comp /\ World'.col = col
  BY DEF World
<1>2. GraphStands(World', user)
  BY <1>1, WorldFields DEF MeasureInv, Measured, GraphStands
<1>3. om.manual => Measuring(World', user, hist.from)
  BY <1>1, WorldFields DEF MeasureInv, Measured, Measuring
<1>4. Measured(World', user, hist.from)
  BY <1>1, <1>2, <1>3, WorldFields DEF MeasureInv, Measured
<1>5. QED
  BY <1>4 DEF MeasureInv

LEMMA MeasureOfRest ==
  ASSUME Inv, MeasureInv, Suspend \/ Resume \/ ForwardRaises \/ UNCHANGED vars
  PROVE  MeasureInv'
<1>1. tm \in TensorManagers
  BY StandingWorld, WorldFields DEF Worlds
<1>2. tm'.loader = tm.loader /\ tm'.built = tm.built
  BY <1>1 DEF Suspend, Resume, ForwardRaises, vars, TensorManagers, TensorRecords
<1>3. UNCHANGED <<om, comp, col, user, hist>>
  BY DEF Suspend, Resume, ForwardRaises, vars
<1>4. QED
  BY <1>2, <1>3, MeasureUnmoved

LEMMA MeasureOfLoadProfile ==
  ASSUME Inv, MeasureInv, Inv', NEW c \in Configs, LoadProfile(c)
  PROVE  MeasureInv'
<1> DEFINE o == [om EXCEPT !.cfg = c]
           s == [World EXCEPT !.om = o]
           i == InitializeTensorManager(s, c, "none")
           u == IF tm.on THEN s ELSE i
           w == [u EXCEPT !.tm.restored = TRUE]
<1>1. /\ World \in Worlds /\ World.om = om /\ om \in Managers
      /\ om.phase = "NOT_INITIALIZED" /\ c \in ConfigType /\ user \in Users
  BY StandingWorld, ConfigsAssumption, WorldFields DEF LoadProfile, Worlds
<1>2. [World EXCEPT !.om.cfg = c] = s
  BY <1>1 DEF Worlds
<1>3. UNCHANGED <<user, hist>> /\ Become(w) /\ ~om.blocked
  <2>1. SetConfig(World, c) = s
    BY <1>1, <1>2, StandingWorld, StepsStay DEF LoadProfile, SetConfig
  <2> HIDE DEF s
  <2>2. QED
    BY <2>1, WorldFields DEF LoadProfile
<1>4. o \in Managers /\ o.phase = om.phase /\ o.manual = om.manual /\ o.blocked = om.blocked
  BY <1>1 DEF Managers
<1> HIDE DEF o
<1>5. s \in Worlds /\ s.om = o /\ s.tm = tm
  BY <1>1, <1>4, WorldFields DEF Worlds
<1> HIDE DEF s
<1>6. Initialized(i, s, c)
  BY <1>1, <1>5, InitializeTensorManagerStep
<1> HIDE DEF i
<1>7. u \in Worlds /\ u.om = o
  BY <1>5, <1>6 DEF Initialized
<1> HIDE DEF u
<1>8. w.om = u.om
  BY <1>7, RestoredStep
<1> HIDE DEF w
<1>9. om'.phase = om.phase /\ om'.manual = om.manual /\ om'.blocked = om.blocked
  BY <1>3, <1>4, <1>7, <1>8 DEF Become
<1>10. user.graph = 0 /\ ~om.manual
  BY <1>1, WorldFields DEF MeasureInv, Measured, GraphStands
<1>11. World'.om = om' /\ World'.tm = tm' /\ tm'.built \in Nat
  <2>1. World' \in Worlds /\ World'.tm = tm' /\ World'.om = om'
    BY DEF Inv, Sound, World
  <2>2. QED
    BY <2>1 DEF Worlds, TensorManagers, TensorRecords
<1>12. Measured(World', user, hist.from)
  BY <1>1, <1>3, <1>9, <1>10, <1>11 DEF Measured, GraphStands
<1>13. QED
  BY <1>3, <1>12 DEF MeasureInv

(* A session begins with nothing measured.                                 *)
LEMMA MeasureBegins ==
  ASSUME NEW w, NEW x \in Worlds, NEW u \in Users, NEW t \in Users, NEW from,
         SetUp(w, x), ~x.om.manual, GraphStands(x, u), t.graph = u.graph,
         t.broken = w.err \/ (w.err => w.om.phase = "NOT_INITIALIZED"),
         w.om.phase = "NOT_INITIALIZED" => x.om.phase = "NOT_INITIALIZED"
  PROVE  Measured(w, t, from)
<1>1. /\ w \in Worlds /\ ~w.om.manual /\ (w.om.blocked => w.err)
      /\ x.om.phase # "NOT_INITIALIZED" =>
           /\ w.tm.built >= x.tm.built
           /\ ~w.err /\ w.om.phase = "INFERENCE" => w.tm.loader > x.tm.built
      /\ ~w.err => w.om.phase # "NOT_INITIALIZED"
  BY DEF SetUp, Sound, Settled, Worlds, Managers
<1>2. /\ w.tm.built \in Nat /\ x.tm.built \in Nat /\ w.tm.loader \in Nat
      /\ u.graph \in Nat /\ w.err \in BOOLEAN /\ t.broken \in BOOLEAN
  BY <1>1 DEF Worlds, TensorManagers, TensorRecords, Users
<1>3. GraphStands(w, t)
  BY <1>1, <1>2 DEF GraphStands
<1>4. QED
  BY <1>1, <1>2, <1>3 DEF Measured

LEMMA MeasureOfOffload ==
  ASSUME Inv, MeasureInv, Inv', NEW c \in Configs, NEW f, Offload(c, f)
  PROVE  MeasureInv'
<1> DEFINE o == [om EXCEPT !.manual = FALSE]
           m == [World EXCEPT !.om = o]
           w == OffloadModel(World, c, f)
<1>1. /\ World \in Worlds /\ World.om = om /\ om \in Managers /\ c \in ConfigType
      /\ World.tm = tm /\ World.col = col
      /\ user \in Users /\ user' \in Users /\ Sound(World) /\ ~World.err
  BY StandingWorld, ConfigsAssumption, WorldFields DEF Inv, Worlds
<1>2. Become(w)
  BY DEF Offload
<1>3. user' = [user EXCEPT !.faults = Faulted(f), !.due = FALSE,
                           !.broken = IF Acceptable(c) THEN w.err ELSE @]
  BY DEF Offload
<1>4. /\ o \in Managers /\ o.phase = om.phase /\ ~o.manual /\ o.blocked = om.blocked
      /\ o.hooks = om.hooks /\ o.handle = om.handle /\ o.forwards = om.forwards
      /\ [o EXCEPT !.manual = FALSE] = o
  BY <1>1 DEF Managers
<1>5. w = OffloadModel(m, c, f)
  <2>1. [World EXCEPT !.om.manual = FALSE] = m
    BY <1>1 DEF Worlds
  <2>2. [m EXCEPT !.om.manual = FALSE] = m
    BY <1>1, <1>4 DEF Worlds
  <2> HIDE DEF m
  <2>3. QED
    BY <2>1, <2>2 DEF OffloadModel
<1> HIDE DEF o
<1>6. /\ m \in Worlds /\ m.om = o /\ m.tm = tm /\ m.ops = ops /\ m.col = col /\ ~m.err
  BY <1>1, <1>4, WorldFields DEF Worlds
<1> HIDE DEF m
<1>7. Sound(m)
  BY <1>1, <1>4, <1>6, WorldFields DEF Sound, Bare, Registered, HookFollows
<1>8. Offloaded(w, m, c)
  BY <1>1, <1>5, <1>6, <1>7, OffloadModelStep
<1>9. GraphStands(World, user) /\ (om.blocked => om.phase = "NOT_INITIALIZED" \/ user.broken)
  BY <1>1 DEF MeasureInv, Measured
<1>10. GraphStands(m, user)
  BY <1>1, <1>4, <1>6, <1>9 DEF GraphStands
<1> HIDE DEF w
<1>11. user'.graph = user.graph /\ user'.broken = IF Acceptable(c) THEN w.err ELSE user.broken
  BY <1>1, <1>3 DEF Users
<1>12. CASE Acceptable(c)
  <2>1. SetUp(w, m) /\ user'.broken = w.err
    BY <1>8, <1>11, <1>12 DEF Offloaded
  <2>2. w.om.phase = "NOT_INITIALIZED" => m.om.phase = "NOT_INITIALIZED"
    BY <2>1 DEF SetUp, Settled
  <2>3. Measured(w, user', hist'.from)
    BY <1>1, <1>4, <1>6, <1>10, <1>11, <2>1, <2>2, MeasureBegins
  <2>4. QED
    BY <1>2, <2>3, MeasureAfter
<1>13. CASE ~Acceptable(c)
  <2>1. /\ w.tm = tm /\ w.col = col /\ w.om.phase = om.phase /\ w.om.blocked = om.blocked
        /\ ~w.om.manual /\ user'.broken = user.broken
    BY <1>4, <1>6, <1>8, <1>11, <1>13 DEF Offloaded, SameStation
  <2>2. GraphStands(w, user')
    BY <1>1, <1>9, <1>11, <2>1 DEF GraphStands
  <2>3. Measured(w, user', hist'.from)
    BY <1>9, <2>1, <2>2 DEF Measured
  <2>4. QED
    BY <1>2, <2>3, MeasureAfter
<1>14. QED
  BY <1>12, <1>13

LEMMA MeasureOfRelease ==
  ASSUME Inv, MeasureInv, Inv', NEW f, ReleaseAll(f)
  PROVE  MeasureInv'
<1> DEFINE w == Release(World, f)
<1>1. Become(w)
  BY DEF ReleaseAll
<1>2. user' = [user EXCEPT !.broken = w.err, !.due = FALSE, !.faults = Faulted(f),
                           !.pass = 0, !.graph = 0]
  BY DEF ReleaseAll
<1>3. Released(w, World)
  BY StandingWorld, ReleaseStep
<1> HIDE DEF w
<1>4. user'.broken = w.err /\ user'.graph = 0
  BY <1>2, StandingWorld DEF Users
<1>5. w \in Worlds /\ w.tm.built \in Nat
  BY <1>3 DEF Released, Sound, Worlds, TensorManagers, TensorRecords
<1>6. ~w.om.manual
  BY <1>3, WorldFields DEF Released, MeasureInv, Measured
<1>7. GraphStands(w, user')
  BY <1>4, <1>5 DEF GraphStands
<1>8. Measured(w, user', hist'.from)
  BY <1>3, <1>4, <1>6, <1>7 DEF Measured, Released
<1>9. QED
  BY <1>1, <1>8, MeasureAfter

(* A manager that has not begun is set up. *)
LEMMA MeasureOfSetUp ==
  ASSUME Inv, MeasureInv, Inv', NEW w, Become(w), SetUp(w, World),
         om.phase = "NOT_INITIALIZED", user'.graph = user.graph,
         user'.broken = w.err \/ (w.err => w.om.phase = "NOT_INITIALIZED")
  PROVE  MeasureInv'
<1>1. World \in Worlds /\ World.om = om /\ user \in Users /\ user' \in Users
  BY StandingWorld, WorldFields DEF Inv
<1>2. GraphStands(World, user) /\ ~World.om.manual
  BY <1>1 DEF MeasureInv, Measured
<1>3. Measured(w, user', hist'.from)
  BY <1>1, <1>2, MeasureBegins
<1>4. QED
  BY <1>3, MeasureAfter

LEMMA InitMeasure == Init => MeasureInv
<1> SUFFICES ASSUME Init PROVE MeasureInv
  OBVIOUS
<1>1. /\ om.phase = "NOT_INITIALIZED" /\ ~om.manual /\ ~om.blocked
      /\ user.graph = 0 /\ tm.built = 0
  BY DEF Init, NoTensorManager
<1>2. QED
  BY <1>1, WorldFields DEF MeasureInv, Measured, GraphStands

LEMMA NextMeasure == Inv /\ ServeInv /\ MeasureInv /\ [Next]_vars => MeasureInv'
<1> SUFFICES ASSUME Inv, ServeInv, MeasureInv, [Next]_vars PROVE MeasureInv'
  OBVIOUS
<1>0. Inv'
  BY NextInv
<1>1. ASSUME NEW f \in DriveFaults, Forward(f, FALSE) PROVE MeasureInv'
  BY <1>0, <1>1, MeasureOfForward
<1>2. CASE Forward("none", TRUE)
  BY <1>0, <1>2, MeasureOfForward
<1>3. CASE ForwardRaises \/ Suspend \/ Resume \/ UNCHANGED vars
  BY <1>3, MeasureOfRest
<1>4. ASSUME NEW c \in Configs, NEW f \in SetupFaults, Offload(c, f) PROVE MeasureInv'
  BY <1>0, <1>4, MeasureOfOffload
<1>5. ASSUME NEW c \in Configs, LoadProfile(c) PROVE MeasureInv'
  BY <1>0, <1>5, MeasureOfLoadProfile
<1>6. ASSUME NEW c \in Configs, NEW f \in SetupFaults, FollowShm(c, f) PROVE MeasureInv'
  <2> DEFINE w == InitializeFromShm(World, c, f)
  <2>1. /\ Become(w) /\ om.phase = "NOT_INITIALIZED" /\ ~tm.on
        /\ user' = [user EXCEPT !.faults = Faulted(f), !.broken = w.err]
    BY <1>6 DEF FollowShm
  <2>2. SetUp(w, World)
    BY <2>1, ConfigsAssumption, StandingWorld, WorldFields, FollowStep
  <2> HIDE DEF w
  <2>3. user'.broken = w.err /\ user'.graph = user.graph
    BY <2>1, StandingWorld DEF Users
  <2>4. QED
    BY <1>0, <2>1, <2>2, <2>3, MeasureOfSetUp
<1>7. ASSUME NEW c \in Configs, NEW f \in SetupFaults, NEW g \in ReleaseFaults,
             TakeOver(c, f, g)
      PROVE  MeasureInv'
  <2> DEFINE w == OffloadFromState(World, c, f, g)
  <2>1. /\ Become(w) /\ om.phase = "NOT_INITIALIZED" /\ ~tm.on
        /\ user' = [user EXCEPT !.faults = Faulted(f)]
    BY <1>7 DEF TakeOver
  <2>2. TakenOver(w, World)
    BY <2>1, ConfigsAssumption, StandingWorld, WorldFields, OffloadFromStateStep
  <2> HIDE DEF w
  <2>3. SetUp(w, World) /\ (w.err => w.om.phase = "NOT_INITIALIZED")
    BY <2>1, <2>2, WorldFields DEF TakenOver
  <2>4. user'.graph = user.graph
    BY <2>1, StandingWorld DEF Users
  <2>5. QED
    BY <1>0, <2>1, <2>3, <2>4, MeasureOfSetUp
<1>8. ASSUME NEW manual \in BOOLEAN, RequestStrategyReplan(manual) PROVE MeasureInv'
  BY <1>0, <1>8, MeasureOfRequest
<1>9. CASE Replay
  BY <1>0, <1>9, MeasureOfReplay
<1>10. ASSUME NEW gen \in {NoGeneration, user.pass}, NEW f \in ReplanFaults,
              NEW capturing \in BOOLEAN, UpdateAfterReplay(gen, f, capturing)
       PROVE  MeasureInv'
  <2>1. gen \in Int /\ f # "swap"
    BY StandingWorld, NoGenerationType DEF ReplanFaults
  <2>2. QED
    BY <1>0, <1>10, <2>1, MeasureOfUpdate
<1>11. ASSUME NEW f \in ReleaseFaults, ReleaseAll(f) PROVE MeasureInv'
  BY <1>0, <1>11, MeasureOfRelease
<1>12. QED
  BY <1>1, <1>2, <1>3, <1>4, <1>5, <1>6, <1>7, <1>8, <1>9, <1>10, <1>11 DEF Next

LEMMA MeasureMeansBacked == Inv /\ MeasureInv => MeasureBackedByReplays
<1> SUFFICES ASSUME Inv, MeasureInv, om.manual
             PROVE  /\ \A i, j \in 1..Len(col.durable) :
                         i # j => col.durable[i] # col.durable[j]
                    /\ \A i \in 1..Len(col.durable) : col.durable[i] > hist.from
                    /\ Len(col.durable) = comp.tail.measure
                                          + (IF user.due /\ user.hooked THEN 1 ELSE 0)
  BY DEF MeasureBackedByReplays
<1>1. Recorded(col, comp.tail.measure, user, hist.from)
  BY WorldFields DEF MeasureInv, Measured, Measuring
<1>2. /\ Passes(col.durable, hist.from, LastRead(user))
      /\ Len(col.durable) = comp.tail.measure + Ahead(user)
  BY <1>1 DEF Recorded
<1>3. /\ hist.from \in Nat /\ col.durable \in Seq(Nat)
  BY StandingWorld, WorldFields DEF Histories, Worlds, Collectors
<1>4. QED
  BY <1>2, <1>3 DEF Passes, Ahead

(* The durations a captured graph is replanned from are those of the       *)
(* replays that were counted, one pass for each and none of before the     *)
(* request, whoever publishes them, whatever fails and whatever was called *)
(* before.                                                                 *)
THEOREM MeasureIsBacked == Spec => []MeasureBackedByReplays
<1>1. Init => Inv /\ ServeInv /\ MeasureInv
  BY InitInv, InitServe, InitMeasure
<1>2. Inv /\ ServeInv /\ MeasureInv /\ [Next]_vars => (Inv /\ ServeInv /\ MeasureInv)'
  BY NextInv, NextServe, NextMeasure
<1>3. Inv /\ ServeInv /\ MeasureInv => MeasureBackedByReplays
  BY MeasureMeansBacked
<1>4. QED
  BY <1>1, <1>2, <1>3, PTL DEF Spec
=============================================================================
