---------------------------- MODULE StateAdoption ----------------------------
(***************************************************************************)
(* Adopting a saved plan: state_handler.py carries out, one storage after  *)
(* the other, the plan that StateTransition computes, before any loader is *)
(* built.  A step that fails leaves what was done before it; the caller    *)
(* may plan again from there, with the memory that is free by then.        *)
(*                                                                         *)
(*   place      where every storage lies: [dev, n, pinned]                 *)
(*   adoption   the plan under way: its capacities and what its loader     *)
(*              takes, the moves left, the storages left to pin, and the   *)
(*              host memory taken since it was made                        *)
(***************************************************************************)
EXTENDS StateTransition

VARIABLES place, adoption
adoptionVars == <<place, adoption>>

NoAdoption == [status |-> "none", cap |-> [host |-> 0, gpu |-> 0], spec |-> NoSpec,
               moves |-> {}, todo |-> << >>, pins |-> {}, host |-> 0]

(* plan_state_adoption: refuses a profile that contradicts the model, and a
   transition that does not fit what is free *)
Adoption(target, plan, cap) ==
  IF target.err # "none" THEN [NoAdoption EXCEPT !.status = "contradictory", !.cap = cap]
  ELSE [NoAdoption EXCEPT !.status = CASE plan.err = "none" -> "running"
                                           [] plan.err = "limit" -> "gave up" [] OTHER -> "refused",
          !.cap = cap,
          !.spec = target.spec, !.moves = Migrations(place, target.target),
          !.todo = plan.moves, !.pins = plan.pins]
PlanFor(target, cap) ==
  Adoption(target, PlanStateTransition(place, target.target, target.spec, cap), cap)
PlanStateAdoption(profile, storage, size, pinning, cap) ==
  /\ adoption.status # "running"
  /\ adoption' = PlanFor(TargetFromProfile(place, profile, storage, size, pinning), cap)
  /\ UNCHANGED place

(* _execute_state_adoption_migrations: copy, rebind every tensor of the
   storage, and only then synchronise *)
Moved(m) == [place EXCEPT ![m.id] = [dev |-> m.to, n |-> m.n, pinned |-> FALSE]]
Migrate ==
  /\ adoption.status = "running" /\ adoption.todo # << >>
  /\ LET m == Head(adoption.todo)
     IN  /\ place' = Moved(m)
         /\ adoption' = [adoption EXCEPT !.todo = Tail(@), !.host = @ + HostGain(m)]
Partial == [NoAdoption EXCEPT !.status = "partial"]
MigrateFails ==
  /\ adoption.status = "running" /\ adoption.todo # << >>
  /\ place' \in {place, Moved(Head(adoption.todo))}
  /\ adoption' = Partial

(* _execute_state_adoption_pinning, once every storage is in place *)
PinNext ==
  /\ adoption.status = "running" /\ adoption.todo = << >> /\ adoption.pins # {}
  /\ LET s == Min(adoption.pins)
     IN  /\ place[s].dev = "cpu"
         /\ place' = [place EXCEPT ![s].pinned = TRUE]
         /\ adoption' = [adoption EXCEPT !.pins = @ \ {s}]
PinFails ==
  /\ adoption.status = "running" /\ adoption.todo = << >> /\ adoption.pins # {}
  /\ adoption' = Partial /\ UNCHANGED place

(* _validate_adopted_placement: what restore_adopted_state asks for *)
OnItsDevice(profile, storage, size, pinning) ==
  LET target == TargetFromProfile(place, profile, storage, size, pinning)
  IN  target.err = "none" /\ \A s \in DOMAIN place : place[s].dev = target.target[s].dev
Established(profile, storage, size, pinning) ==
  LET target == TargetFromProfile(place, profile, storage, size, pinning)
  IN  /\ target.err = "none"
      /\ \A s \in DOMAIN place : /\ place[s].dev = target.target[s].dev
                                 /\ target.target[s].pinned => place[s].pinned

-----------------------------------------------------------------------------
(* What the next step of the plan takes while the source is still there, and
   what is left for the loader once all is in place, is free: the free memory
   was looked at once, before the first move. *)
Transient(m, host, cap) ==
  IF m.to = "cpu" THEN host + m.n <= cap.host ELSE m.n - host <= cap.gpu
LoaderFits(spec, host, cap) == spec.extra - host <= cap.gpu
MigrationsFit ==
  adoption.status = "running" =>
    IF adoption.todo # << >> THEN Transient(Head(adoption.todo), adoption.host, adoption.cap)
    ELSE /\ LoaderFits(adoption.spec, adoption.host, adoption.cap)
         /\ \A s \in adoption.spec.copies \cap adoption.pins :
              adoption.host + place[s].n <= adoption.cap.host

(* A transition is refused only when no order of its moves fits: neither the
   choice of the largest move that fits nor what remains to be tried misses
   one. *)
Feasible(order, cap) == \A k \in DOMAIN order : Transient(order[k], Balances(order)[k-1], cap)
HostHolds(spec, host, cap) ==
  /\ \A s \in spec.copies : host + place[s].n <= cap.host
  /\ \A i \in DOMAIN spec.allocs : host + Allocated(spec, i) + spec.allocs[i].temp <= cap.host
Possible(order, spec, cap) ==
  LET host == Balances(order)[Len(order)]
  IN  Feasible(order, cap) /\ LoaderFits(spec, host, cap) /\ HostHolds(spec, host, cap)
RefusedOnlyIfImpossible ==
  adoption.status = "refused" =>
    \A order \in SetToSeqs(adoption.moves) : ~Possible(order, adoption.spec, adoption.cap)
=============================================================================
