--------------------------- MODULE StateTransition ---------------------------
(* state_transition.py and state_adoption.py: from where every storage lies now
   and where a saved plan wants it, the order in which the storages are moved
   between the host and the GPU, and whether the memory this takes is there.

   A storage is [dev, n, pinned] under its id, a natural that also stands for
   its sorted names; a move is [id, to, n].  All amounts are relative to what
   is in use when the plan is made, and all of a capacity is what is then
   free: what one side gains the other side loses, so the host's balance
   alone is kept. *)
EXTENDS Integers, FiniteSets, Sequences, SequencesExt, FiniteSetsExt

CONSTANT SearchStateLimit           \* _SEARCH_STATE_LIMIT

SumBytes(S, n(_)) == MapThenSumSet(n, S)
HostGain(m) == IF m.to = "cpu" THEN m.n ELSE -m.n
ById(moves) ==
  LET ids == {m.id : m \in moves}
  IN  [i \in 1..Cardinality(ids) |-> CHOOSE m \in moves : Cardinality({j \in ids : j <= m.id}) = i]

(* max(candidates, key = (nbytes, names)) *)
Largest(moves) ==
  CHOOSE m \in moves : \A o \in moves : o.n < m.n \/ (o.n = m.n /\ o.id <= m.id)

(* _find_migration_order: depth first over the sets of moves that remain; a
   set is entered once, since what remains determines both balances, so the
   search is over after one step for every set *)
Enterable(top, visited, cap) ==
  ById({m \in top.remaining :
          /\ top.remaining \ {m} \notin visited
          /\ IF m.to = "gpu" THEN m.n - top.host <= cap.gpu ELSE top.host + m.n <= cap.host})
Entered(top, next) ==
  [i \in DOMAIN next |-> [remaining |-> top.remaining \ {next[i]}, host |-> top.host + HostGain(next[i]),
                          order |-> Append(top.order, next[i])]]
Stop(err, order) == [frontier |-> << >>, visited |-> {}, found |-> [err |-> err, order |-> order]]
Pushed(s, rest, entered) ==
  [s EXCEPT !.frontier = rest \o entered,
            !.visited = @ \cup {entered[i].remaining : i \in DOMAIN entered}]
Visit(s, top, rest, extra, cap) ==
  IF top.remaining = {}
  THEN IF extra - top.host <= cap.gpu THEN Stop("none", top.order) ELSE [s EXCEPT !.frontier = rest]
  ELSE IF Cardinality(s.visited) >= SearchStateLimit THEN Stop("limit", << >>)
  ELSE Pushed(s, rest, Entered(top, Enterable(top, s.visited, cap)))
SearchStep(s, extra, cap) ==
  IF s.frontier = << >> THEN s ELSE Visit(s, Last(s.frontier), Front(s.frontier), extra, cap)
Search(moves, extra, cap) ==
  LET at[k \in 0..Cardinality(SUBSET moves)] ==
        IF k = 0 THEN [frontier |-> <<[remaining |-> moves, host |-> 0, order |-> << >>]>>,
                       visited |-> {moves}, found |-> [err |-> "capacity", order |-> << >>]]
        ELSE SearchStep(at[k-1], extra, cap)
  IN  at
FindMigrationOrder(moves, extra, cap) == Search(moves, extra, cap)[Cardinality(SUBSET moves)].found

(* _order_migrations: the largest move of the direction that is short of room,
   and the search when the choice made so far leaves none that fits *)
Fitting(pending, to, host, cap) ==
  {m \in pending : m.to = to /\ IF to = "gpu" THEN m.n - host <= cap.gpu ELSE host + m.n <= cap.host}
Left(pending, to) == SumBytes({m \in pending : m.to = to}, LAMBDA m : m.n)
Candidates(demotions, promotions, pending, host, extra, cap) ==
  IF Left(pending, "gpu") - host + extra > cap.gpu /\ demotions # {} THEN demotions
  ELSE IF host + Left(pending, "cpu") > cap.host /\ promotions # {} THEN promotions
  ELSE IF promotions # {} THEN promotions ELSE demotions
Searched(found) == [err |-> found.err, order |-> found.order, searched |-> TRUE]
FittingChoices(s, extra, cap) ==
  Candidates(Fitting(s.pending, "cpu", s.host, cap), Fitting(s.pending, "gpu", s.host, cap),
             s.pending, s.host, extra, cap)
Take(m, s) == [pending |-> s.pending \ {m}, host |-> s.host + HostGain(m), order |-> Append(s.order, m)]
GreedyStep(s, extra, cap) ==
  IF FittingChoices(s, extra, cap) = {} THEN s ELSE Take(Largest(FittingChoices(s, extra, cap)), s)
Greedy(moves, extra, cap) ==
  LET at[k \in 0..Cardinality(moves)] ==
        IF k = 0 THEN [pending |-> moves, host |-> 0, order |-> << >>] ELSE GreedyStep(at[k-1], extra, cap)
  IN  at
GreedyOrder(moves, extra, cap) ==
  LET last == Greedy(moves, extra, cap)[Cardinality(moves)]
  IN  IF last.pending = {} THEN [err |-> "none", order |-> last.order, searched |-> FALSE]
      ELSE Searched(FindMigrationOrder(moves, extra, cap))

(* no search: the greedy choice alone; no look at what is short of room *)
NoSearch(o) == IF o.searched THEN [o EXCEPT !.err = "capacity", !.order = << >>] ELSE o
OrderMigrationsWithoutSearch(moves, extra, cap) == NoSearch(GreedyOrder(moves, extra, cap))
OrderMigrationsBySize(moves, extra, cap) ==
  [err |-> "none", searched |-> FALSE,
   order |-> SetToSortSeq(moves, LAMBDA a, b : a.n > b.n \/ (a.n = b.n /\ a.id > b.id))]
OrderMigrations(moves, extra, cap) == GreedyOrder(moves, extra, cap)

(* plan_state_transition: the order, then what pinning copies, the loader's
   host allocations and the storages it releases add at the end *)
Migrations(current, target) ==
  {[id |-> s, to |-> target[s].dev, n |-> current[s].n] :
     s \in {s \in DOMAIN current : current[s].dev # target[s].dev}}
Balances(order) ==
  LET at[k \in 0..Len(order)] == IF k = 0 THEN 0 ELSE at[k-1] + HostGain(order[k])
  IN  at
TotalBytes(S, of) == SumBytes(S, LAMBDA x : of[x].n)
Allocated(spec, i) == TotalBytes({j \in DOMAIN spec.allocs : j <= i}, spec.allocs)
HostFits(order, final, target, spec, cap) ==
  /\ \A k \in 0..Len(order) : Balances(order)[k] <= cap.host
  /\ \A s \in spec.copies : final + target[s].n <= cap.host
  /\ \A i \in DOMAIN spec.allocs : final + Allocated(spec, i) + spec.allocs[i].temp <= cap.host
HostKept(final, target, spec) ==
  final + TotalBytes(DOMAIN spec.allocs, spec.allocs) - TotalBytes(spec.released, target)
StatePlan(found, final, current, target, spec, cap) ==
  LET fits == /\ found.err = "none"
              /\ spec.extra - final <= cap.gpu
              /\ HostFits(found.order, final, target, spec, cap) /\ HostKept(final, target, spec) <= cap.host
  IN  [err   |-> CASE fits -> "none" [] ~fits /\ found.err = "limit" -> "limit" [] OTHER -> "capacity",
       moves |-> IF fits THEN found.order ELSE << >>,
       pins  |-> IF fits THEN {s \in DOMAIN current : ~current[s].pinned /\ target[s].pinned} ELSE {}]
Ordered(found, current, target, spec, cap) ==
  StatePlan(found, Balances(found.order)[Len(found.order)], current, target, spec, cap)
PlanStateTransition(current, target, spec, cap) ==
  Ordered(OrderMigrations(Migrations(current, target), spec.extra, cap), current, target, spec, cap)

-----------------------------------------------------------------------------
(* state_adoption.py: where a saved plan wants every storage.

   A profile is [loader, load, release, stats, views]: load and release map a
   label to its tensors, stats lists [label, tensors], views are the tensors
   a block loader keeps in its blocks.  storage[t] is where tensor t lies. *)
LoadedTensors(profile) == UNION {profile.load[l] : l \in DOMAIN profile.load}
ManagedTensors(profile) == LoadedTensors(profile) \cup profile.views
LayerTensors(profile) == UNION {profile.stats[i].tensors : i \in DOMAIN profile.stats}

(* _strategy_gpu_bytes: the peak of a pass that starts with everything no
   earlier layer loads, loads at the start of a layer and releases at its end *)
StrategyGpuBytes(profile, size) ==
  LET stats     == profile.stats
      managed   == ManagedTensors(profile)
      loadAt(i) == profile.load[stats[i].label]
      freeAt(i) == profile.release[stats[i].label]
      before(i) == UNION {loadAt(j) : j \in 1..i}
      preload   == UNION {stats[i].tensors \ before(i) : i \in DOMAIN stats}
      resident  == (preload \cup (managed \ LayerTensors(profile))) \cap managed
      at[i \in 0..Len(stats)] ==
        IF i = 0 THEN [held |-> resident, peak |-> resident]
        ELSE LET peak == at[i-1].held \cup loadAt(i)
             IN  [held |-> peak \ freeAt(i), peak |-> peak]
  IN  Max({SumBytes(at[i].peak, LAMBDA t : size[t]) : i \in DOMAIN at})

(* _target_storages: a storage goes where all its tensors go, one without
   named tensors to the GPU; it stays pinned, and a strategy loader copies
   from pinned memory *)
Destinations(profile, storage, s) ==
  {IF t \in ManagedTensors(profile) THEN "cpu" ELSE "gpu" : t \in {t \in DOMAIN storage : storage[t] = s}}
TargetStorages(current, profile, storage, pinning) ==
  [s \in DOMAIN current |->
     LET dev == IF "cpu" \in Destinations(profile, storage, s) THEN "cpu" ELSE "gpu"
     IN  [current[s] EXCEPT !.dev = dev,
            !.pinned = dev = "cpu" /\ (@ \/ (profile.loader = "strategy" /\ pinning # "none"))]]

(* _block_requirements: the blocks of the GPU, one host block for every label
   that loads something, under the label's position; allocation[b] are the
   labels of block b *)
LabelBytes(profile, size, l) == SumBytes(profile.load[l], LAMBDA t : size[t])
BlockGpuBytes(profile, size) ==
  SumBytes(DOMAIN profile.allocation,
           LAMBDA b : Max({LabelBytes(profile, size, l) : l \in profile.allocation[b]}))
HostAllocations(profile, size, pinning) ==
  [i \in {i \in DOMAIN profile.stats : profile.load[profile.stats[i].label] # {}} |->
     LET n == LabelBytes(profile, size, profile.stats[i].label)
     IN  [n |-> n, temp |-> IF pinning = "copy" THEN n ELSE 0]]

(* target_from_profile *)
NoSpec == [extra |-> 0, copies |-> {}, allocs |-> << >>, released |-> {}]
TargetFromProfile(current, profile, storage, size, pinning) ==
  LET target  == TargetStorages(current, profile, storage, pinning)
      managed == {s \in DOMAIN target : target[s].dev = "cpu"}
      views(s) == {t \in DOMAIN storage : storage[t] = s}
      copies  == {s \in DOMAIN current : pinning = "copy" /\ ~current[s].pinned /\ target[s].pinned}
      spec    == IF profile.loader = "strategy"
                 THEN [NoSpec EXCEPT !.extra = StrategyGpuBytes(profile, size), !.copies = copies]
                 ELSE [extra |-> BlockGpuBytes(profile, size), copies |-> copies,
                       allocs |-> HostAllocations(profile, size, pinning), released |-> managed]
  IN  CASE \E s \in DOMAIN current : Cardinality(Destinations(profile, storage, s)) > 1 ->
             [err |-> "contradictory", target |-> current, spec |-> NoSpec]
        [] profile.loader # "strategy" /\ (\E s \in managed : Cardinality(views(s)) > 1) ->
             [err |-> "views", target |-> current, spec |-> NoSpec]
        [] OTHER -> [err |-> "none", target |-> target, spec |-> spec]
=============================================================================
