# FlexTensor, modelled and verified in TLA+

FlexTensor runs models whose weights do not fit on the GPU: it learns which
layer reads which tensors, keeps the weights in host memory, and copies them
into a few GPU blocks just ahead of the layers that need them. Several
processes can share the host copy through POSIX shared memory.

This directory models it in five parts, each with a run of its own: the life
of an offload manager with its compiled path; the planner, from measured layers
to blocks on the GPU; a tensor manager's session, trap by trap and copy by
copy; the block loaders that drive two CUDA streams; and the shared memory with
its condition. Everything is translated from `src/src/flextensor`; `PROJECT.json`
names the lines behind every definition. Paths below are relative to that
directory.

## 1. The system

| Component | State it keeps | Operations | Talks to | Hard because | Correct when |
|---|---|---|---|---|---|
| **Offload manager** (`offload_manager.py`) | phase, forward counter, hook, suspension | `offload`, `update_state`, transitions with rollback, replan, release | tensor manager, compiled offload, proxies | hooks, failures between the steps of a transition, several counters | every forward is counted once, a failed transition leaves a phase that works |
| **Compiled offload** (`compile/`, `compiled_offload.py`) | replan tail, armed loader, compile warm-ups | arm, advance the tail, finish a replan | manager, custom ops | failures half way, calls from compiled graphs | a failed replan stops inference; warm-ups are not measured |
| **Tensor manager** (`tensor_manager.py`) | the active loader, tensors, traps | build a loader per phase, release, shutdown | loaders, traps | swapping the loader while tensors are out | one loader at a time, every tensor goes home |
| **Block loaders** (`loaders.py`) | events, block owners, pending flag | preload, enter, exit, join, shutdown | two CUDA streams, the policy | the GPU runs behind the host, at any speed | no block is overwritten under a reader, every kernel finds its weights |
| **Discovery, profiling and strategy loaders** (`loaders.py`) | reference counts, pending releases | enter, exit, get, release | traps, rescuer | nesting, aborted forwards, memory exhaustion | what is loaded is released once, after its last use |
| **Piecewise prefetch policy** (`piecewise_prefetch_policy.py`) | outstanding prefetches | on_schedule, on_wait, on_piece_join | block loaders | graph capture cuts a forward in pieces | every broken overlap is reported, no healthy one |
| **Transfer plan** (`strategy_operations.py`, `strategy/utils.py`) | none | constraint checks, rearrange, remap | strategies, loaders | wrap-around plans | ranges in a block never overlap |
| **Strategies** (`strategy/`) | none | decide what is copied where | transfer plan | combinatorial | budget and overlap constraints hold |
| **Traps and helpers** (`trap_tensor_mode.py`, `helpers.py`) | active trap, suspension count | acquire, release, suspend | loaders | nesting, exceptions | balanced |
| **Custom ops** (`custom_ops.py`) | loader per manager | install, clear, pre/post compute | compiled graphs | calls after a loader is gone | an armed slot never skips a transfer silently |
| **Allocation blocks** (`allocation_block.py`, `memory_block_planner.py`) | packed host block | allocate, wait, release | shared memory, pinning | creator and follower | followers read only filled blocks |
| **Profile block controller** (`profile_block_controller.py`) | patched attributes | patch, teardown | model | failures while restoring | every parameter gets its own original back |
| **Host pinning** (`host_pinning.py`) | registered pointers | pin, release | CUDA runtime | partial failure | nothing freed while registered |
| **State transition and adoption** (`state_transition.py`, `state_adoption.py`, `state_handler.py`) | placement | plan and order migrations, adopt | memory on both sides | capacity on the way | never over capacity; all or nothing |
| **Timing collector** (`offload_timing.py`) | event handles of the pending pass, durable store | pass start, capture, publish a replay, reset | manager, loaders | one set of handles for eager passes, captures and replays | what is measured was run, once, after the request |
| **Multiprocess condition** (`shm/multiprocess_condition.py`, `shm/sync_primitives.py`) | flag, list of pids, named semaphores | wait_for_ready, notify_ready | shared blocks | crashes, a flag read without the lock | no lost wake-up |
| **Shared block and its coordinator** (`shm/flexible_shm.py`, `shm/coordinator.py`) | names, heartbeats, header | open, close, heartbeat, validate | condition, file locks | crashes, timeouts, unlinking while others open | nobody loses a block in use; the last one cleans up |
| Tensor discovery (`tensor_discovery.py`, `tensor_processors.py`), budgets (`gpu_budget.py`), interpolator | sets of tensors, bytes | collect, reserve, estimate | tensor manager, strategies | what discovery did not see | modelled by their effect in the session and the planner |
| Configuration parsing, benchmark, instrumentation, vLLM glue | - | - | - | data processing and I/O | covered by the repository's tests |

How they call each other: the manager's forward hook drives a phase machine
(discovery, profiling, inference); each transition swaps the model behind the
proxy and makes the tensor manager build the next loader; the traps around every
layer call that loader; after profiling the tensor manager hands the statistics
to a strategy and the plan to the inference loader; in inference compiled graphs
reach the loader through the custom ops, and a measured replan runs the planner
again. Across processes a creator publishes its profile and its weights in
shared blocks, and followers wait on the condition.

Bold parts are modelled here, most of them in full. `PROJECT.json` lists each
component with what is and is not modelled, and the hazards of the code at the lines where they bite,
with the properties that watch them.

## 2. Modules

| Module | Models |
|---|---|
| `OffloadManager` | `OffloadManager` over its tensor manager: every public call, the forward hook, the transitions |
| `CompiledOffload` | values and steps of `compile/lifecycle.py`, `compile/warmup_tail.py` and `custom_ops.py`, used by `OffloadManager` |
| `OffloadTiming` | the timing collector as a value, used by `OffloadManager` |
| `LayerStrategy` | what strategies are given and return, block planner, interpolator, evaluation, the two simple strategies |
| `BlockAssignment` | `strategy/assignment.py`: which block each copy goes to |
| `KnapsackStrategies`, `GlobalStrategies`, `BudgetFill` | the strategies of the files of these names |
| `TransferRearrange` | `strategy_operations.py`: removals, rearrangement, renaming |
| `Planner` | from statistics to the loader: budget, strategy choice, operations, replan |
| `TensorLoaders` | warm-up, layer, view and strategy loaders of `loaders.py` with binder and rescuer |
| `WeightBlocks` | profile block controller and block controllers: the blocks weights are moved into |
| `HostPinning` | pinner and registries |
| `StateTransition` | placement, and the order of migrations: greedy, then search |
| `StateAdoption` | carrying such a plan out, storage by storage |
| `TensorSession` | a tensor manager from model to shutdown, over the five above |
| `TransferPlan` | plans: `t2c` (which layer issues the copy of whose weights) and `block`; execution ranges, `CheckOverlapConstraint`, the set to preload |
| `PrefetchLoader` | both `PreallocatedBatchTransferTensorLoader` classes, the prefetch policy they call, and the two CUDA streams |
| `PrefetchLoaderInv` | its inductive invariant `IInv` |
| `PrefetchLoaderProofs`, `PrefetchLoaderOrder` | theorems and proofs about `PrefetchLoader` |
| `ShmConditionProofs`, `FlexibleShmProofs`, `TensorSessionProofs`, `TransferRearrangeProofs` | theorems and proofs about the modules of these names |
| `OffloadManagerProofs`, `OffloadManagerSessions` | the step lemmas and the invariant of `OffloadManager`; its sessions |
| `ReadyLatch` | abstract: a latch that is set once |
| `ShmCondition` | `MultiprocessCondition` over its file lock and semaphores; implements `ReadyLatch` |
| `FlexibleShm` | `FlexibleSharedMemory`, `KeepAlive` and `ShmCoordinator` for the coordination block |
| `MCOffloadManager`, `MCPlanner`, `MCTensorSession`, `MCPrefetchLoader`, `MCFlexibleShm` | configurations, model shapes, sets of plans and symmetries for TLC |

They meet at two interfaces. The planner's result is what the session's
strategy and block loaders and `PrefetchLoader`'s plans stand for; `TransferPlan`
is shared by `Planner` (through `TransferRearrange`) and `PrefetchLoader`. The
loaders that the session builds are numbers in `OffloadManager`, which looks only
at which one serves.

### OffloadManager

A named manager belongs to one thread, so a public call is one action and the
interleavings are those of calls: forwards, suspensions, both forms of replan,
replays, re-offloads, takeovers and releases, in any order. What can go wrong
inside a call is the step that raises. The state is a record `w`,
`om` (manager), `tm` (tensor manager), `comp` and `ops` (compiled session and
registry) and `col` (collector); each method is a function from `w` to `w` composed
of the functions it calls, `Then` stops at an exception (`w.err`), and `Strike`
raises at the step the fault names. So `TransitionToInference(w, "swap")` is what
the code leaves behind when the swap fails, rollback included. `hist` and `user`
are the caller's account: how many forwards it made, which model it runs, what a
pass was served from.

### Planner

A strategy is a function, and the module evaluates it. `setup` is the manager's
configuration and the model; the first action profiles and plans
(`_compute_strategy_and_build_loader` with all it calls), the second replans from
compiled durations. Sizes and times are small integers; copying one byte takes one
unit of time, so the interpolator is the identity scaled. scipy's optimisers are
external: they answer with anything that is no worse than what they were seeded
with. The constants that switch from exhaustive search to heuristics (12 copies,
4 blocks, 5 tensors in the code) are parameters, 3, 3 and 1 in the run, so that
both branches occur on models of six layers.

### TensorSession

The actions are those of a session: initialise a phase, start and finish a
forward, enter and exit a trap, read one weight, shut down; each with the action
that is its failure. `data[t]` is where a tensor's `.data` points (host, GPU, a
slot of a block, or empty), `ld` the loader, `running` the kernels the GPU has
still to run, `pins` pinned memory, `place` and `adoption` the saved plan being
adopted. `Got(t)` is what the getter of a parameter gives the kernel: a copy of
its own, an unwaited one, stale bytes, the host tensor, nothing. GPU events cover
the kernels queued when they were recorded; when scheduled releases are looked
at, any of these events may have been reached.

What stands for more than it says: block inference trusts its reads (they are
`PrefetchLoader`'s subject); a kernel given a host tensor raises; `release_memory`
before `shutdown` is part of `Shutdown`; aborted forwards do not count as passes.

### PrefetchLoader

The host calls `enter(l)`, launches the layer's kernels and calls `exit(l)`; the
loader turns that into operations appended to two FIFO streams, `ld.c` (compute)
and `ld.t` (transfer), which `ComputeStep` and `TransferStep` execute later.
A CUDA event is the length its stream had when it was recorded, and waiting for
it is waiting for that many completed operations; this is what `record_event`
and `wait_event` mean, the hardware's freedom is that the streams advance in
any interleaving. The loader's dictionaries are fields of `ld` with the
source's names: `sched` (`scheduled_transfers`), `computeEv`
(`compute_events_map`), `lastBlock` (`last_block_id_to_label_map`), `pending`
(`_has_pending_transfer_work`), and the policy's `outstanding` and `waited`.
`Enter`, `Exit` and `PreloadDone` are whole handlers: each is a composition of
functions from loader to loader (`StartPass`, `Fork`, `AwaitBlock`,
`ScheduleTransfer`, `AwaitTransfer`, ...), one for each idea of the method, in
the method's order. `Abort` is an exception in the user's forward, `JoinAfterForward`
a join by the integration, in the middle of a forward only where forwards are
captured in pieces.

`mem` is what each block holds. `NoOverwriteWhileRead` says that a copy and a
kernel of one block are never both at the head of their streams and free to
run; `ReadsOwnWeights` that a kernel which may run finds its layer's weights.

### ShmCondition

One action per step of `wait_for_ready` and `notify_ready` at which another
process can come in between: taking the lock, opening the semaphore named after
the pid, taking its unit, registering, testing the flag (without the lock),
sleeping. Semaphores are numbered as they are created; `named` is what a name
leads to and `handle` what a process has open, so a semaphore re-created after
its waiter unlinked it is a different object, as it is for the kernel. `Die` frees
the lock and nothing else; `Restart` gives a dead waiter's pid to a new process.
`missed` and `reused` are history: whom a signal failed to reach, and which
pids were used twice.

### FlexibleShm

Four names (main lock file, block, keep-alive dictionary, condition segment) lead
to numbered objects; unlinking takes the name and leaves the object to its holders.
Every open, unlink, lock and release is an action, in the code's order. Two
abstractions: a section under the keep-alive lock is one step, and the condition
is reduced to its flag (its protocol is `ShmCondition`'s). A dictionary maps pids to
slots and knows which slots are `stale`, older than the timeout; `hnd[p].slot` is
where the heartbeat thread of a process writes, whether or not the entry is still
its own. `split`, `mistaken` and
`unclean` are history: a lock file unlinked while others had it open, a live
process taken for dead, a death or a close without the lock.

## 3. Runs

| Run | Shows | Bounds |
|---|---|---|
| `offload_manager` | `TypeOK`, `InferenceAfterBudget`, `NeverServesForeignBlocks`, `CompiledSessionAgrees`, `HookFollowsModel`, `MeasureBackedByReplays`, `LoadersAccountedFor` | 8 configurations, 2 sessions of one manager, 10 places to fail, 1 failure, 1 suspension, 4 measured passes |
| `session` | `TypeOK`, `ReadsOwnWeights`, `KernelsKeepTheirCopies`, `NoCopyOutlivesTrap`, `WeightsComeBack`, `LoadsFromPinnedHost`, `PinsBalance`, `MigrationsFit`, `RefusedOnlyIfImpossible` | 19 setups of 3 layers and 4 tensors, 2 forwards a phase, 2 failures |
| `planner` | `TypeOK`, `CopiesDoNotOverwrite`, `MapsAgree`, `BudgetHonoured`, `ClaimedPeakIsReal`, `RearrangingHelps` | 4807 setups: 8 kinds of strategy on 7 shapes of 2 to 6 layers at 6 rhythms, 2 or 3 blocks, no budget, 60 % or 80 %; 1 replan |
| `planner_selection` | violation of `NoCopyOverwrites` | the setups of one strategy |
| `prefetch` | `TypeOK`, `NoOverwriteWhileRead`, `ReadsOwnWeights`, `StreamsNeverDeadlock`, `StrictModeNeverFalseRaises` | every forward plan over 4 layers and 2 blocks that writes a block twice; both loaders; 2 forwards, 1 abort or join |
| `prefetch_pieces` | `UnjoinedWorkIsPending`, `HandlesOfThisSession`, `PolicySeesUnawaitedPrefetch` | plans over 3 layers with one preloaded copy and one that is not; piece joins anywhere; 2 forwards, 2 breaks |
| `prefetch_piece_race` | violation of `NoOverwriteWhileRead` | as `prefetch`, with a piece join, policy in error mode |
| `prefetch_preload_race` | violation of `NoOverwriteWhileRead` | cyclic plans that reuse the preloaded block |
| `prefetch_false_raise` | violation of `StrictModeNeverFalseRaises` | cyclic plans, 2 forwards, no join |
| `shm_condition` | `TypeOK`, `NoLostWakeup`, `HolderNeverSleeps`, `NotifierReturns`, `WaitersReturn`, `ImplementsLatch` | 2 waiters, 2 faults |
| `flexible_shm` | `TypeOK`, `BlockStaysWhileUsed`, `LastExitCleans`, `HeartbeatsAreOwn` | 3 processes, 2 faults |
| `flexible_shm_ready` | violation of `ReadyMeansNotified` | 3 processes, no faults |

What the properties of the manager, the session and the planner say, and two
others:

* `HandlesOfThisSession` (block loaders): a graph capture must not wait for an event
  of an earlier session. In the maps a layer has a compute event only if it was left
  since the forward or piece began, and a copy an event only if it was issued since;
  `boundary` remembers how many layers were entered and left by then. Maps that a
  join or a recovery clears only in part break it. One exception is the code's
  intention (`KeptFromPreload`): the reordered loader's `preload()` records events
  before any forward (`loaders.py:1632`), and the first `enter` keeps them for the
  first waits (`loaders.py:1644`). They last until the end of that forward, or until
  a join or an abort before it.
* `InferenceAfterBudget`: `iters_before_inference` forwards bring a manager into
  inference, no more and no fewer, whatever is zero, suspended or skipped. Suspension
  holds the count in the profiling only, forwards of the discovery count on; a count
  frozen in the wrong phase breaks it.
* `NeverServesForeignBlocks`, `CompiledSessionAgrees`: registry, tensor manager
  and parameters name one live loader, or the session is FAILED and raises, or its
  traps go past the registry. A replan that swaps the loader and then fails breaks it
  without the rollback.
* `HookFollowsModel`: exactly one hook moves a manager on, on the model its proxy
  runs, after failed transitions and releases too.
* `MeasureBackedByReplays`: each counted replay left one pass of its own in the
  durable store, and none is older than the request.
* `LoadersAccountedFor`: no loader with resources is forgotten, apart from those
  section 5 names.
* `ReadsOwnWeights`, `KernelsKeepTheirCopies` (session): every kernel reads its
  layer's weights through copies, promotions, scheduled releases and views, and
  finds the copy however late it runs.
* `NoCopyOutlivesTrap`, `WeightsComeBack`: copies go with the last trap that holds
  them and weights return home, on each failing path.
* `LoadsFromPinnedHost`, `PinsBalance`: what is streamed lies in pinned host
  memory, and the driver's registrations are exactly what a registry knows.
* `MigrationsFit`, `RefusedOnlyIfImpossible`: adopting a profile never exceeds a
  capacity on the way and is refused only if no order of its moves fits, whichever
  order one takes.
* `CopiesDoNotOverwrite`, `MapsAgree`: no plan issues a copy into a block whose
  weights are still needed, and its three maps speak of the same copies.
* `HeartbeatsAreOwn`: slots are given back and taken again without two threads
  writing to one, so the entry of a dead process expires.
* `BudgetHonoured`, `ClaimedPeakIsReal`, `RearrangingHelps`: a budget is kept
  whenever the ranked candidates can keep it, the peak a strategy accepts a plan by
  is the memory taken, and moved copies have at least the time they had.

Why the bounds are enough. *Manager*: the two sessions give every pair of
configurations a re-offload; the configurations differ in each switch the code
branches on (loader kind, profile mode, skip, compile path, timing source, zero
budgets); a behaviour has one failure, anywhere, because the code's recovery is per
failure and the states it leaves are then driven on by every other call; 4 passes
hold a capture and the longest measure, or two captures each with a short one.
279,844 states. *Session*: three layers give a
copy distance of 1, 2 and the wrap-around; four tensors a layer with two, one
shared and one excluded; two forwards per phase show what the first leaves; each
setup differs from the base in one feature. 237,743 states. *Planner*: six layers
make a plan alternate two blocks more than once; shapes and rhythms were chosen so
that windows are too small, equal and too large, and so that layers have nothing
to copy, are never timed, or are all there is. 18,764 states. *Prefetch*: a hazard
between copy and kernel needs two
users of a block, a layer in between and a second forward that finds what the first
left; four layers hold two such pairs, and the theorems below lift the two central
invariants to every size. *Condition*: the interesting races are between one waiter
and the notifier; the second waiter adds the position in the list and a death
behind it. With three waiters and one fault the run also passes (225,483
states). *Shared block*: one process that closes last, one that opens in the
meantime, one that comes after.

Deadlock is not checked (`CHECK_DEADLOCK FALSE`) because every system here may
stop: forwards, notifications and closes are made a bounded number of times, a plan
is made once and replanned once, a session ends with its shutdown. That
the streams do not block each other is `StreamsNeverDeadlock`; that the condition
does not block is stated as liveness.

Fairness is assumed only in `shm_condition`: a process inside `wait_for_ready` or
`notify_ready` goes on until it blocks, which is what the operating system's
scheduler gives it. Nothing obliges a process to call, to die or to come back.
Acquiring the file lock is only weakly fair, and that is enough since the lock is
wanted once per call. Manager, session and planner do only what their caller asks,
and nothing obliges a caller to run another forward, so they have no liveness
property; that forwards suffice to reach inference is the safety property
`InferenceAfterBudget`.

## 4. What is proved

TLAPS checks the theorems below for every value of the constants. Beside each
stands what it assumes of them beyond the `ASSUME`s of the modules, which only
say that bounds are natural numbers, that setups and configurations have the
shape the code gives them, that tensors and storages are finitely many, that their
sizes and the capacities are natural numbers (which `_validate_transition_inputs`
asks of every plan), that a saved profile holds the releases its session
computed, that a block loader's plan satisfies `check_overlap_constraint`, that there
is a layer, and that no waiter is the notifier. The overlap constraint is an assumption
about the planner: the code calls the check in `rearrange_transfers` only, the loader
takes any plan, and finding 5 is a plan that does not satisfy it.

| Module | Theorems | For every |
|---|---|---|
| `PrefetchLoaderProofs` | `TypeCorrect` | number of layers, set of blocks, checked plan, cyclic ones and piece joins included |
| | `NoOverwriteWhileReadAlways`, `ReadsOwnWeightsAlways` | plan in `ForwardPlans`, without piece joins (`~PieceJoins`): without either, TLC finds the traces of section 5 |
| `PrefetchLoaderOrder` | `NeverDeadlocks`, `UnjoinedIsAnnounced`, `HandlesAreCurrent`, `PolicyMissesNothing`; `StrictModeIsQuiet` | checked plan, aborts and piece joins anywhere; the last one for `ForwardPlans` |
| `ShmConditionProofs` | `TypeCorrect`, `LockExcludes`, `NoLostWakeupAlways`, `HolderNeverSleepsAlways`, `LatchImplemented` | set of waiters, any number of deaths and restarts |
| `FlexibleShmProofs` | `TypeCorrect`, `BlockStays`, `HeartbeatsStayOwn`, `LastOneCleans` | set of processes, any number of deaths and late heartbeats |
| `TensorSessionProofs` | `TypeCorrect`, `PinsReturn`, `CopiesGoWithTraps`, `WeightsReturn`, `PinnedLoads`, `KernelsServed`, `ReadsOwn`, `AdoptionFits`, `RefusalsAreRight` | number of layers, set of weights and of setups, of storages and of capacities |
| `OffloadManagerProofs` | `TypeCorrect`, `OneHook`, `NothingLeaks` | set of configurations and of places to fail, any number of sessions, failures and passes |
| `OffloadManagerSessions` | `BudgetKept`, `NothingForeignServed`, `SessionAgrees`, `MeasureIsBacked` | the same |
| `TransferRearrangeProofs` | `RearrangingKeeps` | number of layers, plan that keeps the overlap constraint, order of the copies; gap of one or two layers: with three, see section 5 |

`LatchImplemented` is a refinement: every step of `ShmCondition` is, under its
mapping, a step of `ReadyLatch` or none. `RearrangingKeeps` is about one call of `rearrange_transfers`. Each other theorem
is an invariant, and is named for the property of section 3 it proves.

*Block loaders, safety.* Neither invariant is inductive: both speak of the heads of the
streams, and whether those are safe was decided when they were appended. `IInv`
therefore speaks about whole streams. `ReadsOrdered`: for each kernel on the compute
stream there is exactly one copy it sees (`SourceOf`), which the compute
stream awaited before it, and every later copy into that block is preceded, on the
transfer stream, by a wait for the kernel. This is a fact about what is enqueued,
so the GPU cannot disturb it; the host preserves it because of what it knows inside
a forward (`PassInv`): earlier kernels were awaited by the fork, kernels of left
layers have compute events, `lastBlock` names the last copy into each block, the
kernel of a block that was handed on was awaited. `WaitsRespected` and
`MemIsLastCopy` connect this to what was executed. `PrefetchLoaderProofs` has a
lemma for each loader function, type correctness, then one lemma per action and
the two theorems. The overlap constraint enters in
exactly one place: when a copy is scheduled into a block, the kernel of the block's
previous transfer has already been left, so its event exists.

*Block loaders, order.* `OrderInv` needs no assumption on plans. That the streams
cannot wait for each other in a circle is `NoCrossing`: of a wait on one stream and
one on the other, one does not reach as far as the other; an event is recorded
before anybody waits for it, so a new wait reaches only what is already enqueued.
`CopiesJoined` and `EventsJoined` say what the pending flag stands for. Whose events
the maps hold is `HandlesInv`: the layers entered and left only grow past those at
`boundary`, and where no copy is pending the maps have no event of a copy, but for those
of `preload()` while nothing else has run (`OnlyPreloaded`). The first `enter` therefore
either finds work pending and drops every event, or keeps the preloaded ones.

*Rearranging.* The code moves the copies one by one and checks the outcome once, at the
end; the theorem says that this check never fails. Within a block the positions from a copy's issue to
its kernel are disjoint, and at most one copy's go round the end (`Apart`). A free
slot lies after the last kernel of its block before the copy, so moving the copy
there lengthens only its own positions and leaves them disjoint (`MovedShares`);
that this holds again before every move is induction over the order (`MovesRun`).
A gap of one or two keeps the code's test for a cyclic copy right.

*Condition.* `IInv` says who is inside the lock's section (`LockInv`), whose a
semaphore is (`HandleInv`, `NamesInv`), and where the wake-up is of a waiter that
registered: still in the notifier's list, in the semaphore, or missed for a reason
the property names. The refinement needs only that a waiter leaves its loop after
it saw the flag.

*Shared block.* As long as nothing was disturbed, the main lock orders openings and
closings: `IInv` says at each place of the code which names are those the process
opened (`BlockPlaces`), who has an entry in the dictionary (`EntryPlaces`), and that
somebody who will clean up is under way as long as the names are there
(`KeepingPlaces`). That slots are given to one process only is an injection of the
dictionary; the last one to leave is found by counting its entries.

*Session.* `IInv` ties the loader to the phase: which kind of loader a phase has,
that the counts of a discovery or profile loader are those of the trap under way,
where the weights of each kind are (`DataInv`), what of the driver's registrations
each owner knows (`PinInv`), and for a strategy loader what each of its copies is
for. That is enough for the reads of every loader but one: under `torch_function`
a strategy loader's read that finds no copy raises, so a read is right only if the
copy is there, and whether it is was decided up to a whole forward earlier.

`KernelsServed` and that case of `ReadsOwn` add `RunInv`. It follows each layer from
one of its passages to the next: `EnteredSince` is the set of labels entered since
the layer last left, in the forward under way or the one before. For a tensor
only this layer reads, `KernelHolds` says that once a label that copies the
tensor is among them the layer has no release scheduled any more (`enter` took it back, or it
was carried out); that a release still scheduled covers all its kernels; and that a
tensor without a copy has a label yet to enter that copies it. At the layer's own
trap every label has entered, so the copy is there. This needs that the plan lists
each layer that reads something (`PlanFits`) and that the preloaded copies are those
whose label comes too late, which `_compute_preload` decides by the order of recording;
`RecordedLate` names the layers for which that is not the order of execution. TLC
found the exception when the proof did not go through without it.

`AdoptionFits` and `RefusalsAreRight` are about a plan that was made from one look at
the free memory and is carried out move by move. `Feasible` says of an order that each
of its moves fits where it stands. What the greedy choice has taken is feasible, and so
is every order on the search's stack (`Reached`, by the least step at which it is not);
`AdoptInv` then says that what is left of a plan under way is the rest of such an order,
and what it took is that order's balance so far. For refusals the converse is needed.
What a set of moves takes of the host is the same in every order (`Total`), so a state
of the search is determined by what remains. A set that was taken off the stack has had
each of its moves that fit entered (`Expanded`), and no set is on it twice, so one
step for every set empties it (`Exhausted`). An order that fits would therefore have led the
search from set to set to its end (`OrderLeads`), and there every order leaves the host and
the loader the same.

*Manager.* A call is a composition of functions on one record, so there is one
lemma per function, stating all that later steps need to know of its result, on
success and on failure (`Created`, `TornDown`, `ToInference`, `SetUp`, ...). `Inv`
is short: the manager's parts agree (`Sound`), a hook that is there is on the
current model, and each loader with resources is in use or known to be dropped;
in discovery a loader can only be one a failed swap left. `BudgetKept` adds
`PaceInv`: what was driven so far is the sum of the parts of the budget already
behind plus the counter, counted only up to one below the part's end, plus the
failed transitions. The last forward of a part is no progress until its transition
succeeds, and that is why a failure costs exactly one forward, however often it
recurs. It also needs that a replan of a captured graph is only ever under way in
inference.

`ServeInv` is what `NothingForeignServed` and `SessionAgrees` rest on. It says of each phase
where the parameters point. In discovery they own their data, in a block profile
they are views of the controller that is there (`Driven`); in inference they own
their data or are views of the inference loader, which a compiled session on blocks
finds in its slot unless a failed replan shows in the tail (`Steady`). A tensor manager
without blocks never touches them (`Grounded`). `Excused` names what the property
gives up: a swap that failed half way, and traps that go past the registry after a
failed replan. Neither property is inductive without the phases in between: what a
forward in inference reads was decided by a swap some calls earlier, with a
replan's release, rebuild and rollback behind it.

`MeasureIsBacked` adds `MeasureInv`. While a captured graph is measured, the store
holds passes of after the request, none twice, as many as were counted, and one more
between a replay that the hook published and the call that counts it (`Recorded`). That
is not inductive either: a replay is published only if the collector finds events in
the graph's handles, so the graph must have been captured over the loader in use with
those events recorded, and nothing since may have dropped them (`GraphStands`). What
carries this over offloads, replans and releases is that loaders are numbered as they
are built: a new one is above every graph there is (`Onward`), and the count starts
again only when the graph is given up as well.

Only model-checked:

* `NotifierReturns` and `WaitersReturn` (liveness under fairness is out of the
  prover's reach);
* the planner's properties: its strategies fold over data and are recursive functions, and
  what such a definition computes needs induction over data, which no installed
  prover can instantiate.

## 5. What the models say about the code

Five runs end in a violation; each is a finding of `PROJECT.json`.

1. *Piece join race* (`loaders.py:1555`). A join in the middle of a forward drops
   the events and owners of blocks whose kernels have not been launched yet;
   a later copy into such a block waits for nothing. The policy sees nothing wrong.
2. *Preload race* (`loaders.py:1434`). `preload()` records which block each
   preloaded label occupies; the first `enter` clears that record before anything
   could use it. Needs a cyclic plan that gives the block to a second transfer.
3. *False raise* (`loaders.py:1757`). With a cyclic plan and the reordered loader,
   the policy takes the intended prefetch for the next iteration for a broken
   one from the second forward on, and error mode raises without a join.
4. *Stale readiness* (`shm/flexible_shm.py:603`). `close()` closes the condition
   before it unlinks it, so its segment and raised flag outlive the last process.
   Followers of the next creator do not wait.
5. *Shared block in a selected plan* (`strategy/global_strategy.py:1201`). Blocks
   are assigned to layers before tensors are selected; a layer left out puts two
   copies of one block next to each other, and nothing downstream refuses the plan.

Apart from the events of `preload()`, which `HandlesOfThisSession` excepts because they
are meant to be kept, the passing properties except the following by name, because the code lets them
happen. Removing the exception from the property shows the trace.

Shared memory: a reused pid finds its predecessor's semaphore at zero and blocks
inside the lock (`shm/multiprocess_condition.py:161`); `ProcessFileLock.unlink` frees
the lock before it removes the file, so two processes can be in the section at once
(`shm/sync_primitives.py:387`); a live process taken for dead later unlinks by name
what its successors made (`shm/flexible_shm.py:347`), and until then its heartbeats
keep the entry fresh that got its slot, a dead process's too (line 376).

Manager:

* *A swap that fails after the tensor manager moved on* rolls the manager back and
  not the tensor manager; the next attempt takes the weights out of the blocks of
  the first one (`hist.halfway` in `NeverServesForeignBlocks`).
* *A tail that is DONE or FAILED can be armed again*, so a new replan hides an
  earlier failure (`hist.rearmed` in `CompiledSessionAgrees`).
* *A live tensor manager keeps what it was made with*: activated for a compiled
  configuration it may have no block loader; the check for it raises only after
  the swap, and the session's forwards then raise (second disjunct of
  `CompiledSessionAgrees`).
* *A re-offload without release* drops the earlier loader without shutting it down
  (`hist.dropped` in `LoadersAccountedFor`). A re-offload that is rejected because
  `set_config` changes `skip_discovery` has already torn the compiled session down,
  although it is documented to leave a working session intact; and after a
  same-model re-offload the compiled forward stays and raises (`user.broken`).
* *A replan of a captured graph that fails* leaves the loader shut down and the
  slot empty. Units the registry does not reach (`~reachable`) go on through the
  loader they hold, and serve from blocks it no longer fills
  (`NeverServesForeignBlocks` excepts them when the tail is FAILED or was armed again;
  the configuration `ExternalTraps` runs it).
* A failed set-up of the profile views or of the inference loader leaves no loader;
  every forward raises until a release. A finished replay without a generation is
  counted without being published after generations were seen, and a captured pass
  that a reset kept can be published by a later eager pass.

Session:

* *A dropped event* (`loaders.py:815`, `hist.dropped` in `ReadsOwnWeights`).
  `release_memory` deletes the transfer event of every copy issued at a released
  label. If the copy is for a layer two or more ahead (simple strategy, cyclic
  knapsack), that layer reads it without a wait, where
  `docs/explanation/phases.md:241` promises "Weights are preloaded to GPU before
  each module executes".
* *Shared tensors* in the strategy loader: in `torch_function` mode the first of
  two readers gives the weight back and the second finds it gone (`ReadElsewhere`);
  an earlier owner's scheduled release is
  not taken back, so the copy may go while the later owner uses it (the getter
  promotes it); in the block loaders the first of two labels empties the tensor
  before the second copies it.
* *Incomplete forwards* (`hist.incomplete`): wrap-around copies are not repeated
  and stale releases not taken back; an enter that fails leaves copies without event.
* *A `Trap` or `TrapDirect` that fails on entry* gives its guard back and not the
  copies (`hist.leaked`).
* *Lost weights* (`hist.lost`): a restore that fails, or an inference build that
  fails after some blocks were filled, leaves tensors empty.
* *A layer recorded late* (`RecordedLate`): the first discovery forward leaves it
  out, so it comes after layers that run later in the collector's order
  (`collectors.py:138`), which `_compute_preload` (`loaders.py:48`) takes for the
  order of execution. A tensor of it that one of those copies is not preloaded, and its
  first inference forward raises in `torch_function` mode.
* *Undiscovered reads* meet another layer's weights in a view profile and raise in
  `torch_function` mode.
* *Registrations lost with their registry*: the profile controller has a pinner of
  its own, and an unregister that fails at its end is never retried (`pins.lost`).
  A registered tensor's storage is not kept alive as `host_pinning.py:182` says if
  its `.data` is assigned anew.

Planner. Not excepted, but seen on the way:

* The comment at `strategy/assignment.py:244` that strict round robin has no cyclic
  violation with three blocks is wrong for 4 copies (0, 1, 2, 0). No plan of the
  run overwrites a block because of it.
* `GlobalOffload` takes the first layer with something to copy for the first layer
  (`strategy/global_strategy.py:178`), so its claimed peak is too low when the first
  layer has nothing large (the precondition of `ClaimedPeakIsReal`); its scale stays
  changed across replans.
* Legal configurations end in an unspecific error: an empty `BudgetFill` plan in
  `ValueError`, a layer removed by configuration in `KeyError` when the blocks are
  built, one block in `ValueError`. A rearranged selected plan may be refused.
* A gap of three or more layers (`_compute_transfer_gap`, `strategy_operations.py:692`):
  a copy closer to its kernel than the gap is taken for a cyclic one and may be moved
  past it, over its block's other copies; the plan is then refused with `ValueError`.
  Two copies into one block of five layers, 1 for 2 and 3 for 4, show it.
* Grouped layers with a permanent gap: rearranging may move a copy into a slot
  inside another group.

## 6. Not modelled, and the plan

Done: block loaders, policy and plan checks (proved for forward plans); condition;
shared block and keep-alive; offload manager with compile tail, custom ops and
timing; strategies, assignment, rearrangement and budgets; all loaders, traps,
views, pinning, state transition and adoption.

Modelling that is left:

* *The coordinator's profile block*, a second `FlexibleSharedMemory`, and
  `AllocationBlock` over shared memory. Known from reading: a follower past ready
  whose creator has closed gets `FileNotFoundError` from `read_profile`; a profile
  block left by a dead creator is connected to, and a longer text fails while a
  shorter one keeps the old one's tail (`shm/coordinator.py:116`).
* *Keep-alive*: several registrations of a process, a full dictionary, failures of
  initialisation other than a missing name.
* *The vLLM worker's takeover* of a running process.
* *The timing collector's sampling window* and its report.
* *Manual traps* (`offload_block`, trace tensors), dict models, the benchmark's
  context, nested traps beyond the guard that refuses them, borrowing in the warm-up
  loader, restoring a profile without adopting it, the first loader that keeps its
  sources.
* *In the planner*: the option that turns differential evolution off; an answer of
  NaN of the selection's optimiser; padding and alignment of blocks, which can
  make real blocks exceed planned ones.

Left out for good: serialisation, logging, benchmarks, configuration parsing,
the walk over Python object graphs, tracing and code rewriting for
`torch.compile` (data processing without interleaving); bandwidth curves, which
decide how fast a plan is and not whether it is right.

## 7. Running

    tlc -config Prefetch.cfg MCPrefetchLoader.tla
    tlc -config OffloadManager.cfg MCOffloadManager.tla
    tlc -config TensorSession.cfg MCTensorSession.tla
    tlc -config Planner.cfg MCPlanner.tla
    tlapm PrefetchLoaderProofs.tla
    tlapm PrefetchLoaderOrder.tla
    tlapm ShmConditionProofs.tla
    tlapm FlexibleShmProofs.tla
    tlapm TensorSessionProofs.tla
    tlapm TransferRearrangeProofs.tla
    tlapm OffloadManagerProofs.tla
    tlapm OffloadManagerSessions.tla

`PROJECT.json` holds the full list of runs, and for every checked property a
mutant: a change to one definition, of the kind a programmer might make,
under which TLC finds the property violated.
