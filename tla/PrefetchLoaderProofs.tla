------------------------ MODULE PrefetchLoaderProofs ------------------------
(***************************************************************************)
(* For every number of layers, every set of blocks, every forward plan and *)
(* both loader classes: no copy overwrites a block while it is read, and   *)
(* every kernel reads its own layer's weights.  IInv is inductive.         *)
(***************************************************************************)
EXTENDS PrefetchLoaderInv, TLAPS

(* r's streams continue those of s. *)
Grows(s, r) ==
  /\ Len(s.c) <= Len(r.c) /\ \A j \in 1 .. Len(s.c) : r.c[j] = s.c[j]
  /\ Len(s.t) <= Len(r.t) /\ \A i \in 1 .. Len(s.t) : r.t[i] = s.t[i]

SameStreams(s, r) == r.c = s.c /\ r.t = s.t

(* r differs from s in its streams only. *)
SameMaps(s, r) ==
  /\ r.sched = s.sched /\ r.computeEv = s.computeEv
  /\ r.lastBlock = s.lastBlock /\ r.pending = s.pending

-----------------------------------------------------------------------------
(* Operations on the streams: what they append, and that they keep the rest. *)

LEMMA OnComputeFacts ==
  ASSUME NEW s \in LoaderType, NEW kind \in {"wait", "read", "copy"}, NEW arg \in Nat
  PROVE  LET r == OnCompute(s, kind, arg)
         IN  /\ r \in LoaderType
             /\ r.c = Append(s.c, [k |-> kind, n |-> arg]) /\ r.t = s.t
             /\ SameMaps(s, r)
             /\ r.outstanding = s.outstanding /\ r.waited = s.waited
<1>1. [k |-> kind, n |-> arg] \in Op
  BY DEF Op
<1>2. Append(s.c, [k |-> kind, n |-> arg]) \in Seq(Op)
  BY <1>1 DEF LoaderType
<1>3. QED
  BY <1>2 DEF OnCompute, LoaderType, SameMaps

LEMMA OnTransferFacts ==
  ASSUME NEW s \in LoaderType, NEW kind \in {"wait", "read", "copy"}, NEW arg \in Nat
  PROVE  LET r == OnTransfer(s, kind, arg)
         IN  /\ r \in LoaderType
             /\ r.t = Append(s.t, [k |-> kind, n |-> arg]) /\ r.c = s.c
             /\ SameMaps(s, r)
             /\ r.outstanding = s.outstanding /\ r.waited = s.waited
<1>1. [k |-> kind, n |-> arg] \in Op
  BY DEF Op
<1>2. Append(s.t, [k |-> kind, n |-> arg]) \in Seq(Op)
  BY <1>1 DEF LoaderType
<1>3. QED
  BY <1>2 DEF OnTransfer, LoaderType, SameMaps

LEMMA AppendFacts ==
  ASSUME NEW q \in Seq(Op), NEW e \in Op
  PROVE  /\ Append(q, e) \in Seq(Op)
         /\ Len(q) \in Nat
         /\ Len(Append(q, e)) = Len(q) + 1
         /\ \A i \in 1 .. Len(q) : Append(q, e)[i] = q[i]
         /\ Append(q, e)[Len(q) + 1] = e
OBVIOUS

LEMMA StreamFacts ==
  ASSUME NEW s \in LoaderType
  PROVE  /\ s.c \in Seq(Op) /\ Len(s.c) \in Nat
         /\ s.t \in Seq(Op) /\ Len(s.t) \in Nat
         /\ \A j \in 1 .. Len(s.c) : s.c[j] \in Op /\ s.c[j].n \in Nat
         /\ \A i \in 1 .. Len(s.t) : s.t[i] \in Op /\ s.t[i].n \in Nat
<1>1. s.c \in Seq(Op) /\ s.t \in Seq(Op)
  BY DEF LoaderType
<1>2. \A o \in Op : o.n \in Nat
  BY DEF Op
<1>3. QED
  BY <1>1, <1>2

-----------------------------------------------------------------------------
(* What each method of the loader does to its state, whatever the plan.    *)

LEMMA PlanFacts ==
  ASSUME plan \in Plans
  PROVE  /\ Transfers(plan) \subseteq Layers
         /\ \A t \in Transfers(plan) : plan.t2c[t] \in Layers /\ plan.block[t] \in Blocks
         /\ \A t, u \in Transfers(plan) : plan.t2c[t] = plan.t2c[u] => t = u
BY DEF Plans, Transfers

LEMMA OnWaitFacts ==
  ASSUME NEW s \in LoaderType, NEW l \in Layers
  PROVE  LET r == OnWait(s, l)
         IN  r \in LoaderType /\ SameStreams(s, r) /\ SameMaps(s, r)
BY DEF OnWait, LoaderType, SameStreams, SameMaps

LEMMA OnScheduleFacts ==
  ASSUME NEW s \in LoaderType, NEW t \in Layers, NEW l \in Layers
  PROVE  LET r == OnSchedule(s, t, l)
         IN  r \in LoaderType /\ SameStreams(s, r) /\ SameMaps(s, r)
BY DEF OnSchedule, LoaderType, SameStreams, SameMaps

LEMMA JoinTransferFacts ==
  ASSUME NEW s \in LoaderType
  PROVE  LET r == JoinTransfer(s)
         IN  /\ r \in LoaderType
             /\ r.c = Append(s.c, [k |-> "wait", n |-> Len(s.t)]) /\ r.t = s.t
             /\ SameMaps(s, r)
BY OnComputeFacts, StreamFacts DEF JoinTransfer

LEMMA EmptyMaps ==
  /\ NoEvents \in [Layers -> Event] /\ NoLabels \in [Layers -> Layers \cup {0}]
  /\ EmptySlots \in [Blocks -> Transfers(plan) \cup {0}]
  /\ \A l \in Layers : NoEvents[l] = -1
BY DEF NoEvents, NoLabels, EmptySlots, Event, NoEvent

LEMMA ClearMapsFacts ==
  ASSUME NEW s \in LoaderType
  PROVE  LET r == ClearMaps(s)
         IN  /\ r \in LoaderType /\ SameStreams(s, r) /\ r.pending = s.pending
             /\ r.sched = NoEvents /\ r.computeEv = NoEvents /\ r.lastBlock = EmptySlots
BY EmptyMaps DEF ClearMaps, LoaderType, SameStreams

LEMMA JoinAndClearFacts ==
  ASSUME NEW s \in LoaderType
  PROVE  LET r == JoinAndClear(s)
         IN  /\ r \in LoaderType
             /\ r.c \in {s.c, Append(s.c, [k |-> "wait", n |-> Len(s.t)])}
             /\ r.t = s.t
             /\ r.sched = NoEvents /\ r.computeEv = NoEvents
<1> DEFINE joined == IF s.pending THEN [JoinTransfer(s) EXCEPT !.pending = FALSE] ELSE s
           r == [ClearMaps(joined) EXCEPT !.outstanding = NoLabels]
<1>1. /\ joined \in LoaderType /\ joined.t = s.t
      /\ joined.c \in {s.c, Append(s.c, [k |-> "wait", n |-> Len(s.t)])}
  BY JoinTransferFacts DEF LoaderType
<1> HIDE DEF joined
<1>2. r \in LoaderType /\ SameStreams(joined, r) /\ r.sched = NoEvents /\ r.computeEv = NoEvents
  BY <1>1, ClearMapsFacts, EmptyMaps DEF LoaderType, SameStreams
<1>3. JoinAndClear(s) = r
  BY DEF JoinAndClear, joined
<1>4. QED
  BY <1>1, <1>2, <1>3 DEF SameStreams

LEMMA StartPassFacts ==
  ASSUME NEW s \in LoaderType
  PROVE  LET r == StartPass(s)
         IN  /\ r \in LoaderType
             /\ r.c \in {s.c, Append(s.c, [k |-> "wait", n |-> Len(s.t)])}
             /\ r.t = s.t
             /\ ~r.pending /\ r.computeEv = NoEvents /\ r.lastBlock = EmptySlots
             /\ r.sched = IF Recovering(s) THEN NoEvents ELSE s.sched
<1> DEFINE joined  == IF s.pending \/ s.sched # NoEvents THEN JoinTransfer(s) ELSE s
           cleared == IF Recovering(s) THEN ClearMaps(joined)
                      ELSE [s EXCEPT !.computeEv = NoEvents, !.lastBlock = EmptySlots]
           r == ResetPolicy([cleared EXCEPT !.pending = FALSE])
<1>1. /\ joined \in LoaderType /\ joined.t = s.t
      /\ joined.c \in {s.c, Append(s.c, [k |-> "wait", n |-> Len(s.t)])}
  BY JoinTransferFacts
<1> HIDE DEF joined
<1>2. /\ cleared \in LoaderType /\ cleared.t = s.t
      /\ cleared.c \in {s.c, Append(s.c, [k |-> "wait", n |-> Len(s.t)])}
      /\ cleared.computeEv = NoEvents /\ cleared.lastBlock = EmptySlots
      /\ cleared.sched = IF Recovering(s) THEN NoEvents ELSE s.sched
  <2>1. CASE Recovering(s)
    BY <2>1, <1>1, ClearMapsFacts DEF SameStreams
  <2>2. CASE ~Recovering(s)
    BY <2>2, EmptyMaps DEF LoaderType
  <2>3. QED
    BY <2>1, <2>2
<1> HIDE DEF cleared
<1>3. /\ r \in LoaderType /\ r.c = cleared.c /\ r.t = cleared.t /\ ~r.pending
      /\ r.computeEv = cleared.computeEv /\ r.lastBlock = cleared.lastBlock
      /\ r.sched = cleared.sched
  BY <1>2, EmptyMaps DEF ResetPolicy, LoaderType
<1>4. StartPass(s) = r
  BY DEF StartPass, joined, cleared
<1>5. QED
  BY <1>2, <1>3, <1>4

LEMMA ForkFacts ==
  ASSUME NEW s \in LoaderType
  PROVE  LET r == Fork(s)
         IN  /\ r \in LoaderType /\ r.c = s.c /\ r.pending
             /\ s.pending => r = s
             /\ ~s.pending => r.t = Append(s.t, [k |-> "wait", n |-> Len(s.c)])
             /\ r.sched = s.sched /\ r.computeEv = s.computeEv /\ r.lastBlock = s.lastBlock
<1>1. CASE s.pending
  BY <1>1 DEF Fork
<1>2. CASE ~s.pending
  <2> DEFINE w == OnTransfer(s, "wait", Len(s.c))
  <2>1. /\ w \in LoaderType /\ w.c = s.c
        /\ w.t = Append(s.t, [k |-> "wait", n |-> Len(s.c)]) /\ SameMaps(s, w)
    BY OnTransferFacts, StreamFacts
  <2>2. Fork(s) = [w EXCEPT !.pending = TRUE]
    BY <1>2 DEF Fork
  <2> HIDE DEF w
  <2>3. QED
    BY <1>2, <2>1, <2>2 DEF LoaderType, SameMaps
<1>3. QED
  BY <1>1, <1>2

LEMMA AwaitBlockFacts ==
  ASSUME plan \in Plans, NEW s \in LoaderType, NEW t \in Transfers(plan)
  PROVE  LET r    == AwaitBlock(s, t)
             b    == plan.block[t]
             last == s.lastBlock[b]
         IN  /\ r \in LoaderType /\ r.c = s.c /\ r.pending = s.pending
             /\ r.sched = s.sched /\ r.computeEv = s.computeEv
             /\ r.lastBlock = [s.lastBlock EXCEPT ![b] = t]
             /\ last # 0 => last \in Transfers(plan) /\ plan.t2c[last] \in Layers
             /\ IF last # 0 /\ s.computeEv[plan.t2c[last]] # NoEvent
                  THEN /\ s.computeEv[plan.t2c[last]] \in Nat
                       /\ r.t = Append(s.t, [k |-> "wait", n |-> s.computeEv[plan.t2c[last]]])
                  ELSE r.t = s.t
<1> DEFINE b    == plan.block[t]
           last == s.lastBlock[b]
           free == IF last # 0 /\ s.computeEv[plan.t2c[last]] # NoEvent
                     THEN OnTransfer(s, "wait", s.computeEv[plan.t2c[last]])
                     ELSE s
<1>1. b \in Blocks
  BY PlanFacts
<1>2. last # 0 => last \in Transfers(plan) /\ plan.t2c[last] \in Layers
  BY <1>1, PlanFacts DEF LoaderType
<1>3. last # 0 /\ s.computeEv[plan.t2c[last]] # NoEvent => s.computeEv[plan.t2c[last]] \in Nat
  BY <1>2 DEF LoaderType, Event
<1>4. /\ free \in LoaderType /\ free.c = s.c /\ SameMaps(s, free)
      /\ IF last # 0 /\ s.computeEv[plan.t2c[last]] # NoEvent
           THEN free.t = Append(s.t, [k |-> "wait", n |-> s.computeEv[plan.t2c[last]]])
           ELSE free.t = s.t
  BY <1>3, OnTransferFacts DEF SameMaps
<1>5. AwaitBlock(s, t) = [free EXCEPT !.lastBlock[b] = t]
  BY DEF AwaitBlock
<1> HIDE DEF b, last, free
<1>6. LET r == [free EXCEPT !.lastBlock[b] = t]
      IN  /\ r \in LoaderType /\ r.c = free.c /\ r.t = free.t /\ r.pending = free.pending
          /\ r.sched = free.sched /\ r.computeEv = free.computeEv
          /\ r.lastBlock = [free.lastBlock EXCEPT ![b] = t]
  BY <1>1, <1>4 DEF LoaderType
<1>7. LET r == AwaitBlock(s, t)
      IN  /\ r \in LoaderType /\ r.c = s.c /\ r.t = free.t /\ r.pending = s.pending
          /\ r.sched = s.sched /\ r.computeEv = s.computeEv
          /\ r.lastBlock = [s.lastBlock EXCEPT ![b] = t]
  BY <1>4, <1>5, <1>6 DEF SameMaps
<1>8. QED
  BY <1>2, <1>3, <1>4, <1>7 DEF b, last

LEMMA ScheduleTransferFacts ==
  ASSUME plan \in Plans, NEW s \in LoaderType, NEW t \in Transfers(plan)
  PROVE  LET r == ScheduleTransfer(s, t)
             f == AwaitBlock(s, t)
         IN  /\ r \in LoaderType /\ r.c = s.c /\ r.pending = s.pending
             /\ r.computeEv = s.computeEv /\ r.lastBlock = f.lastBlock
             /\ r.t = Append(f.t, [k |-> "copy", n |-> t])
             /\ r.sched = [s.sched EXCEPT ![WaitLabel(t)] = Len(r.t)]
<1> DEFINE f      == AwaitBlock(s, t)
           copied == OnTransfer(f, "copy", t)
           marked == [copied EXCEPT !.sched[WaitLabel(t)] = Len(copied.t)]
<1>1. t \in Layers /\ t \in Nat /\ WaitLabel(t) \in Layers
  BY PlanFacts DEF WaitLabel, Layers
<1>2. /\ f \in LoaderType /\ f.c = s.c /\ f.pending = s.pending
      /\ f.sched = s.sched /\ f.computeEv = s.computeEv
  BY AwaitBlockFacts
<1> HIDE DEF f
<1>3. /\ copied \in LoaderType /\ copied.c = f.c /\ SameMaps(f, copied)
      /\ copied.t = Append(f.t, [k |-> "copy", n |-> t])
  BY <1>1, <1>2, OnTransferFacts
<1>4. Len(copied.t) \in Nat
  BY <1>3, StreamFacts
<1> HIDE DEF copied
<1>5. /\ marked \in LoaderType /\ marked.c = copied.c /\ marked.t = copied.t
      /\ marked.pending = copied.pending /\ marked.computeEv = copied.computeEv
      /\ marked.lastBlock = copied.lastBlock
      /\ marked.sched = [copied.sched EXCEPT ![WaitLabel(t)] = Len(copied.t)]
  BY <1>1, <1>3, <1>4 DEF LoaderType, Event
<1>6. ScheduleTransfer(s, t) = OnSchedule(marked, t, WaitLabel(t))
  BY DEF ScheduleTransfer, copied, f
<1> HIDE DEF marked
<1>7. LET r == ScheduleTransfer(s, t)
      IN  r \in LoaderType /\ SameStreams(marked, r) /\ SameMaps(marked, r)
  BY <1>1, <1>5, <1>6, OnScheduleFacts
<1>8. QED
  BY <1>2, <1>3, <1>5, <1>7 DEF SameStreams, SameMaps, f

LEMMA AwaitTransferFacts ==
  ASSUME NEW s \in LoaderType, NEW l \in Layers
  PROVE  LET r == AwaitTransfer(s, l)
         IN  /\ r \in LoaderType /\ r.t = s.t /\ SameMaps(s, r)
             /\ IF s.sched[l] # NoEvent
                  THEN /\ s.sched[l] \in Nat
                       /\ r.c = Append(s.c, [k |-> "wait", n |-> s.sched[l]])
                  ELSE r.c = s.c
<1>1. CASE s.sched[l] # NoEvent
  <2> DEFINE w == OnCompute(s, "wait", s.sched[l])
  <2>1. s.sched[l] \in Nat
    BY <1>1 DEF LoaderType, Event
  <2>2. /\ w \in LoaderType /\ w.t = s.t /\ SameMaps(s, w)
        /\ w.c = Append(s.c, [k |-> "wait", n |-> s.sched[l]])
    BY <2>1, OnComputeFacts
  <2>3. AwaitTransfer(s, l) = OnWait(w, l)
    BY <1>1 DEF AwaitTransfer
  <2> HIDE DEF w
  <2>4. QED
    BY <1>1, <2>1, <2>2, <2>3, OnWaitFacts DEF SameStreams, SameMaps
<1>2. CASE s.sched[l] = NoEvent
  BY <1>2 DEF AwaitTransfer, SameMaps
<1>3. QED
  BY <1>1, <1>2

(* Streams only get longer, by waits, reads and copies of the plan. *)
Longer(s, r) == /\ Len(s.c) <= Len(r.c) /\ Len(s.t) <= Len(r.t)
                /\ CopiesOfPlan(s) => CopiesOfPlan(r)

LEMMA LongerTransitive ==
  ASSUME NEW s \in LoaderType, NEW f \in LoaderType, NEW r \in LoaderType,
         Longer(s, f), Longer(f, r)
  PROVE  Longer(s, r)
BY StreamFacts DEF Longer

Extends(q, p) ==
  p = q \/ \E k \in {"wait", "read", "copy"}, n \in Nat :
             /\ p = Append(q, [k |-> k, n |-> n])
             /\ k = "copy" => n \in Transfers(plan)

LEMMA LongerByAppend ==
  ASSUME NEW s \in LoaderType, NEW r \in LoaderType, Extends(s.c, r.c), Extends(s.t, r.t)
  PROVE  Longer(s, r)
<1>1. ASSUME NEW q \in Seq(Op), NEW p \in Seq(Op), Extends(q, p)
      PROVE  /\ Len(q) <= Len(p)
             /\ (\A i \in 1 .. Len(q) : q[i].k = "copy" => q[i].n \in Transfers(plan))
                => \A i \in 1 .. Len(p) : p[i].k = "copy" => p[i].n \in Transfers(plan)
  <2>1. CASE p = q
    BY <2>1
  <2>2. CASE p # q
    <3>1. PICK k \in {"wait", "read", "copy"}, n \in Nat :
                 /\ p = Append(q, [k |-> k, n |-> n])
                 /\ k = "copy" => n \in Transfers(plan)
      BY <1>1, <2>2 DEF Extends
    <3>2. [k |-> k, n |-> n] \in Op
      BY DEF Op
    <3>3. QED
      BY <3>1, <3>2, AppendFacts
  <2>3. QED
    BY <2>1, <2>2
<1>2. QED
  BY <1>1, StreamFacts DEF Longer, CopiesOfPlan

LEMMA StartPassType ==
  ASSUME NEW s \in LoaderType
  PROVE  StartPass(s) \in LoaderType /\ Longer(s, StartPass(s))
<1>1. Extends(s.c, StartPass(s).c) /\ Extends(s.t, StartPass(s).t)
  BY StartPassFacts, StreamFacts DEF Extends
<1>2. QED
  BY <1>1, StartPassFacts, LongerByAppend

LEMMA ForkType ==
  ASSUME NEW s \in LoaderType
  PROVE  Fork(s) \in LoaderType /\ Longer(s, Fork(s))
<1>1. Extends(s.c, Fork(s).c) /\ Extends(s.t, Fork(s).t)
  BY ForkFacts, StreamFacts DEF Extends
<1>2. QED
  BY <1>1, ForkFacts, LongerByAppend

LEMMA AwaitTransferType ==
  ASSUME NEW s \in LoaderType, NEW l \in Layers
  PROVE  AwaitTransfer(s, l) \in LoaderType /\ Longer(s, AwaitTransfer(s, l))
<1>1. Extends(s.c, AwaitTransfer(s, l).c) /\ Extends(s.t, AwaitTransfer(s, l).t)
  BY AwaitTransferFacts DEF Extends
<1>2. QED
  BY <1>1, AwaitTransferFacts, LongerByAppend

LEMMA JoinAndClearType ==
  ASSUME NEW s \in LoaderType
  PROVE  JoinAndClear(s) \in LoaderType /\ Longer(s, JoinAndClear(s))
<1>1. Extends(s.c, JoinAndClear(s).c) /\ Extends(s.t, JoinAndClear(s).t)
  BY JoinAndClearFacts, StreamFacts DEF Extends
<1>2. QED
  BY <1>1, JoinAndClearFacts, LongerByAppend

LEMMA ScheduleTransferType ==
  ASSUME plan \in Plans, NEW s \in LoaderType, NEW t \in Transfers(plan)
  PROVE  ScheduleTransfer(s, t) \in LoaderType /\ Longer(s, ScheduleTransfer(s, t))
<1> DEFINE f == AwaitBlock(s, t)
           r == ScheduleTransfer(s, t)
<1>1. f \in LoaderType /\ f.c = s.c
  BY AwaitBlockFacts
<1> DEFINE last == s.lastBlock[plan.block[t]]
           ev   == s.computeEv[plan.t2c[last]]
<1>0. f.t = s.t \/ (ev \in Nat /\ f.t = Append(s.t, [k |-> "wait", n |-> ev]))
  BY AwaitBlockFacts
<1>2. t \in Nat
  BY PlanFacts DEF Layers
<1>3. r \in LoaderType /\ r.c = f.c /\ r.t = Append(f.t, [k |-> "copy", n |-> t])
  BY <1>1, ScheduleTransferFacts
<1> HIDE DEF f, r, ev
<1>4. Extends(s.c, f.c) /\ Extends(s.t, f.t) /\ Extends(f.c, r.c) /\ Extends(f.t, r.t)
  BY <1>0, <1>1, <1>2, <1>3 DEF Extends
<1>5. Longer(s, f) /\ Longer(f, r)
  BY <1>1, <1>3, <1>4, LongerByAppend
<1>6. QED
  BY <1>1, <1>3, <1>5, LongerTransitive DEF r

LEMMA EnterLayerType ==
  ASSUME plan \in Plans, NEW s \in LoaderType, NEW l \in Layers
  PROVE  EnterLayer(s, l) \in LoaderType /\ Longer(s, EnterLayer(s, l))
<1> DEFINE started == IF l = 1 THEN StartPass(s) ELSE s
           forked  == Fork(started)
           ready   == IF reordered THEN AwaitTransfer(forked, l) ELSE forked
           done    == IF l \in Transfers(plan) THEN ScheduleTransfer(ready, l) ELSE ready
<1>0. s \in LoaderType /\ Longer(s, s)
  BY StreamFacts DEF Longer
<1>1. started \in LoaderType /\ Longer(s, started)
  BY <1>0, StartPassType
<1> HIDE DEF started
<1>2. forked \in LoaderType /\ Longer(s, forked)
  BY <1>1, ForkType, LongerTransitive
<1> HIDE DEF forked
<1>3. ready \in LoaderType /\ Longer(s, ready)
  BY <1>2, AwaitTransferType, LongerTransitive
<1> HIDE DEF ready
<1>4. done \in LoaderType /\ Longer(s, done)
  BY <1>3, ScheduleTransferType, LongerTransitive
<1>5. EnterLayer(s, l) = done
  BY DEF EnterLayer, done, ready, forked, started
<1> HIDE DEF done
<1>6. QED
  BY <1>4, <1>5

(* exit, before the maps are dropped at the last layer. *)
Recorded(s, l) ==
  LET waited == IF reordered THEN s ELSE AwaitTransfer(s, l)
  IN  [waited EXCEPT !.computeEv[l] = Len(waited.c)]

LEMMA RecordedFacts ==
  ASSUME NEW s \in LoaderType, NEW l \in Layers
  PROVE  LET waited == IF reordered THEN s ELSE AwaitTransfer(s, l)
             r == Recorded(s, l)
         IN  /\ r \in LoaderType /\ waited \in LoaderType
             /\ SameStreams(waited, r) /\ Longer(s, r)
             /\ r.sched = s.sched /\ r.lastBlock = s.lastBlock /\ r.pending = s.pending
             /\ r.computeEv = [s.computeEv EXCEPT ![l] = Len(waited.c)]
<1> DEFINE waited == IF reordered THEN s ELSE AwaitTransfer(s, l)
<1>1. waited \in LoaderType /\ SameMaps(s, waited) /\ Longer(s, waited)
  <2>1. CASE reordered
    BY <2>1, StreamFacts DEF Longer, SameMaps
  <2>2. CASE ~reordered
    BY <2>2, AwaitTransferFacts, AwaitTransferType
  <2>3. QED
    BY <2>1, <2>2
<1>2. Len(waited.c) \in Nat
  BY <1>1, StreamFacts
<1>3. Recorded(s, l) = [waited EXCEPT !.computeEv[l] = Len(waited.c)]
  BY DEF Recorded
<1> HIDE DEF waited
<1>4. LET r == [waited EXCEPT !.computeEv[l] = Len(waited.c)]
      IN  /\ r \in LoaderType /\ r.c = waited.c /\ r.t = waited.t
          /\ r.sched = waited.sched /\ r.lastBlock = waited.lastBlock
          /\ r.pending = waited.pending
          /\ r.computeEv = [waited.computeEv EXCEPT ![l] = Len(waited.c)]
  BY <1>1, <1>2 DEF LoaderType, Event
<1>5. QED
  BY <1>1, <1>3, <1>4 DEF SameMaps, SameStreams, Longer, CopiesOfPlan, waited

LEMMA ExitLayerType ==
  ASSUME NEW s \in LoaderType, NEW l \in Layers
  PROVE  ExitLayer(s, l) \in LoaderType /\ Longer(s, ExitLayer(s, l))
<1>1. Recorded(s, l) \in LoaderType /\ Longer(s, Recorded(s, l))
  BY RecordedFacts
<1>2. ExitLayer(s, l) = IF l = NLayers THEN JoinAndClear(Recorded(s, l)) ELSE Recorded(s, l)
  BY DEF ExitLayer, Recorded
<1>3. QED
  BY <1>1, <1>2, JoinAndClearType, LongerTransitive

-----------------------------------------------------------------------------
(* Type correctness, for every plan the loader may be given.               *)

TypeInv == TypeOK /\ StageShape /\ CopiesOfPlan(ld)

LEMMA PlansOfBlockPlans == BlockPlans \subseteq Plans
BY BlockPlansAssumption DEF CheckedPlans

LEMMA TypeInit == Init => TypeInv
<1> SUFFICES ASSUME Init PROVE TypeInv
  OBVIOUS
<1> USE DEF Init
<1>1. ld \in LoaderType
  BY EmptyMaps DEF LoaderType
<1>2. todo \subseteq Transfers(plan)
  BY DEF FindTransfersForPreload
<1>3. mem \in [Blocks -> Layers \cup {0}]
  BY DEF EmptySlots
<1>4. reordered \in BOOLEAN
  BY VariantsAssumption
<1>5. cdone \in 0 .. Len(ld.c) /\ tdone \in 0 .. Len(ld.t)
  OBVIOUS
<1>6. passes \in 0 .. MaxPasses /\ breaks \in 0 .. MaxBreaks
  BY BoundsAssumption
<1>7. QED
  BY <1>1, <1>2, <1>3, <1>4, <1>5, <1>6 DEF TypeInv, TypeOK, StageShape, InPass, CopiesOfPlan

(* Where a forward or piece begins. *)
Sessions == [c : Nat, entered : Layers \cup {0}, left : Layers \cup {0}]

LEMMA SessionBoundary ==
  ASSUME layer \in Layers \cup {0}, StageShape, NEW s \in LoaderType,
         stage \in {"outside", "entered", "launched"}
  PROVE  Here(s) \in Sessions /\ Here(s).c = Len(s.c)
<1>1. LayersLeft \in Layers \cup {0}
  <2>1. CASE stage = "outside"
    BY <2>1 DEF LayersLeft
  <2>2. CASE stage # "outside"
    BY <2>2, NLayersAssumption DEF LayersLeft, Layers, StageShape, InPass
  <2>3. QED
    BY <2>1, <2>2
<1>2. QED
  BY <1>1, StreamFacts DEF Here, Sessions

(* A host step that grows the streams and leaves the GPU alone. *)
LEMMA TypeAfterHostStep ==
  ASSUME TypeInv, UNCHANGED <<plan, reordered, gpuVars>>,
         ld' \in LoaderType, Longer(ld, ld'),
         todo' \subseteq Transfers(plan),
         stage' \in {"preload", "outside", "entered", "launched", "closed"},
         layer' \in Layers \cup {0},
         passes' \in 0 .. MaxPasses, breaks' \in 0 .. MaxBreaks,
         boundary' \in Sessions
  PROVE  TypeOK' /\ CopiesOfPlan(ld)'
<1>1. LoaderType' = LoaderType /\ Transfers(plan)' = Transfers(plan)
  BY DEF LoaderType, Transfers
<1>2. ld' \in LoaderType'
  BY <1>1
<1>3. cdone' \in 0 .. Len(ld'.c) /\ tdone' \in 0 .. Len(ld'.t)
  <2>1. cdone \in 0 .. Len(ld.c) /\ tdone \in 0 .. Len(ld.t) /\ ld \in LoaderType
    BY DEF TypeInv, TypeOK
  <2>2. /\ Len(ld.c) \in Nat /\ Len(ld'.c) \in Nat
        /\ Len(ld.t) \in Nat /\ Len(ld'.t) \in Nat
    BY <2>1, StreamFacts
  <2>3. QED
    BY <2>1, <2>2 DEF Longer, gpuVars
<1>4. CopiesOfPlan(ld)'
  <2>1. CopiesOfPlan(ld')
    BY DEF TypeInv, Longer
  <2>2. QED
    BY <2>1 DEF CopiesOfPlan, Transfers
<1>5. QED
  BY <1>1, <1>2, <1>3, <1>4 DEF TypeInv, TypeOK, gpuVars, Sessions

LEMMA TypeStep == TypeInv /\ [Next]_vars => TypeInv'
<1> SUFFICES ASSUME TypeInv, [Next]_vars PROVE TypeInv'
  OBVIOUS
<1> DEFINE Host == /\ ld' \in LoaderType /\ Longer(ld, ld')
                   /\ StageShape'
<1>0. /\ plan \in Plans /\ ld \in LoaderType /\ Longer(ld, ld)
      /\ Len(ld.c) \in Nat /\ Len(ld.t) \in Nat
  BY PlansOfBlockPlans, StreamFacts DEF TypeInv, TypeOK, Longer
<1>1. ASSUME NEW t \in Layers, PreloadCopy(t) PROVE TypeInv'
  <2>1. t \in Nat
    BY DEF Layers
  <2>2. /\ ld' \in LoaderType /\ ld'.c = ld.c
        /\ ld'.t = Append(ld.t, [k |-> "copy", n |-> t])
    BY <1>0, <1>1, <2>1, OnTransferFacts DEF PreloadCopy
  <2>3. Longer(ld, ld')
    BY <1>0, <1>1, <2>1, <2>2, LongerByAppend DEF Extends, PreloadCopy, TypeInv, TypeOK
  <2>4. TypeOK' /\ CopiesOfPlan(ld)'
    BY <1>1, <2>2, <2>3, TypeAfterHostStep DEF PreloadCopy, TypeInv, TypeOK, Sessions
  <2>5. QED
    BY <1>1, <2>4 DEF PreloadCopy, TypeInv, StageShape, InPass
<1>2. ASSUME PreloadDone PROVE TypeInv'
  <2> DEFINE preloaded == FindTransfersForPreload(plan)
             j     == JoinTransfer(ld)
             slots == [b \in Blocks |-> IF \E t \in preloaded : plan.block[t] = b
                                          THEN CHOOSE t \in preloaded : plan.block[t] = b
                                          ELSE 0]
             evs   == [l \in Layers |-> IF reordered /\ \E t \in preloaded : plan.t2c[t] = l
                                          THEN Len(ld.t) ELSE NoEvent]
  <2>1. j \in LoaderType /\ Longer(ld, j)
    BY <1>0, JoinTransferFacts, LongerByAppend DEF Extends
  <2>2. slots \in [Blocks -> Transfers(plan) \cup {0}]
    <3>1. preloaded \subseteq Transfers(plan)
      BY DEF FindTransfersForPreload
    <3> HIDE DEF preloaded
    <3>2. QED
      BY <3>1
  <2>3. evs \in [Layers -> Event]
    BY <1>0 DEF Event
  <2>4. ld' = [j EXCEPT !.lastBlock = slots, !.sched = evs]
    BY <1>2 DEF PreloadDone
  <2> HIDE DEF j, slots, evs
  <2>5. ld' \in LoaderType /\ ld'.c = j.c /\ ld'.t = j.t
    BY <2>1, <2>2, <2>3, <2>4 DEF LoaderType
  <2>6. Longer(ld, ld')
    BY <2>1, <2>5 DEF Longer, CopiesOfPlan
  <2>7. TypeOK' /\ CopiesOfPlan(ld)'
    BY <1>2, <2>5, <2>6, TypeAfterHostStep DEF PreloadDone, TypeInv, TypeOK, Sessions
  <2>8. QED
    BY <1>2, <2>7 DEF PreloadDone, TypeInv, StageShape, InPass
<1>3. ASSUME NEW l \in Layers, Enter(l) PROVE TypeInv'
  <2>1. ld' \in LoaderType /\ Longer(ld, ld')
    BY <1>0, <1>3, EnterLayerType DEF Enter
  <2>2. boundary' \in Sessions
    BY <1>0, <1>3, SessionBoundary DEF Enter, TypeInv, TypeOK, Sessions
  <2>3. passes' \in 0 .. MaxPasses
    BY <1>3, BoundsAssumption DEF Enter, TypeInv, TypeOK
  <2>4. TypeOK' /\ CopiesOfPlan(ld)'
    BY <1>3, <2>1, <2>2, <2>3, TypeAfterHostStep DEF Enter, TypeInv, TypeOK
  <2>5. QED
    BY <1>3, <2>4 DEF Enter, TypeInv, StageShape, InPass, Layers
<1>4. ASSUME Launch PROVE TypeInv'
  <2>1. layer \in Nat
    BY DEF TypeInv, TypeOK, Layers
  <2>2. /\ ld' \in LoaderType /\ ld'.t = ld.t
        /\ ld'.c = Append(ld.c, [k |-> "read", n |-> layer])
    BY <1>0, <1>4, <2>1, OnComputeFacts DEF Launch
  <2>3. Longer(ld, ld')
    BY <1>0, <2>1, <2>2, LongerByAppend DEF Extends
  <2>4. TypeOK' /\ CopiesOfPlan(ld)'
    BY <1>4, <2>2, <2>3, TypeAfterHostStep DEF Launch, TypeInv, TypeOK, Sessions
  <2>5. QED
    BY <1>4, <2>4 DEF Launch, TypeInv, StageShape, InPass
<1>5. ASSUME Exit PROVE TypeInv'
  <2>1. layer \in Layers
    BY <1>5 DEF Exit, TypeInv, TypeOK, StageShape, InPass
  <2>2. ld' \in LoaderType /\ Longer(ld, ld')
    BY <1>0, <1>5, <2>1, ExitLayerType DEF Exit
  <2>3. TypeOK' /\ CopiesOfPlan(ld)'
    BY <1>5, <2>1, <2>2, TypeAfterHostStep DEF Exit, TypeInv, TypeOK, Sessions
  <2>4. QED
    BY <1>5, <2>3 DEF Exit, TypeInv, StageShape, InPass
<1>6. ASSUME Abort PROVE TypeInv'
  <2>1. breaks' \in 0 .. MaxBreaks
    BY <1>6, BoundsAssumption DEF Abort, TypeInv, TypeOK
  <2>2. TypeOK' /\ CopiesOfPlan(ld)'
    BY <1>0, <1>6, <2>1, TypeAfterHostStep DEF Abort, TypeInv, TypeOK, Sessions
  <2>3. QED
    BY <1>6, <2>2 DEF Abort, TypeInv, StageShape, InPass
<1>7. ASSUME JoinAfterForward PROVE TypeInv'
  <2>1. ld' \in LoaderType /\ Longer(ld, ld')
    BY <1>0, <1>7, JoinAndClearType DEF JoinAfterForward
  <2>2. boundary' \in Sessions
    BY <1>7, <2>1, SessionBoundary DEF JoinAfterForward, TypeInv, TypeOK
  <2>3. breaks' \in 0 .. MaxBreaks
    BY <1>7, BoundsAssumption DEF JoinAfterForward, TypeInv, TypeOK
  <2>4. stage' \in {"outside", "entered", "launched"} /\ layer' \in Layers \cup {0}
    BY <1>7 DEF JoinAfterForward, TypeInv, TypeOK
  <2>5. TypeOK' /\ CopiesOfPlan(ld)'
    BY <1>7, <2>1, <2>2, <2>3, <2>4, TypeAfterHostStep DEF JoinAfterForward, TypeInv, TypeOK
  <2>6. QED
    BY <1>7, <2>5 DEF JoinAfterForward, TypeInv, StageShape, InPass
<1>8. ASSUME SyncPrevOnload PROVE TypeInv'
  <2>1. ld' \in LoaderType /\ Longer(ld, ld')
    BY <1>0, <1>8, JoinTransferFacts, LongerByAppend DEF SyncPrevOnload, Extends
  <2>2. TypeOK' /\ CopiesOfPlan(ld)'
    BY <1>8, <2>1, TypeAfterHostStep DEF SyncPrevOnload, TypeInv, TypeOK, Sessions
  <2>3. QED
    BY <1>8, <2>2 DEF SyncPrevOnload, TypeInv, StageShape, InPass
<1>9. ASSUME Shutdown PROVE TypeInv'
  <2>1. TypeOK' /\ CopiesOfPlan(ld)'
    BY <1>0, <1>9, TypeAfterHostStep DEF Shutdown, TypeInv, TypeOK, Sessions
  <2>2. QED
    BY <1>9, <2>1 DEF Shutdown, TypeInv, StageShape, InPass
<1>10. ASSUME ComputeStep PROVE TypeInv'
  <2>1. cdone' \in 0 .. Len(ld'.c)
    BY <1>0, <1>10 DEF ComputeStep, ComputeReady, hostVars, TypeInv, TypeOK
  <2>2. QED
    BY <1>10, <2>1 DEF ComputeStep, hostVars, TypeInv, TypeOK, StageShape, InPass,
                       LoaderType, Transfers, CopiesOfPlan
<1>11. ASSUME TransferStep PROVE TypeInv'
  <2>1. tdone' \in 0 .. Len(ld'.t)
    BY <1>0, <1>11 DEF TransferStep, TransferReady, hostVars, TypeInv, TypeOK
  <2>2. mem' \in [Blocks -> Layers \cup {0}]
    <3>1. mem \in [Blocks -> Layers \cup {0}]
      BY DEF TypeInv, TypeOK
    <3>2. CASE NextTransfer.k = "copy"
      <4>1. tdone + 1 \in 1 .. Len(ld.t)
        BY <1>0, <1>11 DEF TransferStep, TransferReady, TypeInv, TypeOK
      <4>2. plan.t2c[NextTransfer.n] \in Layers
        BY <1>0, <3>2, <4>1, PlanFacts DEF NextTransfer, TypeInv, CopiesOfPlan
      <4>3. QED
        BY <1>11, <3>1, <3>2, <4>2 DEF TransferStep
    <3>3. CASE NextTransfer.k # "copy"
      BY <1>11, <3>1, <3>3 DEF TransferStep
    <3>4. QED
      BY <3>2, <3>3
  <2>3. QED
    BY <1>11, <2>1, <2>2 DEF TransferStep, hostVars, TypeInv, TypeOK, StageShape, InPass,
                       LoaderType, Transfers, CopiesOfPlan
<1>12. CASE UNCHANGED vars
  BY <1>12 DEF vars, hostVars, gpuVars, TypeInv, TypeOK, StageShape, InPass,
               LoaderType, Transfers, CopiesOfPlan
<1>13. QED
  BY <1>1, <1>2, <1>3, <1>4, <1>5, <1>6, <1>7, <1>8, <1>9, <1>10, <1>11, <1>12
     DEF Next, HostStep

(* Every state of the loader, its streams and the blocks is well-typed. *)
THEOREM TypeCorrect == Spec => []TypeOK
<1>1. TypeInv => TypeOK
  BY DEF TypeInv
<1>2. QED
  BY TypeInit, TypeStep, <1>1, PTL DEF Spec

-----------------------------------------------------------------------------
(* Appending keeps StaticInv: any wait for what is already enqueued, a read
   whose copy can be named, a copy ordered after the block's readers. *)

LEMMA AppendToCompute ==
  ASSUME NEW s \in LoaderType, NEW r \in LoaderType, NEW o \in Op,
         StaticInv(s), r.c = Append(s.c, o), r.t = s.t,
         o.k = "wait" => o.n <= Len(s.t),
         o.k = "read" => \A u \in Transfers(plan) : plan.t2c[u] = o.n =>
            \E i \in 1 .. Len(s.t) : SourceOf(r, u, i, Len(s.c) + 1)
  PROVE  StaticInv(r) /\ Grows(s, r)
<1>1. /\ Len(s.c) \in Nat /\ Len(s.t) \in Nat
      /\ Len(r.c) = Len(s.c) + 1
      /\ \A j \in 1 .. Len(s.c) : r.c[j] = s.c[j]
      /\ r.c[Len(s.c) + 1] = o
  BY StreamFacts, AppendFacts
<1>2. Grows(s, r)
  BY <1>1 DEF Grows
<1>3. CopiesOfPlan(r)
  BY DEF StaticInv, CopiesOfPlan
<1>4. WaitsBounded(r)
  BY <1>1, StreamFacts DEF StaticInv, WaitsBounded
<1>5. ReadsOrdered(r)
  <2> SUFFICES ASSUME NEW j \in 1 .. Len(r.c), r.c[j].k = "read",
                      NEW u \in Transfers(plan), plan.t2c[u] = r.c[j].n
               PROVE  \E i \in 1 .. Len(r.t) : SourceOf(r, u, i, j)
    BY DEF ReadsOrdered
  <2>1. CASE j = Len(s.c) + 1
    BY <2>1, <1>1
  <2>2. CASE j \in 1 .. Len(s.c)
    <3>1. PICK i \in 1 .. Len(s.t) : SourceOf(s, u, i, j)
      BY <2>2, <1>1 DEF StaticInv, ReadsOrdered
    <3>2. SourceOf(r, u, i, j)
      BY <2>2, <3>1, <1>1 DEF SourceOf
    <3>3. QED
      BY <3>2
  <2>3. QED
    BY <1>1, <2>1, <2>2
<1>6. QED
  BY <1>2, <1>3, <1>4, <1>5 DEF StaticInv

LEMMA AppendToTransfer ==
  ASSUME NEW s \in LoaderType, NEW r \in LoaderType, NEW o \in Op,
         StaticInv(s), r.t = Append(s.t, o), r.c = s.c,
         o.k = "wait" => o.n <= Len(s.c),
         o.k = "copy" =>
           /\ o.n \in Transfers(plan)
           /\ \A j \in 1 .. Len(s.c), u \in Transfers(plan) :
                /\ s.c[j].k = "read" /\ plan.t2c[u] = s.c[j].n
                /\ plan.block[u] = plan.block[o.n]
                => TransferAwaits(s, j)
  PROVE  StaticInv(r) /\ Grows(s, r)
<1>1. /\ Len(s.c) \in Nat /\ Len(s.t) \in Nat
      /\ Len(r.t) = Len(s.t) + 1
      /\ \A i \in 1 .. Len(s.t) : r.t[i] = s.t[i]
      /\ r.t[Len(s.t) + 1] = o
  BY StreamFacts, AppendFacts
<1>2. Grows(s, r)
  BY <1>1 DEF Grows
<1>3. CopiesOfPlan(r)
  BY <1>1 DEF StaticInv, CopiesOfPlan
<1>4. WaitsBounded(r)
  BY <1>1, StreamFacts DEF StaticInv, WaitsBounded
<1>5. ReadsOrdered(r)
  <2> SUFFICES ASSUME NEW j \in 1 .. Len(s.c), s.c[j].k = "read",
                      NEW u \in Transfers(plan), plan.t2c[u] = s.c[j].n
               PROVE  \E i \in 1 .. Len(r.t) : SourceOf(r, u, i, j)
    BY DEF ReadsOrdered
  <2>1. PICK i \in 1 .. Len(s.t) : SourceOf(s, u, i, j)
    BY DEF StaticInv, ReadsOrdered
  <2>2. r.t[i] = [k |-> "copy", n |-> u]
    BY <2>1, <1>1 DEF SourceOf
  <2>3. \E h \in 1 .. (j - 1) : r.c[h].k = "wait" /\ r.c[h].n >= i
    BY <2>1 DEF SourceOf
  <2>4. ASSUME NEW m \in (i + 1) .. Len(r.t), r.t[m].k = "copy",
               plan.block[r.t[m].n] = plan.block[u]
        PROVE  \E h \in 1 .. (m - 1) : r.t[h].k = "wait" /\ r.t[h].n >= j
    <3>1. CASE m = Len(s.t) + 1
      <4>1. TransferAwaits(s, j)
        BY <2>4, <3>1, <1>1
      <4>2. QED
        BY <4>1, <3>1, <1>1 DEF TransferAwaits
    <3>2. CASE m \in (i + 1) .. Len(s.t)
      <4>1. m \in 1 .. Len(s.t)
        BY <3>2, <1>1
      <4>2. PICK h \in 1 .. (m - 1) : s.t[h].k = "wait" /\ s.t[h].n >= j
        BY <2>1, <2>4, <3>2, <4>1, <1>1 DEF SourceOf
      <4>3. h \in 1 .. Len(s.t)
        BY <4>1, <1>1
      <4>4. QED
        BY <4>2, <4>3, <1>1
    <3>3. QED
      BY <3>1, <3>2, <1>1
  <2>5. i \in 1 .. Len(r.t)
    BY <1>1
  <2>6. QED
    BY <2>2, <2>3, <2>4, <2>5 DEF SourceOf
<1>6. QED
  BY <1>2, <1>3, <1>4, <1>5 DEF StaticInv

LEMMA StaticSameStreams ==
  ASSUME NEW s, NEW r, StaticInv(s), SameStreams(s, r)
  PROVE  StaticInv(r)
BY DEF SameStreams, StaticInv, CopiesOfPlan, WaitsBounded, ReadsOrdered, SourceOf

(* Sound: what every state of the loader's streams and maps satisfies. *)
Sound(s) == s \in LoaderType /\ StaticInv(s) /\ EventsBounded(s)

LEMMA GrowsTransitive ==
  ASSUME NEW s \in LoaderType, NEW f \in LoaderType, NEW r \in LoaderType,
         Grows(s, f), Grows(f, r)
  PROVE  Grows(s, r)
<1>1. /\ Len(s.c) \in Nat /\ Len(f.c) \in Nat /\ Len(r.c) \in Nat
      /\ Len(s.t) \in Nat /\ Len(f.t) \in Nat /\ Len(r.t) \in Nat
  BY StreamFacts
<1>2. Len(s.c) <= Len(r.c) /\ Len(s.t) <= Len(r.t)
  BY <1>1 DEF Grows
<1>3. ASSUME NEW j \in 1 .. Len(s.c) PROVE r.c[j] = s.c[j]
  <2>1. f.c[j] = s.c[j] /\ j \in 1 .. Len(f.c)
    BY <1>1 DEF Grows
  <2>2. QED
    BY <2>1 DEF Grows
<1>4. ASSUME NEW i \in 1 .. Len(s.t) PROVE r.t[i] = s.t[i]
  <2>1. f.t[i] = s.t[i] /\ i \in 1 .. Len(f.t)
    BY <1>1 DEF Grows
  <2>2. QED
    BY <2>1 DEF Grows
<1>5. QED
  BY <1>2, <1>3, <1>4 DEF Grows

LEMMA EventsAreIntegers ==
  ASSUME NEW s \in LoaderType
  PROVE  \A l \in Layers : s.sched[l] \in Int /\ s.computeEv[l] \in Int
BY DEF LoaderType, Event, NoEvent

LEMMA EventsAfterGrowth ==
  ASSUME NEW s \in LoaderType, NEW r \in LoaderType, EventsBounded(s), Grows(s, r),
         r.sched \in {s.sched, NoEvents}, r.computeEv \in {s.computeEv, NoEvents}
  PROVE  EventsBounded(r)
<1>1. \A l \in Layers : s.sched[l] \in Int /\ s.computeEv[l] \in Int
  BY EventsAreIntegers
<1>2. QED
  BY <1>1, StreamFacts, EmptyMaps DEF EventsBounded, Grows

LEMMA WaitOnCompute ==
  ASSUME NEW s, Sound(s), NEW r \in LoaderType, NEW n \in Nat, n <= Len(s.t),
         r.c = Append(s.c, [k |-> "wait", n |-> n]), r.t = s.t
  PROVE  StaticInv(r) /\ Grows(s, r)
<1>1. [k |-> "wait", n |-> n] \in Op
  BY DEF Op
<1>2. QED
  BY <1>1, AppendToCompute DEF Sound

LEMMA WaitOnTransfer ==
  ASSUME NEW s, Sound(s), NEW r \in LoaderType, NEW n \in Nat, n <= Len(s.c),
         r.t = Append(s.t, [k |-> "wait", n |-> n]), r.c = s.c
  PROVE  StaticInv(r) /\ Grows(s, r)
<1>1. [k |-> "wait", n |-> n] \in Op
  BY DEF Op
<1>2. QED
  BY <1>1, AppendToTransfer DEF Sound

LEMMA UnchangedStreams ==
  ASSUME NEW s, Sound(s), NEW r \in LoaderType, SameStreams(s, r)
  PROVE  StaticInv(r) /\ Grows(s, r)
<1>1. StaticInv(r)
  BY StaticSameStreams DEF Sound
<1>2. QED
  BY <1>1, StreamFacts DEF Sound, SameStreams, Grows

(* join and fork: a wait for everything the other stream has so far. *)
LEMMA JoinSound ==
  ASSUME NEW s, Sound(s), NEW r \in LoaderType,
         r.c \in {s.c, Append(s.c, [k |-> "wait", n |-> Len(s.t)])}, r.t = s.t,
         r.sched \in {s.sched, NoEvents}, r.computeEv \in {s.computeEv, NoEvents}
  PROVE  Sound(r) /\ Grows(s, r)
<1>1. Len(s.t) \in Nat
  BY StreamFacts DEF Sound
<1>2. StaticInv(r) /\ Grows(s, r)
  BY <1>1, WaitOnCompute, UnchangedStreams DEF SameStreams
<1>3. QED
  BY <1>2, EventsAfterGrowth DEF Sound

LEMMA ForwardPlanFacts ==
  ASSUME plan \in ForwardPlans
  PROVE  /\ plan \in Plans
         /\ \A t \in Transfers(plan) :
              t \in Layers /\ plan.t2c[t] \in Layers /\ t < plan.t2c[t]
         /\ \A t, u \in Transfers(plan) :
              plan.block[t] = plan.block[u] /\ t < u => plan.t2c[t] < u
<1>1. plan \in Plans /\ CheckOverlapConstraint(plan) /\ FindTransfersForPreload(plan) = {}
  BY DEF ForwardPlans
<1>2. \A t \in Transfers(plan) : t \in Layers /\ plan.t2c[t] \in Layers
  BY <1>1, PlanFacts
<1>3. ASSUME NEW t \in Transfers(plan) PROVE t < plan.t2c[t]
  <2>1. plan.t2c[t] # t
    BY <1>1 DEF CheckOverlapConstraint
  <2>2. ~(plan.t2c[t] < t)
    BY <1>1 DEF FindTransfersForPreload
  <2>3. QED
    BY <1>2, <2>1, <2>2 DEF Layers
<1>4. ASSUME NEW t \in Transfers(plan), NEW u \in Transfers(plan),
             plan.block[t] = plan.block[u], t < u, u <= plan.t2c[t]
      PROVE  FALSE
  <2>1. u \in ExecutionRange(plan, t) /\ u \in ExecutionRange(plan, u)
    BY <1>2, <1>3, <1>4 DEF ExecutionRange, Layers
  <2>2. t # u
    BY <1>2, <1>4 DEF Layers
  <2>3. QED
    BY <1>1, <1>4, <2>1, <2>2 DEF CheckOverlapConstraint
<1>5. QED
  BY <1>1, <1>2, <1>3, <1>4 DEF Layers

-----------------------------------------------------------------------------
(* enter of the first layer: the join of what is left, then the fork.      *)

LEMMA StartForked ==
  ASSUME plan \in Plans, NEW s, Sound(s)
  PROVE  LET f == Fork(StartPass(s))
         IN  Sound(f) /\ Grows(s, f) /\ PassInv(f, 0, Len(s.c), "outside")
<1> DEFINE p == StartPass(s)
           f == Fork(p)
<1>1. /\ p \in LoaderType /\ p.t = s.t /\ ~p.pending /\ p.computeEv = NoEvents
      /\ p.c \in {s.c, Append(s.c, [k |-> "wait", n |-> Len(s.t)])}
      /\ p.sched \in {s.sched, NoEvents}
  BY StartPassFacts DEF Sound
<1>2. Sound(p) /\ Grows(s, p)
  BY <1>1, JoinSound
<1> HIDE DEF p
<1>3. /\ f \in LoaderType /\ f.c = p.c /\ f.pending
      /\ f.t = Append(p.t, [k |-> "wait", n |-> Len(p.c)])
      /\ f.sched = p.sched /\ f.computeEv = p.computeEv
  BY <1>1, ForkFacts
<1> HIDE DEF f
<1>4. StaticInv(f) /\ Grows(p, f)
  <2>1. Len(p.c) \in Nat /\ Len(p.c) <= Len(p.c)
    BY <1>1, StreamFacts
  <2>2. QED
    BY <1>2, <1>3, <2>1, WaitOnTransfer
<1>5. Sound(f) /\ Grows(s, f)
  BY <1>2, <1>3, <1>4, EventsAfterGrowth, GrowsTransitive DEF Sound
<1>6. PassInv(f, 0, Len(s.c), "outside")
  <2>1. \A j \in (Len(s.c) + 1) .. Len(f.c) : f.c[j].k # "read"
    <3>1. s \in LoaderType /\ [k |-> "wait", n |-> Len(s.t)] \in Op
      BY StreamFacts DEF Sound, Op
    <3>2. QED
      BY <1>1, <1>3, <3>1, StreamFacts, AppendFacts
  <2>2. EarlierReadsAwaited(f, Len(s.c))
    <3>1. Len(s.c) <= Len(p.c) /\ Len(s.c) \in Nat /\ Len(p.c) \in Nat
      BY <1>1, <1>2, StreamFacts DEF Grows, Sound
    <3>2. [k |-> "wait", n |-> Len(p.c)] \in Op
      BY <3>1 DEF Op
    <3>3. QED
      BY <1>1, <1>3, <3>1, <3>2, StreamFacts, AppendFacts DEF EarlierReadsAwaited, TransferAwaits
  <2>3. ReadsOfPass(f, 0, Len(s.c), "outside") /\ ReadsRecorded(f, 0, Len(s.c), "outside")
    BY <2>1 DEF ReadsOfPass, ReadsRecorded
  <2>4. ReplacedReadsAwaited(f, Len(s.c))
    BY <2>1 DEF ReplacedReadsAwaited
  <2>5. \A u \in Transfers(plan) : ~(u <= 0)
    BY PlanFacts DEF Layers
  <2>6. QED
    BY <2>2, <2>3, <2>4, <2>5 DEF PassInv, SlotsCurrent, CopiesScheduled, CopiesAwaited
<1>7. QED
  BY <1>5, <1>6 DEF f, p

-----------------------------------------------------------------------------
(* Inside a forward.                                                       *)

(* A wait on the compute stream disturbs nothing and covers its event. *)
LEMMA AwaitTransferInPass ==
  ASSUME NEW s, Sound(s), NEW l \in Layers, NEW L \in Nat, NEW base \in Nat, NEW st,
         PassInv(s, L, base, st)
  PROVE  LET r == AwaitTransfer(s, l)
         IN  /\ Sound(r) /\ Grows(s, r) /\ SameMaps(s, r)
             /\ PassInv(r, L, base, st)
             /\ s.sched[l] # NoEvent => ComputeAwaits(r, s.sched[l])
<1> DEFINE r == AwaitTransfer(s, l)
<1>1. /\ r \in LoaderType /\ r.t = s.t /\ SameMaps(s, r)
      /\ IF s.sched[l] # NoEvent
           THEN /\ s.sched[l] \in Nat
                /\ r.c = Append(s.c, [k |-> "wait", n |-> s.sched[l]])
           ELSE r.c = s.c
  BY AwaitTransferFacts DEF Sound
<1> HIDE DEF r
<1>2. CASE s.sched[l] = NoEvent
  <2>1. SameStreams(s, r)
    BY <1>1, <1>2 DEF SameStreams
  <2>2. Sound(r) /\ Grows(s, r)
    BY <1>1, <2>1, UnchangedStreams, EventsAfterGrowth DEF Sound, SameMaps
  <2>3. PassInv(r, L, base, st)
    <3> USE <1>1, <2>1 DEF SameStreams, SameMaps, PassInv
    <3>1. EarlierReadsAwaited(r, base)
      BY DEF EarlierReadsAwaited, TransferAwaits
    <3>2. ReadsOfPass(r, L, base, st)
      BY DEF ReadsOfPass
    <3>3. ReadsRecorded(r, L, base, st)
      BY DEF ReadsRecorded
    <3>4. SlotsCurrent(r, L)
      BY DEF SlotsCurrent
    <3>5. ReplacedReadsAwaited(r, base)
      BY DEF ReplacedReadsAwaited, TransferAwaits
    <3>6. CopiesScheduled(r, L)
      BY DEF CopiesScheduled
    <3>7. CopiesAwaited(r, L, st)
      BY DEF CopiesAwaited, ComputeAwaits
    <3>8. QED
      BY <3>1, <3>2, <3>3, <3>4, <3>5, <3>6, <3>7
  <2>4. QED
    BY <1>1, <1>2, <2>2, <2>3 DEF r
<1>3. CASE s.sched[l] # NoEvent
  <2>1. /\ s.sched[l] \in Nat /\ s.sched[l] <= Len(s.t)
        /\ [k |-> "wait", n |-> s.sched[l]] \in Op
    BY <1>1, <1>3 DEF Sound, EventsBounded, Op
  <2>2. StaticInv(r) /\ Grows(s, r)
    BY <1>1, <1>3, <2>1, WaitOnCompute
  <2>3. Sound(r)
    BY <1>1, <2>2, EventsAfterGrowth DEF Sound, SameMaps
  <2>4. /\ Len(s.c) \in Nat /\ Len(r.c) = Len(s.c) + 1
        /\ \A j \in 1 .. Len(s.c) : r.c[j] = s.c[j]
        /\ r.c[Len(s.c) + 1] = [k |-> "wait", n |-> s.sched[l]]
    <3>1. s.c \in Seq(Op)
      BY StreamFacts DEF Sound
    <3>2. r.c = Append(s.c, [k |-> "wait", n |-> s.sched[l]])
      BY <1>1, <1>3
    <3>3. QED
      BY <2>1, <3>1, <3>2, AppendFacts
  <2>5. \A j \in (base + 1) .. Len(r.c) : r.c[j].k = "read" =>
          j \in (base + 1) .. Len(s.c) /\ r.c[j] = s.c[j] /\ s.c[j].k = "read"
    BY <2>4
  <2>6. EarlierReadsAwaited(r, base)
    BY <1>1 DEF SameMaps, PassInv, EarlierReadsAwaited, TransferAwaits
  <2>7. ReadsOfPass(r, L, base, st) /\ ReadsRecorded(r, L, base, st)
    BY <1>1, <2>5 DEF SameMaps, PassInv, ReadsOfPass, ReadsRecorded
  <2>8. ReplacedReadsAwaited(r, base)
    BY <1>1, <2>5 DEF SameMaps, PassInv, ReplacedReadsAwaited, TransferAwaits
  <2>9. SlotsCurrent(r, L) /\ CopiesScheduled(r, L)
    BY <1>1 DEF SameMaps, PassInv, SlotsCurrent, CopiesScheduled
  <2>10. \A i : ComputeAwaits(s, i) => ComputeAwaits(r, i)
    BY <2>4 DEF ComputeAwaits
  <2>11. CopiesAwaited(r, L, st)
    BY <1>1, <2>10 DEF SameMaps, PassInv, CopiesAwaited
  <2>12. ComputeAwaits(r, s.sched[l])
    BY <2>1, <2>4 DEF ComputeAwaits
  <2>13. QED
    BY <1>1, <2>2, <2>3, <2>6, <2>7, <2>8, <2>9, <2>11, <2>12 DEF PassInv, r
<1>4. QED
  BY <1>2, <1>3

(* What the reordered loader has made sure of before it schedules. *)
NeededAwaited(s, l) ==
  reordered => \A u \in Transfers(plan) : u < l /\ plan.t2c[u] = l =>
                 ComputeAwaits(s, s.sched[WaitLabel(u)])

(* A layer that issues no copy. *)
LEMMA EnteredWithoutTransfer ==
  ASSUME plan \in ForwardPlans, NEW s, Sound(s), NEW l \in Layers, l \notin Transfers(plan),
         NEW base \in Nat, PassInv(s, l - 1, base, "outside"), NeededAwaited(s, l)
  PROVE  PassInv(s, l, base, "entered")
<1>1. l \in Nat /\ l >= 1
  BY DEF Layers
<1>2. \A u \in Transfers(plan) : /\ u \in Int /\ plan.t2c[u] \in Int
                                 /\ u <= l => u <= l - 1 /\ u < l
  BY <1>1, ForwardPlanFacts DEF Layers
<1>3. \A j \in (base + 1) .. Len(s.c) : s.c[j].n \in Int
  BY StreamFacts DEF Sound
<1>4. ReadsOfPass(s, l, base, "entered")
  BY <1>1, <1>3 DEF PassInv, ReadsOfPass
<1>5. ReadsRecorded(s, l, base, "entered")
  BY DEF PassInv, ReadsRecorded
<1>6. SlotsCurrent(s, l) /\ CopiesScheduled(s, l)
  BY <1>1, <1>2 DEF PassInv, SlotsCurrent, CopiesScheduled
<1>7. CopiesAwaited(s, l, "entered")
  <2> SUFFICES ASSUME NEW u \in Transfers(plan), u <= l,
                      IF reordered THEN plan.t2c[u] <= l ELSE u < l \/ "entered" = "outside"
               PROVE  ComputeAwaits(s, s.sched[WaitLabel(u)])
    BY DEF CopiesAwaited
  <2>1. CASE reordered /\ plan.t2c[u] = l
    BY <1>2, <2>1 DEF NeededAwaited
  <2>2. CASE reordered /\ plan.t2c[u] # l
    BY <1>1, <1>2, <2>2 DEF PassInv, CopiesAwaited
  <2>3. CASE ~reordered
    BY <1>2, <2>3 DEF PassInv, CopiesAwaited
  <2>4. QED
    BY <2>1, <2>2, <2>3
<1>8. QED
  BY <1>4, <1>5, <1>6, <1>7 DEF PassInv

(* The key step: after the wait for the block's last kernel, if there is one
   to wait for, every kernel that reads the block is awaited. *)
LEMMA BlockReadsAwaited ==
  ASSUME plan \in ForwardPlans, NEW s, Sound(s), NEW l \in Transfers(plan),
         NEW base \in Nat, PassInv(s, l - 1, base, "outside")
  PROVE  LET f == AwaitBlock(s, l)
         IN  /\ StaticInv(f) /\ Grows(s, f)
             /\ \A j \in 1 .. Len(s.c), u \in Transfers(plan) :
                  /\ s.c[j].k = "read" /\ plan.t2c[u] = s.c[j].n
                  /\ plan.block[u] = plan.block[l]
                  => TransferAwaits(f, j)
<1> DEFINE f    == AwaitBlock(s, l)
           b    == plan.block[l]
           last == s.lastBlock[b]
           ev   == s.computeEv[plan.t2c[last]]
<1>1. plan \in Plans /\ s \in LoaderType
  BY ForwardPlanFacts DEF Sound
<1>2. /\ f \in LoaderType /\ f.c = s.c
      /\ last # 0 => last \in Transfers(plan) /\ plan.t2c[last] \in Layers
      /\ IF last # 0 /\ ev # NoEvent
           THEN ev \in Nat /\ f.t = Append(s.t, [k |-> "wait", n |-> ev])
           ELSE f.t = s.t
  BY <1>1, AwaitBlockFacts
<1> HIDE DEF f, last
<1>3. StaticInv(f) /\ Grows(s, f)
  <2>1. CASE last # 0 /\ ev # NoEvent
    <3>1. ev \in Nat /\ ev <= Len(s.c)
      BY <1>2, <2>1 DEF Sound, EventsBounded
    <3>2. QED
      BY <1>2, <2>1, <3>1, WaitOnTransfer
  <2>2. CASE ~(last # 0 /\ ev # NoEvent)
    BY <1>2, <2>2, UnchangedStreams DEF SameStreams
  <2>3. QED
    BY <2>1, <2>2
<1>4. ASSUME NEW j, TransferAwaits(s, j) PROVE TransferAwaits(f, j)
  <2>1. Len(s.t) \in Nat /\ Len(f.t) \in Nat
    BY <1>1, <1>2, StreamFacts
  <2>2. QED
    BY <1>3, <1>4, <2>1 DEF TransferAwaits, Grows
<1>5. ASSUME NEW j \in 1 .. Len(s.c), NEW u \in Transfers(plan),
             s.c[j].k = "read", plan.t2c[u] = s.c[j].n, plan.block[u] = plan.block[l]
      PROVE  TransferAwaits(f, j)
  <2>1. CASE j <= base
    <3>1. PICK i \in 1 .. Len(s.t) : s.t[i].k = "wait" /\ s.t[i].n >= base
      BY DEF PassInv, EarlierReadsAwaited, TransferAwaits
    <3>2. s.t[i].n \in Nat
      BY <1>1, StreamFacts
    <3>3. TransferAwaits(s, j)
      BY <2>1, <3>1, <3>2 DEF TransferAwaits
    <3>4. QED
      BY <1>4, <3>3
  <2>2. CASE ~(j <= base)
    <3>1. Len(s.c) \in Nat /\ j \in (base + 1) .. Len(s.c)
      BY <1>1, <2>2, StreamFacts
    <3>2. CASE last # u
      <4>1. TransferAwaits(s, j)
        BY <1>5, <3>1, <3>2 DEF PassInv, ReplacedReadsAwaited, last
      <4>2. QED
        BY <1>4, <4>1
    <3>3. CASE last = u
      <4>1. last # 0 /\ ev >= j /\ ev \in Int
        <5>1. s.computeEv[s.c[j].n] >= j
          BY <1>5, <3>1 DEF PassInv, ReadsRecorded
        <5>2. last # 0 /\ plan.t2c[u] \in Layers
          BY <1>1, <3>3, PlanFacts DEF Layers
        <5>3. ev \in Int
          BY <1>1, <3>3, <5>2 DEF LoaderType, Event, NoEvent
        <5>4. QED
          BY <1>5, <3>3, <5>1, <5>2, <5>3
      <4>2. ev # NoEvent
        BY <4>1 DEF NoEvent
      <4>3. ev \in Nat /\ f.t = Append(s.t, [k |-> "wait", n |-> ev])
        BY <1>2, <4>1, <4>2
      <4>4. [k |-> "wait", n |-> ev] \in Op /\ s.t \in Seq(Op)
        BY <1>1, <4>3, StreamFacts DEF Op
      <4> HIDE DEF ev
      <4>5. /\ Len(s.t) \in Nat /\ Len(f.t) = Len(s.t) + 1
            /\ f.t[Len(s.t) + 1] = [k |-> "wait", n |-> ev]
        BY <4>3, <4>4, AppendFacts
      <4>6. QED
        BY <4>1, <4>5 DEF TransferAwaits
    <3>4. QED
      BY <3>2, <3>3
  <2>3. QED
    BY <2>1, <2>2
<1>6. QED
  BY <1>3, <1>5 DEF f

(* A layer that issues a copy. *)
LEMMA EnteredWithTransfer ==
  ASSUME plan \in ForwardPlans, NEW s, Sound(s), NEW l \in Transfers(plan),
         NEW base \in Nat, PassInv(s, l - 1, base, "outside"), NeededAwaited(s, l)
  PROVE  LET r == ScheduleTransfer(s, l)
         IN  Sound(r) /\ Grows(s, r) /\ PassInv(r, l, base, "entered")
<1> DEFINE f == AwaitBlock(s, l)
           r == ScheduleTransfer(s, l)
           b == plan.block[l]
           o == [k |-> "copy", n |-> l]
<1>1. plan \in Plans /\ s \in LoaderType /\ l \in Layers /\ l \in Nat /\ b \in Blocks
  BY ForwardPlanFacts, PlanFacts DEF Sound, Layers
<1>2. /\ f \in LoaderType /\ f.c = s.c
      /\ f.sched = s.sched /\ f.computeEv = s.computeEv
      /\ f.lastBlock = [s.lastBlock EXCEPT ![b] = l]
      /\ f.t = s.t \/ \E n \in Nat : f.t = Append(s.t, [k |-> "wait", n |-> n])
  <2>1. f \in LoaderType /\ f.c = s.c /\ f.sched = s.sched /\ f.computeEv = s.computeEv
    BY <1>1, AwaitBlockFacts
  <2>2. f.lastBlock = [s.lastBlock EXCEPT ![b] = l]
    BY <1>1, AwaitBlockFacts
  <2>3. f.t = s.t \/ \E n \in Nat : f.t = Append(s.t, [k |-> "wait", n |-> n])
    BY <1>1, AwaitBlockFacts
  <2>4. QED
    BY <2>1, <2>2, <2>3
<1>3. /\ StaticInv(f) /\ Grows(s, f)
      /\ \A j \in 1 .. Len(s.c), u \in Transfers(plan) :
           s.c[j].k = "read" /\ plan.t2c[u] = s.c[j].n /\ plan.block[u] = b
           => TransferAwaits(f, j)
  BY BlockReadsAwaited
<1>4. /\ r \in LoaderType /\ r.c = s.c /\ r.pending = s.pending
      /\ r.computeEv = s.computeEv /\ r.lastBlock = f.lastBlock
      /\ r.t = Append(f.t, o)
      /\ r.sched = [s.sched EXCEPT ![WaitLabel(l)] = Len(r.t)]
  BY <1>1, ScheduleTransferFacts
<1>5. o \in Op
  BY <1>1 DEF Op
<1> HIDE DEF f, r
<1>6. StaticInv(r) /\ Grows(f, r)
  BY <1>1, <1>2, <1>3, <1>4, <1>5, AppendToTransfer
<1>7. Grows(s, r)
  BY <1>1, <1>2, <1>3, <1>4, <1>6, GrowsTransitive
<1>8. /\ Len(s.c) \in Nat /\ Len(s.t) \in Nat /\ Len(f.t) \in Nat
      /\ Len(s.t) <= Len(f.t) /\ Len(r.t) = Len(f.t) + 1
      /\ \A i \in 1 .. Len(s.t) : r.t[i] = s.t[i]
      /\ r.t[Len(r.t)] = o
      /\ \A m \in (Len(s.t) + 1) .. Len(f.t) : r.t[m].k = "wait"
  <2>1. Len(s.c) \in Nat /\ s.t \in Seq(Op) /\ f.t \in Seq(Op)
    BY <1>1, <1>2, StreamFacts
  <2>2. /\ Len(r.t) = Len(f.t) + 1 /\ r.t[Len(r.t)] = o
        /\ \A i \in 1 .. Len(f.t) : r.t[i] = f.t[i]
    BY <1>4, <1>5, <2>1, AppendFacts
  <2>3. \A m \in (Len(s.t) + 1) .. Len(f.t) : f.t[m].k = "wait"
    <3>1. CASE f.t = s.t
      BY <2>1, <3>1
    <3>2. CASE f.t # s.t
      <4>1. PICK n \in Nat : f.t = Append(s.t, [k |-> "wait", n |-> n])
        BY <1>2, <3>2
      <4>2. [k |-> "wait", n |-> n] \in Op
        BY DEF Op
      <4>3. QED
        BY <2>1, <4>1, <4>2, AppendFacts
    <3>3. QED
      BY <3>1, <3>2
  <2>4. Len(s.t) \in Nat /\ Len(f.t) \in Nat /\ Len(s.t) <= Len(f.t)
    BY <1>3, <2>1 DEF Grows
  <2>5. \A i \in 1 .. Len(s.t) : r.t[i] = s.t[i]
    BY <1>7 DEF Grows
  <2>6. ASSUME NEW m \in (Len(s.t) + 1) .. Len(f.t) PROVE r.t[m].k = "wait"
    <3>1. m \in 1 .. Len(f.t)
      BY <2>4
    <3>2. r.t[m] = f.t[m]
      BY <2>2, <3>1
    <3>3. QED
      BY <2>3, <3>2
  <2>7. QED
    BY <2>1, <2>2, <2>4, <2>5, <2>6
<1>9. \A u \in Transfers(plan) :
        /\ u \in Int /\ plan.t2c[u] \in Int /\ u < plan.t2c[u]
        /\ plan.block[u] \in Blocks /\ WaitLabel(u) \in Layers
        /\ u # l => WaitLabel(u) # WaitLabel(l)
        /\ u # l /\ u <= l => u <= l - 1
  <2>1. \A u \in Transfers(plan) :
          /\ u \in Layers /\ plan.t2c[u] \in Layers /\ u < plan.t2c[u]
          /\ plan.block[u] \in Blocks /\ (plan.t2c[u] = plan.t2c[l] => u = l)
    BY <1>1, ForwardPlanFacts, PlanFacts
  <2>2. QED
    BY <1>1, <2>1 DEF Layers, WaitLabel
<1>10. \A w \in Layers : s.sched[w] \in Int /\ s.computeEv[w] \in Int
  BY <1>1, EventsAreIntegers
<1>11. /\ \A w \in Layers : w # WaitLabel(l) => r.sched[w] = s.sched[w]
       /\ r.sched[WaitLabel(l)] = Len(r.t)
  BY <1>1, <1>4, <1>9 DEF LoaderType
<1>12. /\ r.lastBlock[b] = l
       /\ \A d \in Blocks : d # b => r.lastBlock[d] = s.lastBlock[d]
  BY <1>1, <1>2, <1>4 DEF LoaderType
<1>13. EventsBounded(r)
  <2>1. \A w \in Layers : s.sched[w] <= Len(s.t) /\ s.computeEv[w] <= Len(s.c)
    BY DEF Sound, EventsBounded
  <2>2. QED
    BY <1>4, <1>8, <1>10, <1>11, <2>1 DEF EventsBounded
<1>14. \A j : TransferAwaits(s, j) \/ TransferAwaits(f, j) => TransferAwaits(r, j)
  <2>1. \A i \in 1 .. Len(s.t) : i \in 1 .. Len(r.t) /\ r.t[i] = s.t[i]
    BY <1>8
  <2>2. \A i \in 1 .. Len(f.t) : i \in 1 .. Len(r.t) /\ r.t[i] = f.t[i]
    BY <1>6, <1>8 DEF Grows
  <2>3. QED
    BY <2>1, <2>2 DEF TransferAwaits
<1>15. EarlierReadsAwaited(r, base)
  BY <1>4, <1>14 DEF PassInv, EarlierReadsAwaited
<1>16. ReadsOfPass(r, l, base, "entered")
  <2>1. \A j \in (base + 1) .. Len(s.c) : s.c[j].n \in Int
    BY <1>1, StreamFacts
  <2>2. QED
    BY <1>1, <1>4, <2>1 DEF PassInv, ReadsOfPass
<1>17. ReadsRecorded(r, l, base, "entered")
  BY <1>4 DEF PassInv, ReadsRecorded
<1>18. SlotsCurrent(r, l)
  <2> SUFFICES ASSUME NEW u \in Transfers(plan), u <= l
               PROVE  r.lastBlock[plan.block[u]] \in
                        {w \in Transfers(plan) : u <= w /\ w <= l /\ plan.block[w] = plan.block[u]}
    BY DEF SlotsCurrent
  <2>1. CASE plan.block[u] = b
    BY <1>1, <1>12, <2>1
  <2>2. CASE plan.block[u] # b
    <3>1. u <= l - 1
      BY <1>9, <2>2
    <3>2. s.lastBlock[plan.block[u]] \in
            {w \in Transfers(plan) : u <= w /\ w <= l - 1 /\ plan.block[w] = plan.block[u]}
      BY <3>1 DEF PassInv, SlotsCurrent
    <3>3. r.lastBlock[plan.block[u]] = s.lastBlock[plan.block[u]]
      BY <1>9, <1>12, <2>2
    <3>4. PICK w \in Transfers(plan) : /\ s.lastBlock[plan.block[u]] = w
                                       /\ u <= w /\ w <= l - 1 /\ plan.block[w] = plan.block[u]
      BY <3>2
    <3>5. w <= l
      BY <1>1, <1>9, <3>4
    <3>6. QED
      BY <3>3, <3>4, <3>5
  <2>3. QED
    BY <2>1, <2>2
<1>19. ReplacedReadsAwaited(r, base)
  <2> SUFFICES ASSUME NEW j \in (base + 1) .. Len(s.c), NEW u \in Transfers(plan),
                      s.c[j].k = "read", plan.t2c[u] = s.c[j].n,
                      r.lastBlock[plan.block[u]] # u
               PROVE  TransferAwaits(r, j)
    BY <1>4 DEF ReplacedReadsAwaited
  <2>1. CASE plan.block[u] = b
    <3>1. j \in 1 .. Len(s.c)
      BY <1>8
    <3>2. QED
      BY <1>3, <1>14, <2>1, <3>1
  <2>2. CASE plan.block[u] # b
    <3>1. s.lastBlock[plan.block[u]] # u
      BY <1>9, <1>12, <2>2
    <3>2. QED
      BY <1>14, <3>1 DEF PassInv, ReplacedReadsAwaited
  <2>3. QED
    BY <2>1, <2>2
<1>20. CopiesScheduled(r, l)
  <2> SUFFICES ASSUME NEW u \in Transfers(plan), u <= l
               PROVE  LET e == r.sched[WaitLabel(u)]
                      IN  /\ e \in 1 .. Len(r.t)
                          /\ r.t[e] = [k |-> "copy", n |-> u]
                          /\ r.lastBlock[plan.block[u]] = u =>
                               (\A m \in (e + 1) .. Len(r.t) :
                                  r.t[m].k = "copy" => plan.block[r.t[m].n] # plan.block[u])
    BY DEF CopiesScheduled
  <2>1. CASE u = l
    BY <1>8, <1>11, <2>1
  <2>2. CASE u # l
    <3> DEFINE e == r.sched[WaitLabel(u)]
    <3>1. e = s.sched[WaitLabel(u)]
      BY <1>9, <1>11, <2>2
    <3>2. /\ e \in 1 .. Len(s.t) /\ s.t[e] = [k |-> "copy", n |-> u]
          /\ s.lastBlock[plan.block[u]] = u =>
               (\A m \in (e + 1) .. Len(s.t) :
                  s.t[m].k = "copy" => plan.block[s.t[m].n] # plan.block[u])
      BY <1>9, <2>2, <3>1 DEF PassInv, CopiesScheduled
    <3> HIDE DEF e
    <3>3. e \in 1 .. Len(r.t) /\ r.t[e] = [k |-> "copy", n |-> u]
      BY <1>8, <3>2
    <3>4. ASSUME r.lastBlock[plan.block[u]] = u, NEW m \in (e + 1) .. Len(r.t), r.t[m].k = "copy"
          PROVE  plan.block[r.t[m].n] # plan.block[u]
      <4>1. plan.block[u] # b
        BY <1>12, <2>2, <3>4
      <4>2. s.lastBlock[plan.block[u]] = u
        BY <1>9, <1>12, <3>4, <4>1
      <4>3. CASE m \in (e + 1) .. Len(s.t)
        <5>1. m \in 1 .. Len(s.t)
          BY <3>2, <4>3, <1>8
        <5>2. QED
          BY <1>8, <3>2, <3>4, <4>2, <4>3, <5>1
      <4>4. CASE m \in (Len(s.t) + 1) .. Len(f.t)
        BY <1>8, <3>4, <4>4
      <4>5. CASE m = Len(r.t)
        BY <1>8, <4>1, <4>5
      <4>6. QED
        BY <1>8, <3>2, <4>3, <4>4, <4>5
    <3>5. QED
      BY <3>3, <3>4 DEF e
  <2>3. QED
    BY <2>1, <2>2
<1>21. CopiesAwaited(r, l, "entered")
  <2> SUFFICES ASSUME NEW u \in Transfers(plan), u <= l,
                      IF reordered THEN plan.t2c[u] <= l ELSE u < l
               PROVE  ComputeAwaits(r, r.sched[WaitLabel(u)])
    BY DEF CopiesAwaited
  <2>1. u # l /\ u <= l - 1 /\ u < l
    BY <1>1, <1>9
  <2>2. ComputeAwaits(s, s.sched[WaitLabel(u)])
    <3>1. CASE reordered /\ plan.t2c[u] = l
      BY <2>1, <3>1 DEF NeededAwaited
    <3>2. CASE reordered /\ plan.t2c[u] # l
      BY <1>1, <1>9, <2>1, <3>2 DEF PassInv, CopiesAwaited
    <3>3. CASE ~reordered
      BY <2>1, <3>3 DEF PassInv, CopiesAwaited
    <3>4. QED
      BY <3>1, <3>2, <3>3
  <2>3. r.sched[WaitLabel(u)] = s.sched[WaitLabel(u)]
    BY <1>9, <1>11, <2>1
  <2>4. QED
    BY <1>4, <2>2, <2>3 DEF ComputeAwaits
<1>22. PassInv(r, l, base, "entered")
  BY <1>15, <1>16, <1>17, <1>18, <1>19, <1>20, <1>21 DEF PassInv
<1>23. QED
  BY <1>4, <1>6, <1>7, <1>13, <1>22 DEF Sound, r

LEMMA EnterLayerSound ==
  ASSUME plan \in ForwardPlans, NEW s, Sound(s), NEW l \in Layers, NEW base \in Nat,
         l = 1 => base = Len(s.c),
         l # 1 => PassInv(s, l - 1, base, "outside")
  PROVE  LET r == EnterLayer(s, l)
         IN  Sound(r) /\ Grows(s, r) /\ PassInv(r, l, base, "entered")
<1> DEFINE f == Fork(IF l = 1 THEN StartPass(s) ELSE s)
           g == IF reordered THEN AwaitTransfer(f, l) ELSE f
           r == IF l \in Transfers(plan) THEN ScheduleTransfer(g, l) ELSE g
<1>1. plan \in Plans /\ l \in Nat /\ l - 1 \in Nat
  BY ForwardPlanFacts DEF Layers
<1>2. Sound(f) /\ Grows(s, f) /\ PassInv(f, l - 1, base, "outside")
  <2>1. CASE l = 1
    <3>1. f = Fork(StartPass(s)) /\ l - 1 = 0
      BY <2>1
    <3>2. QED
      BY <1>1, <2>1, <3>1, StartForked
  <2>2. CASE l # 1
    <3>1. s.pending /\ f = Fork(s)
      BY <2>2 DEF PassInv, EarlierReadsAwaited
    <3>2. f = s
      BY <3>1 DEF Fork
    <3>3. Grows(s, s)
      BY StreamFacts DEF Sound, Grows
    <3>4. QED
      BY <2>2, <3>2, <3>3
  <2>3. QED
    BY <2>1, <2>2
<1> HIDE DEF f
<1>3. /\ Sound(g) /\ Grows(f, g) /\ PassInv(g, l - 1, base, "outside")
      /\ NeededAwaited(g, l)
  <2>1. CASE reordered
    <3>1. /\ Sound(g) /\ Grows(f, g) /\ SameMaps(f, g) /\ PassInv(g, l - 1, base, "outside")
          /\ f.sched[l] # NoEvent => ComputeAwaits(g, f.sched[l])
      BY <1>1, <1>2, <2>1, AwaitTransferInPass
    <3> HIDE DEF g
    <3>2. ASSUME NEW u \in Transfers(plan), u < l, plan.t2c[u] = l
          PROVE  ComputeAwaits(g, g.sched[WaitLabel(u)])
      <4>1. u <= l - 1 /\ WaitLabel(u) = l
        BY <1>1, <2>1, <3>2, PlanFacts DEF WaitLabel, Layers
      <4>2. f.sched[l] \in 1 .. Len(f.t)
        BY <1>2, <4>1 DEF PassInv, CopiesScheduled
      <4>3. f.sched[l] # NoEvent
        BY <4>2 DEF NoEvent
      <4>4. QED
        BY <3>1, <4>1, <4>3 DEF SameMaps
    <3>3. QED
      BY <3>1, <3>2 DEF NeededAwaited
  <2>2. CASE ~reordered
    <3>1. g = f /\ Grows(f, f)
      BY <1>2, <2>2, StreamFacts DEF Sound, Grows
    <3>2. QED
      BY <1>2, <2>2, <3>1 DEF NeededAwaited
  <2>3. QED
    BY <2>1, <2>2
<1> HIDE DEF g
<1>4. Sound(r) /\ Grows(g, r) /\ PassInv(r, l, base, "entered")
  <2>1. CASE l \in Transfers(plan)
    BY <1>3, <2>1, EnteredWithTransfer
  <2>2. CASE l \notin Transfers(plan)
    <3>1. r = g /\ Grows(g, g)
      BY <1>3, <2>2, StreamFacts DEF Sound, Grows
    <3>2. QED
      BY <1>3, <2>2, <3>1, EnteredWithoutTransfer
  <2>3. QED
    BY <2>1, <2>2
<1> HIDE DEF r
<1>5. Grows(s, r)
  <2>1. Grows(s, g)
    BY <1>2, <1>3, GrowsTransitive DEF Sound
  <2>2. QED
    BY <1>3, <1>4, <2>1, GrowsTransitive DEF Sound
<1>6. EnterLayer(s, l) = r
  BY DEF EnterLayer, r, g, f
<1>7. QED
  BY <1>4, <1>5, <1>6

(* While a layer computes, its block still belongs to its transfer. *)
LEMMA BlockStillOwned ==
  ASSUME plan \in ForwardPlans, NEW s, NEW l \in Layers, SlotsCurrent(s, l),
         NEW u \in Transfers(plan), plan.t2c[u] = l
  PROVE  u < l /\ s.lastBlock[plan.block[u]] = u
<1>1. u < l /\ u \in Layers /\ l \in Layers
  BY ForwardPlanFacts
<1>2. PICK w \in Transfers(plan) : /\ s.lastBlock[plan.block[u]] = w
                                   /\ u <= w /\ w <= l /\ plan.block[w] = plan.block[u]
  BY <1>1 DEF SlotsCurrent, Layers
<1>3. ~(u < w)
  <2>1. w \in Layers
    BY ForwardPlanFacts
  <2>2. u < w => plan.t2c[u] < w
    BY <1>2, ForwardPlanFacts
  <2>3. QED
    BY <1>1, <1>2, <2>1, <2>2 DEF Layers
<1>4. u = w
  BY <1>1, <1>2, <1>3, ForwardPlanFacts DEF Layers
<1>5. QED
  BY <1>1, <1>2, <1>4

LEMMA LaunchSound ==
  ASSUME plan \in ForwardPlans, NEW s, Sound(s), NEW l \in Layers, NEW base \in Nat,
         PassInv(s, l, base, "entered")
  PROVE  LET r == OnCompute(s, "read", l)
         IN  Sound(r) /\ Grows(s, r) /\ PassInv(r, l, base, "launched")
<1> DEFINE r == OnCompute(s, "read", l)
           o == [k |-> "read", n |-> l]
           J == Len(s.c) + 1
<1>1. s \in LoaderType /\ l \in Nat /\ o \in Op
  BY DEF Sound, Layers, Op
<1>2. r \in LoaderType /\ r.c = Append(s.c, o) /\ r.t = s.t /\ SameMaps(s, r)
  BY <1>1, OnComputeFacts
<1> HIDE DEF r
<1>3. /\ Len(s.c) \in Nat /\ Len(r.c) = J
      /\ \A j \in 1 .. Len(s.c) : r.c[j] = s.c[j]
      /\ r.c[J] = o
  <2>1. s.c \in Seq(Op)
    BY <1>1, StreamFacts
  <2>2. QED
    BY <1>1, <1>2, <2>1, AppendFacts
<1>4. \A u \in Transfers(plan) : plan.t2c[u] = l =>
        u < l /\ s.lastBlock[plan.block[u]] = u
  BY BlockStillOwned DEF PassInv
<1>5. ASSUME NEW u \in Transfers(plan), plan.t2c[u] = l
      PROVE  \E i \in 1 .. Len(s.t) : SourceOf(r, u, i, J)
  <2> DEFINE e == s.sched[WaitLabel(u)]
  <2>1. u < l /\ u <= l /\ s.lastBlock[plan.block[u]] = u
    <3>1. u \in Int
      BY ForwardPlanFacts DEF Layers
    <3>2. QED
      BY <1>1, <1>4, <1>5, <3>1
  <2>2. /\ e \in 1 .. Len(s.t) /\ s.t[e] = [k |-> "copy", n |-> u]
        /\ \A m \in (e + 1) .. Len(s.t) :
             s.t[m].k = "copy" => plan.block[s.t[m].n] # plan.block[u]
    BY <2>1 DEF PassInv, CopiesScheduled
  <2>3. ComputeAwaits(s, e)
    <3>1. plan.t2c[u] <= l
      BY <1>1, <1>5
    <3>2. QED
      BY <2>1, <3>1 DEF PassInv, CopiesAwaited
  <2> HIDE DEF e
  <2>4. \E h \in 1 .. (J - 1) : r.c[h].k = "wait" /\ r.c[h].n >= e
    BY <1>3, <2>3 DEF ComputeAwaits
  <2> HIDE DEF J
  <2>5. SourceOf(r, u, e, J)
    BY <1>2, <2>2, <2>4 DEF SourceOf
  <2>6. QED
    BY <2>2, <2>5
<1>6. StaticInv(r) /\ Grows(s, r)
  <2>1. \A u \in Transfers(plan) : plan.t2c[u] = o.n =>
          \E i \in 1 .. Len(s.t) : SourceOf(r, u, i, Len(s.c) + 1)
    BY <1>5
  <2>2. o.k = "read"
    OBVIOUS
  <2> HIDE DEF o
  <2>3. QED
    BY <1>1, <1>2, <2>1, <2>2, AppendToCompute DEF Sound
<1>7. Sound(r)
  BY <1>1, <1>2, <1>6, EventsAfterGrowth DEF Sound, SameMaps
<1>8. \A j \in (base + 1) .. Len(r.c) : r.c[j].k = "read" =>
        \/ j \in (base + 1) .. Len(s.c) /\ r.c[j] = s.c[j] /\ s.c[j].k = "read"
        \/ j = J /\ r.c[j].n = l
  BY <1>3
<1>9. \A j \in (base + 1) .. Len(s.c) : s.c[j].n \in Int
  BY <1>1, <1>3, StreamFacts
<1>10. EarlierReadsAwaited(r, base)
  BY <1>2 DEF SameMaps, PassInv, EarlierReadsAwaited, TransferAwaits
<1>11. ReadsOfPass(r, l, base, "launched")
  <2>1. ASSUME NEW j \in (base + 1) .. Len(r.c), r.c[j].k = "read" PROVE r.c[j].n \in 1 .. l
    BY <1>1, <1>8, <2>1 DEF PassInv, ReadsOfPass, Layers
  <2>2. QED
    BY <2>1 DEF ReadsOfPass
<1>12. ReadsRecorded(r, l, base, "launched")
  <2> SUFFICES ASSUME NEW j \in (base + 1) .. Len(r.c), r.c[j].k = "read", r.c[j].n < l
               PROVE  r.computeEv[r.c[j].n] >= j
    BY DEF ReadsRecorded
  <2>1. j \in (base + 1) .. Len(s.c) /\ r.c[j] = s.c[j] /\ s.c[j].k = "read"
    BY <1>1, <1>8
  <2>2. QED
    BY <1>2, <2>1 DEF SameMaps, PassInv, ReadsRecorded
<1>13. ReplacedReadsAwaited(r, base)
  <2> SUFFICES ASSUME NEW j \in (base + 1) .. Len(r.c), NEW u \in Transfers(plan),
                      r.c[j].k = "read", plan.t2c[u] = r.c[j].n,
                      r.lastBlock[plan.block[u]] # u
               PROVE  TransferAwaits(r, j)
    BY DEF ReplacedReadsAwaited
  <2>1. r.lastBlock = s.lastBlock /\ r.t = s.t
    BY <1>2 DEF SameMaps
  <2>2. j \in (base + 1) .. Len(s.c) /\ r.c[j] = s.c[j] /\ s.c[j].k = "read"
    BY <1>4, <1>8, <2>1
  <2>3. TransferAwaits(s, j)
    BY <2>1, <2>2 DEF PassInv, ReplacedReadsAwaited
  <2>4. QED
    BY <2>1, <2>3 DEF TransferAwaits
<1>14. SlotsCurrent(r, l) /\ CopiesScheduled(r, l)
  BY <1>2 DEF SameMaps, PassInv, SlotsCurrent, CopiesScheduled
<1>15. CopiesAwaited(r, l, "launched")
  <2>1. \A i : ComputeAwaits(s, i) => ComputeAwaits(r, i)
    BY <1>3 DEF ComputeAwaits
  <2>2. QED
    BY <1>2, <2>1 DEF SameMaps, PassInv, CopiesAwaited
<1>16. QED
  BY <1>6, <1>7, <1>10, <1>11, <1>12, <1>13, <1>14, <1>15 DEF PassInv, r

LEMMA RecordedSound ==
  ASSUME plan \in ForwardPlans, NEW s, Sound(s), NEW l \in Layers, NEW base \in Nat,
         NEW st \in {"entered", "launched"}, PassInv(s, l, base, st)
  PROVE  LET r == Recorded(s, l)
         IN  Sound(r) /\ Grows(s, r) /\ PassInv(r, l, base, "outside")
<1> DEFINE w == IF reordered THEN s ELSE AwaitTransfer(s, l)
           r == Recorded(s, l)
<1>1. s \in LoaderType /\ l \in Nat
  BY DEF Sound, Layers
<1>2. /\ Sound(w) /\ Grows(s, w) /\ PassInv(w, l, base, st)
      /\ ~reordered /\ s.sched[l] # NoEvent => ComputeAwaits(w, s.sched[l])
      /\ w.sched = s.sched /\ w.computeEv = s.computeEv
  <2>1. CASE reordered
    BY <2>1, StreamFacts DEF Sound, Grows
  <2>2. CASE ~reordered
    BY <1>1, <2>2, AwaitTransferInPass DEF SameMaps
  <2>3. QED
    BY <2>1, <2>2
<1>3. /\ r \in LoaderType /\ SameStreams(w, r)
      /\ r.sched = s.sched /\ r.lastBlock = s.lastBlock /\ r.pending = s.pending
      /\ r.computeEv = [s.computeEv EXCEPT ![l] = Len(w.c)]
  BY <1>1, RecordedFacts
<1>4. w.lastBlock = s.lastBlock /\ w.pending = s.pending
  <2>1. CASE reordered
    BY <2>1
  <2>2. CASE ~reordered
    BY <1>1, <2>2, AwaitTransferFacts DEF SameMaps
  <2>3. QED
    BY <2>1, <2>2
<1> HIDE DEF w, r
<1>5. /\ r.c = w.c /\ r.t = w.t /\ r.sched = w.sched
      /\ r.lastBlock = w.lastBlock /\ r.pending = w.pending
  BY <1>2, <1>3, <1>4 DEF SameStreams
<1>6. /\ r.computeEv[l] = Len(w.c)
      /\ \A k \in Layers : k # l => r.computeEv[k] = w.computeEv[k]
  BY <1>1, <1>2, <1>3 DEF LoaderType
<1>7. StaticInv(r) /\ Grows(w, r)
  BY <1>2, <1>3, UnchangedStreams
<1>8. EventsBounded(r)
  <2>1. Len(w.c) \in Nat
    BY <1>2, StreamFacts DEF Sound
  <2>2. EventsBounded(w)
    BY <1>2 DEF Sound
  <2>3. QED
    BY <1>5, <1>6, <2>1, <2>2 DEF EventsBounded
<1>9. Grows(s, r)
  BY <1>1, <1>2, <1>3, <1>7, GrowsTransitive DEF Sound
<1>10. \A j \in (base + 1) .. Len(w.c) :
         /\ w.c[j].n \in Int
         /\ w.c[j].k = "read" => w.c[j].n \in 1 .. l
  <2>1. \A j \in (base + 1) .. Len(w.c) : w.c[j].n \in Int
    BY <1>2, StreamFacts DEF Sound
  <2>2. QED
    BY <1>2, <2>1 DEF PassInv, ReadsOfPass
<1>11. EarlierReadsAwaited(r, base)
  BY <1>2, <1>5 DEF PassInv, EarlierReadsAwaited, TransferAwaits
<1>12. ReadsOfPass(r, l, base, "outside")
  BY <1>5, <1>10 DEF ReadsOfPass
<1>13. ReadsRecorded(r, l, base, "outside")
  <2> SUFFICES ASSUME NEW j \in (base + 1) .. Len(w.c), w.c[j].k = "read"
               PROVE  r.computeEv[w.c[j].n] >= j
    BY <1>5 DEF ReadsRecorded
  <2>1. CASE w.c[j].n = l
    BY <1>2, <1>6, <2>1, StreamFacts DEF Sound
  <2>2. CASE w.c[j].n # l
    <3>1. w.c[j].n < l /\ w.c[j].n \in Layers
      BY <1>1, <1>10, <2>2, NLayersAssumption DEF Layers
    <3>2. w.computeEv[w.c[j].n] >= j
      BY <1>2, <3>1 DEF PassInv, ReadsRecorded
    <3>3. r.computeEv[w.c[j].n] = w.computeEv[w.c[j].n]
      BY <1>6, <2>2, <3>1
    <3>4. QED
      BY <3>2, <3>3
  <2>3. QED
    BY <2>1, <2>2
<1>14. SlotsCurrent(r, l)
  BY <1>2, <1>5 DEF PassInv, SlotsCurrent
<1>15. ReplacedReadsAwaited(r, base)
  BY <1>2, <1>5 DEF PassInv, ReplacedReadsAwaited, TransferAwaits
<1>16. CopiesScheduled(r, l)
  BY <1>2, <1>5 DEF PassInv, CopiesScheduled
<1>17. CopiesAwaited(r, l, "outside")
  <2> SUFFICES ASSUME NEW u \in Transfers(plan), u <= l, reordered => plan.t2c[u] <= l
               PROVE  ComputeAwaits(w, w.sched[WaitLabel(u)])
    BY <1>5 DEF CopiesAwaited, ComputeAwaits
  <2>1. u \in Int
    BY ForwardPlanFacts DEF Layers
  <2>2. CASE reordered \/ u # l
    <3>1. reordered \/ u < l
      BY <1>1, <2>1, <2>2
    <3>2. QED
      BY <1>2, <3>1 DEF PassInv, CopiesAwaited
  <2>3. CASE ~reordered /\ u = l
    <3>1. WaitLabel(u) = l
      BY <2>3 DEF WaitLabel
    <3>2. w.sched[l] \in 1 .. Len(w.t)
      BY <1>2, <3>1 DEF PassInv, CopiesScheduled
    <3>3. s.sched[l] # NoEvent
      BY <1>2, <3>2 DEF NoEvent
    <3>4. QED
      BY <1>2, <2>3, <3>1, <3>3
  <2>4. QED
    BY <2>2, <2>3
<1>18. PassInv(r, l, base, "outside")
  BY <1>11, <1>12, <1>13, <1>14, <1>15, <1>16, <1>17 DEF PassInv
<1>19. QED
  BY <1>3, <1>7, <1>8, <1>9, <1>18 DEF Sound, r

LEMMA JoinAndClearSound ==
  ASSUME NEW s, Sound(s)
  PROVE  Sound(JoinAndClear(s)) /\ Grows(s, JoinAndClear(s))
BY JoinAndClearFacts, JoinSound DEF Sound

LEMMA ExitLayerSound ==
  ASSUME plan \in ForwardPlans, NEW s, Sound(s), NEW l \in Layers, NEW base \in Nat,
         NEW st \in {"entered", "launched"}, PassInv(s, l, base, st)
  PROVE  LET r == ExitLayer(s, l)
         IN  /\ Sound(r) /\ Grows(s, r)
             /\ l # NLayers => PassInv(r, l, base, "outside")
<1> DEFINE q == Recorded(s, l)
<1>1. Sound(q) /\ Grows(s, q) /\ PassInv(q, l, base, "outside")
  BY RecordedSound
<1>2. ExitLayer(s, l) = IF l = NLayers THEN JoinAndClear(q) ELSE q
  BY DEF ExitLayer, Recorded
<1> HIDE DEF q
<1>3. Sound(JoinAndClear(q)) /\ Grows(q, JoinAndClear(q))
  BY <1>1, JoinAndClearSound
<1>4. Grows(s, JoinAndClear(q))
  BY <1>1, <1>3, GrowsTransitive DEF Sound
<1>5. QED
  BY <1>1, <1>2, <1>3, <1>4

-----------------------------------------------------------------------------
(* The GPU's part of the invariant.                                        *)

LEMMA GpuAfterGrowth ==
  ASSUME TypeOK, WaitsRespected, MemIsLastCopy, UNCHANGED <<plan, gpuVars>>, Grows(ld, ld')
  PROVE  WaitsRespected' /\ MemIsLastCopy'
<1>1. /\ \A j \in 1 .. cdone : ld'.c[j] = ld.c[j]
      /\ \A i \in 1 .. tdone : ld'.t[i] = ld.t[i]
  <2>1. /\ cdone \in 0 .. Len(ld.c) /\ Len(ld.c) \in Nat
        /\ tdone \in 0 .. Len(ld.t) /\ Len(ld.t) \in Nat
    BY StreamFacts DEF TypeOK
  <2>2. /\ \A j \in 1 .. cdone : j \in 1 .. Len(ld.c)
        /\ \A i \in 1 .. tdone : i \in 1 .. Len(ld.t)
    BY <2>1
  <2>3. QED
    BY <2>2 DEF Grows
<1>2. plan' = plan /\ cdone' = cdone /\ tdone' = tdone /\ mem' = mem
  BY DEF gpuVars
<1>3. WaitsRespected'
  BY <1>1, <1>2 DEF WaitsRespected
<1>4. MemIsLastCopy'
  <2> SUFFICES ASSUME NEW i \in 1 .. tdone, ld.t[i].k = "copy"
               PROVE  \/ mem[plan.block[ld.t[i].n]] = plan.t2c[ld.t[i].n]
                      \/ \E m \in (i + 1) .. tdone :
                           ld'.t[m].k = "copy" /\ plan.block[ld'.t[m].n] = plan.block[ld.t[i].n]
    BY <1>1, <1>2 DEF MemIsLastCopy
  <2>1. CASE mem[plan.block[ld.t[i].n]] = plan.t2c[ld.t[i].n]
    BY <2>1
  <2>2. CASE \E m \in (i + 1) .. tdone :
               ld.t[m].k = "copy" /\ plan.block[ld.t[m].n] = plan.block[ld.t[i].n]
    <3>1. PICK m \in (i + 1) .. tdone :
                 ld.t[m].k = "copy" /\ plan.block[ld.t[m].n] = plan.block[ld.t[i].n]
      BY <2>2
    <3>2. m \in 1 .. tdone
      BY <3>1 DEF TypeOK
    <3>3. QED
      BY <1>1, <3>1, <3>2
  <2>3. QED
    BY <2>1, <2>2 DEF MemIsLastCopy
<1>5. QED
  BY <1>3, <1>4

LEMMA ComputeStepRespects ==
  ASSUME TypeOK, WaitsRespected, MemIsLastCopy, ComputeStep
  PROVE  WaitsRespected' /\ MemIsLastCopy'
<1>1. /\ cdone' = cdone + 1 /\ ld' = ld /\ plan' = plan /\ tdone' = tdone /\ mem' = mem
      /\ ld.c[cdone + 1].k = "wait" => ld.c[cdone + 1].n <= tdone
  BY DEF ComputeStep, ComputeReady, NextCompute, hostVars
<1>2. cdone \in Nat
  BY DEF TypeOK
<1>3. \A j \in 1 .. (cdone + 1) : j \in 1 .. cdone \/ j = cdone + 1
  BY <1>2
<1>4. \A i \in 1 .. tdone : ld.t[i].k = "wait" => ld.t[i].n <= cdone + 1
  <2>1. \A i \in 1 .. tdone : i \in 1 .. Len(ld.t)
    BY StreamFacts DEF TypeOK
  <2>2. \A i \in 1 .. tdone : ld.t[i].n \in Nat
    BY <2>1, StreamFacts DEF TypeOK
  <2>3. QED
    BY <1>2, <2>2 DEF WaitsRespected
<1>5. WaitsRespected'
  BY <1>1, <1>3, <1>4 DEF WaitsRespected
<1>6. MemIsLastCopy'
  BY <1>1 DEF MemIsLastCopy
<1>7. QED
  BY <1>5, <1>6

LEMMA TransferStepRespects ==
  ASSUME plan \in Plans, TypeOK, CopiesOfPlan(ld), WaitsRespected, MemIsLastCopy, TransferStep
  PROVE  WaitsRespected' /\ MemIsLastCopy'
<1> DEFINE o == ld.t[tdone + 1]
<1>1. /\ tdone' = tdone + 1 /\ ld' = ld /\ plan' = plan /\ cdone' = cdone
      /\ o.k = "wait" => o.n <= cdone
      /\ tdone < Len(ld.t)
      /\ o.k = "copy" => mem' = [mem EXCEPT ![plan.block[o.n]] = plan.t2c[o.n]]
      /\ o.k # "copy" => mem' = mem
  BY DEF TransferStep, TransferReady, NextTransfer, hostVars
<1>2. tdone \in Nat /\ cdone \in Nat /\ Len(ld.t) \in Nat /\ Len(ld.c) \in Nat
  BY StreamFacts DEF TypeOK
<1>3. \A i \in 1 .. (tdone + 1) : i \in 1 .. Len(ld.t) /\ (i \in 1 .. tdone \/ i = tdone + 1)
  BY <1>1, <1>2
<1>4. \A j \in 1 .. cdone : ld.c[j].k = "wait" => ld.c[j].n <= tdone + 1
  <2>1. \A j \in 1 .. cdone : j \in 1 .. Len(ld.c)
    BY <1>2 DEF TypeOK
  <2>2. \A j \in 1 .. cdone : ld.c[j].n \in Nat
    BY <2>1, StreamFacts DEF TypeOK
  <2>3. QED
    BY <1>2, <2>2 DEF WaitsRespected
<1>5. WaitsRespected'
  BY <1>1, <1>3, <1>4 DEF WaitsRespected
<1>6. \A i \in 1 .. (tdone + 1) : ld.t[i].k = "copy" =>
        ld.t[i].n \in Transfers(plan) /\ plan.block[ld.t[i].n] \in Blocks
  BY <1>3, PlanFacts DEF CopiesOfPlan
<1>7. MemIsLastCopy'
  <2> SUFFICES ASSUME NEW i \in 1 .. (tdone + 1), ld.t[i].k = "copy"
               PROVE  \/ mem'[plan.block[ld.t[i].n]] = plan.t2c[ld.t[i].n]
                      \/ \E m \in (i + 1) .. (tdone + 1) :
                           ld.t[m].k = "copy" /\ plan.block[ld.t[m].n] = plan.block[ld.t[i].n]
    BY <1>1 DEF MemIsLastCopy
  <2> DEFINE b == plan.block[ld.t[i].n]
  <2>0. b \in Blocks /\ mem \in [Blocks -> Layers \cup {0}]
    BY <1>6 DEF TypeOK
  <2>1. CASE i = tdone + 1
    <3>1. mem' = [mem EXCEPT ![b] = plan.t2c[ld.t[i].n]]
      BY <1>1, <2>1
    <3>2. QED
      BY <2>0, <3>1
  <2>2. CASE i \in 1 .. tdone
    <3>1. CASE \E m \in (i + 1) .. tdone : ld.t[m].k = "copy" /\ plan.block[ld.t[m].n] = b
      BY <1>2, <3>1
    <3>2. CASE o.k = "copy" /\ plan.block[o.n] = b
      <4>1. tdone + 1 \in (i + 1) .. (tdone + 1)
        BY <1>2, <2>2
      <4>2. QED
        BY <3>2, <4>1
    <3>3. CASE /\ mem[b] = plan.t2c[ld.t[i].n]
               /\ ~(o.k = "copy" /\ plan.block[o.n] = b)
      <4>1. mem'[b] = mem[b]
        BY <1>1, <2>0, <3>3
      <4>2. QED
        BY <3>3, <4>1
    <3>4. QED
      BY <2>2, <3>1, <3>2, <3>3 DEF MemIsLastCopy
  <2>3. QED
    BY <1>3, <2>1, <2>2
<1>8. QED
  BY <1>5, <1>7

-----------------------------------------------------------------------------
(* IInv is inductive.                                                      *)

LEMMA InvInit == BlockPlans \subseteq ForwardPlans /\ Init => IInv
<1> SUFFICES ASSUME BlockPlans \subseteq ForwardPlans, Init PROVE IInv
  OBVIOUS
<1>1. TypeOK /\ StageShape /\ CopiesOfPlan(ld)
  BY TypeInit DEF TypeInv
<1>2. NothingPreloaded
  BY DEF Init, NothingPreloaded, ForwardPlans
<1>3. ld.c = <<>> /\ ld.t = <<>> /\ layer = 0 /\ cdone = 0 /\ tdone = 0
  BY DEF Init
<1>4. StaticInv(ld)
  BY <1>1, <1>3 DEF StaticInv, WaitsBounded, ReadsOrdered
<1>5. EventsBounded(ld)
  BY <1>3, EmptyMaps DEF Init, EventsBounded
<1>6. WaitsRespected /\ MemIsLastCopy
  BY <1>3 DEF WaitsRespected, MemIsLastCopy
<1>7. QED
  BY <1>1, <1>2, <1>3, <1>4, <1>5, <1>6 DEF IInv, InPass

(* What a step of the host has to show. *)
LEMMA InvAfterHostStep ==
  ASSUME IInv, TypeInv', NothingPreloaded', UNCHANGED <<plan, reordered, gpuVars>>,
         Sound(ld'), Grows(ld, ld'),
         layer' # 0 => PassInv(ld', layer', boundary'.c, stage')
  PROVE  IInv'
<1>1. plan' = plan /\ reordered' = reordered
  OBVIOUS
<1>2. StaticInv(ld)'
  <2>1. StaticInv(ld')
    BY DEF Sound
  <2>2. CopiesOfPlan(ld)'
    BY DEF TypeInv
  <2>3. WaitsBounded(ld)'
    BY <2>1 DEF StaticInv, WaitsBounded
  <2>4. ReadsOrdered(ld)'
    <3>1. ASSUME NEW u, NEW i, NEW j, SourceOf(ld', u, i, j)
          PROVE  SourceOf(ld, u, i, j)'
      BY <1>1, <3>1 DEF SourceOf
    <3>2. QED
      BY <1>1, <2>1, <3>1 DEF StaticInv, ReadsOrdered, Transfers
  <2>5. QED
    BY <2>2, <2>3, <2>4 DEF StaticInv
<1>3. EventsBounded(ld)'
  BY DEF Sound, EventsBounded
<1>4. (InPass => PassInv(ld, layer, boundary.c, stage))'
  <2> SUFFICES ASSUME layer' # 0 PROVE PassInv(ld, layer, boundary.c, stage)'
    BY DEF InPass
  <2>1. PassInv(ld', layer', boundary'.c, stage')
    OBVIOUS
  <2>2. EarlierReadsAwaited(ld, boundary.c)'
    BY <2>1 DEF PassInv, EarlierReadsAwaited, TransferAwaits
  <2>3. ReadsOfPass(ld, layer, boundary.c, stage)'
    BY <2>1 DEF PassInv, ReadsOfPass
  <2>4. ReadsRecorded(ld, layer, boundary.c, stage)'
    BY <2>1 DEF PassInv, ReadsRecorded
  <2>5. SlotsCurrent(ld, layer)'
    BY <1>1, <2>1 DEF PassInv, SlotsCurrent, Transfers
  <2>6. ReplacedReadsAwaited(ld, boundary.c)'
    BY <1>1, <2>1 DEF PassInv, ReplacedReadsAwaited, TransferAwaits, Transfers
  <2>7. CopiesScheduled(ld, layer)'
    BY <1>1, <2>1 DEF PassInv, CopiesScheduled, WaitLabel, Transfers
  <2>8. CopiesAwaited(ld, layer, stage)'
    BY <1>1, <2>1 DEF PassInv, CopiesAwaited, ComputeAwaits, WaitLabel, Transfers
  <2>9. QED
    BY <2>2, <2>3, <2>4, <2>5, <2>6, <2>7, <2>8 DEF PassInv
<1>5. WaitsRespected' /\ MemIsLastCopy'
  BY GpuAfterGrowth DEF IInv
<1>6. QED
  BY <1>2, <1>3, <1>4, <1>5 DEF IInv, TypeInv

LEMMA InvStep ==
  ASSUME ~PieceJoins, IInv, [Next]_vars
  PROVE  IInv'
<1>1. TypeInv /\ TypeInv'
  BY TypeStep DEF TypeInv, IInv, StaticInv
<1>2. /\ plan \in ForwardPlans /\ plan \in Plans /\ todo = {} /\ Sound(ld)
      /\ FindTransfersForPreload(plan) = {}
      /\ stage = "preload" => ld.c = <<>> /\ ld.t = <<>>
  BY ForwardPlanFacts DEF IInv, NothingPreloaded, TypeOK, Sound, ForwardPlans
<1>3. Grows(ld, ld)
  BY <1>2, StreamFacts DEF Sound, Grows
<1>4. ASSUME NEW t \in Layers, PreloadCopy(t) PROVE IInv'
  BY <1>2, <1>4 DEF PreloadCopy
<1>5. ASSUME PreloadDone PROVE IInv'
  <2> DEFINE preloaded == FindTransfersForPreload(plan)
             j     == JoinTransfer(ld)
             slots == [b \in Blocks |-> IF \E t \in preloaded : plan.block[t] = b
                                          THEN CHOOSE t \in preloaded : plan.block[t] = b
                                          ELSE 0]
             evs   == [l \in Layers |-> IF reordered /\ \E t \in preloaded : plan.t2c[t] = l
                                          THEN Len(ld.t) ELSE NoEvent]
  <2>1. /\ j \in LoaderType /\ j.t = ld.t /\ SameMaps(ld, j)
        /\ j.c = Append(ld.c, [k |-> "wait", n |-> Len(ld.t)])
    BY <1>2, JoinTransferFacts DEF Sound
  <2>2. evs = NoEvents
    BY <1>2 DEF NoEvents
  <2>3. ld' = [j EXCEPT !.lastBlock = slots, !.sched = evs]
    BY <1>5 DEF PreloadDone
  <2> HIDE DEF j, slots, evs
  <2>4. ld'.c = j.c /\ ld'.t = j.t /\ ld'.sched = NoEvents /\ ld'.computeEv = ld.computeEv
    BY <2>1, <2>2, <2>3 DEF LoaderType, SameMaps
  <2>5. ld' \in LoaderType
    BY <1>1, <1>5 DEF TypeInv, TypeOK, PreloadDone, LoaderType, Transfers
  <2>6. Sound(ld') /\ Grows(ld, ld')
    BY <1>2, <2>1, <2>4, <2>5, JoinSound
  <2>7. layer' = 0
    BY <1>1, <1>5 DEF PreloadDone, TypeInv, StageShape, InPass
  <2>8. NothingPreloaded'
    BY <1>2, <1>5 DEF PreloadDone, NothingPreloaded
  <2>9. QED
    BY <1>1, <1>5, <2>6, <2>7, <2>8, InvAfterHostStep DEF PreloadDone
<1>6. ASSUME NEW l \in Layers, Enter(l) PROVE IInv'
  <2> DEFINE base == boundary'.c
  <2>1. base \in Nat
    BY <1>1 DEF TypeInv, TypeOK
  <2>2. l = 1 => base = Len(ld.c)
    BY <1>6 DEF Enter, Here
  <2>3. l # 1 => PassInv(ld, l - 1, base, "outside")
    <3> SUFFICES ASSUME l # 1 PROVE PassInv(ld, l - 1, base, "outside")
      OBVIOUS
    <3>1. layer = l - 1 /\ layer # 0 /\ stage = "outside" /\ boundary' = boundary
      BY <1>1, <1>6 DEF Enter, Layers, TypeInv, TypeOK
    <3>2. QED
      BY <3>1 DEF IInv, InPass
  <2> HIDE DEF base
  <2>4. /\ Sound(EnterLayer(ld, l)) /\ Grows(ld, EnterLayer(ld, l))
        /\ PassInv(EnterLayer(ld, l), l, base, "entered")
    BY <1>2, <2>1, <2>2, <2>3, EnterLayerSound
  <2>5. ld' = EnterLayer(ld, l) /\ layer' = l /\ stage' = "entered"
    BY <1>6 DEF Enter
  <2>6. NothingPreloaded'
    BY <1>2, <1>6 DEF Enter, NothingPreloaded
  <2>7. QED
    BY <1>1, <1>6, <2>4, <2>5, <2>6, InvAfterHostStep DEF Enter, base
<1>7. ASSUME Launch PROVE IInv'
  <2>1. layer \in Layers /\ PassInv(ld, layer, boundary.c, "entered") /\ boundary.c \in Nat
    BY <1>1, <1>7 DEF Launch, IInv, InPass, TypeInv, TypeOK, StageShape
  <2>2. LET r == OnCompute(ld, "read", layer)
        IN  Sound(r) /\ Grows(ld, r) /\ PassInv(r, layer, boundary.c, "launched")
    BY <1>2, <2>1, LaunchSound
  <2>3. /\ ld' = OnCompute(ld, "read", layer) /\ stage' = "launched"
        /\ layer' = layer /\ boundary' = boundary
    BY <1>7 DEF Launch
  <2>4. NothingPreloaded'
    BY <1>2, <1>7 DEF Launch, NothingPreloaded
  <2>5. QED
    BY <1>1, <1>7, <2>2, <2>3, <2>4, InvAfterHostStep DEF Launch
<1>8. ASSUME Exit PROVE IInv'
  <2>1. /\ layer \in Layers /\ PassInv(ld, layer, boundary.c, stage) /\ boundary.c \in Nat
        /\ stage \in {"entered", "launched"}
    BY <1>1, <1>8 DEF Exit, IInv, InPass, TypeInv, TypeOK, StageShape
  <2>2. LET r == ExitLayer(ld, layer)
        IN  /\ Sound(r) /\ Grows(ld, r)
            /\ layer # NLayers => PassInv(r, layer, boundary.c, "outside")
    BY <1>2, <2>1, ExitLayerSound
  <2>3. /\ ld' = ExitLayer(ld, layer) /\ stage' = "outside" /\ boundary' = boundary
        /\ layer' # 0 => layer # NLayers /\ layer' = layer
    BY <1>8 DEF Exit
  <2>4. NothingPreloaded'
    BY <1>2, <1>8 DEF Exit, NothingPreloaded
  <2>5. QED
    BY <1>1, <1>8, <2>2, <2>3, <2>4, InvAfterHostStep DEF Exit
<1>9. ASSUME Abort PROVE IInv'
  <2>1. NothingPreloaded' /\ layer' = 0 /\ ld' = ld
    BY <1>2, <1>9 DEF Abort, NothingPreloaded
  <2>2. QED
    BY <1>1, <1>2, <1>3, <1>9, <2>1, InvAfterHostStep DEF Abort
<1>10. ASSUME JoinAfterForward PROVE IInv'
  <2>1. layer' = 0 /\ ld' = JoinAndClear(ld)
    BY <1>10 DEF JoinAfterForward
  <2>2. Sound(ld') /\ Grows(ld, ld')
    BY <1>2, <2>1, JoinAndClearSound
  <2>3. NothingPreloaded'
    BY <1>2, <1>10 DEF JoinAfterForward, NothingPreloaded
  <2>4. QED
    BY <1>1, <1>10, <2>1, <2>2, <2>3, InvAfterHostStep DEF JoinAfterForward
<1>11. ASSUME SyncPrevOnload PROVE IInv'
  <2>1. Sound(ld') /\ Grows(ld, ld')
    <3>1. ld' = JoinTransfer(ld)
      BY <1>11 DEF SyncPrevOnload
    <3>2. QED
      BY <1>2, <3>1, JoinTransferFacts, JoinSound DEF Sound, SameMaps
  <2>2. NothingPreloaded' /\ layer' = 0
    BY <1>2, <1>11 DEF SyncPrevOnload, NothingPreloaded
  <2>3. QED
    BY <1>1, <1>11, <2>1, <2>2, InvAfterHostStep DEF SyncPrevOnload
<1>12. ASSUME Shutdown PROVE IInv'
  <2>1. NothingPreloaded' /\ layer' = 0 /\ ld' = ld
    BY <1>2, <1>12 DEF Shutdown, NothingPreloaded
  <2>2. QED
    BY <1>1, <1>2, <1>3, <1>12, <2>1, InvAfterHostStep DEF Shutdown
<1> DEFINE Rest == /\ NothingPreloaded' /\ StaticInv(ld)' /\ EventsBounded(ld)'
                   /\ (InPass => PassInv(ld, layer, boundary.c, stage))'
<1>13. ASSUME UNCHANGED hostVars PROVE Rest
  <2>1. NothingPreloaded'
    BY <1>13 DEF IInv, NothingPreloaded, hostVars
  <2>2. StaticInv(ld)' /\ EventsBounded(ld)'
    BY <1>13 DEF IInv, hostVars, StaticInv, EventsBounded, CopiesOfPlan, WaitsBounded,
                 ReadsOrdered, SourceOf, Transfers
  <2>3. (InPass => PassInv(ld, layer, boundary.c, stage))'
    BY <1>13 DEF IInv, hostVars, InPass, PassInv, EarlierReadsAwaited, ReadsOfPass,
                 ReadsRecorded, SlotsCurrent, ReplacedReadsAwaited, CopiesScheduled,
                 CopiesAwaited, TransferAwaits, ComputeAwaits, WaitLabel, Transfers
  <2>4. QED
    BY <2>1, <2>2, <2>3
<1> HIDE DEF Rest
<1>14. ASSUME ComputeStep PROVE IInv'
  <2>1. WaitsRespected' /\ MemIsLastCopy'
    BY <1>14, ComputeStepRespects DEF IInv
  <2>2. Rest
    BY <1>13, <1>14 DEF ComputeStep
  <2>3. QED
    BY <1>1, <2>1, <2>2 DEF IInv, TypeInv, Rest
<1>15. ASSUME TransferStep PROVE IInv'
  <2>1. WaitsRespected' /\ MemIsLastCopy'
    BY <1>2, <1>15, TransferStepRespects DEF IInv, StaticInv
  <2>2. Rest
    BY <1>13, <1>15 DEF TransferStep
  <2>3. QED
    BY <1>1, <2>1, <2>2 DEF IInv, TypeInv, Rest
<1>16. CASE UNCHANGED vars
  <2>1. WaitsRespected' /\ MemIsLastCopy'
    BY <1>16 DEF vars, hostVars, gpuVars, IInv, WaitsRespected, MemIsLastCopy
  <2>2. Rest
    BY <1>13, <1>16 DEF vars
  <2>3. QED
    BY <1>1, <2>1, <2>2 DEF IInv, TypeInv, Rest
<1>17. QED
  BY <1>4, <1>5, <1>6, <1>7, <1>8, <1>9, <1>10, <1>11, <1>12, <1>14, <1>15, <1>16
     DEF Next, HostStep

-----------------------------------------------------------------------------
(* The kernel at the head of the compute stream has its copy behind it, and
   no copy the transfer stream may execute now goes to its block. *)
LEMMA ReadAtHead ==
  ASSUME IInv, ComputeReady, NEW u \in Transfers(plan),
         NextCompute = [k |-> "read", n |-> plan.t2c[u]]
  PROVE  /\ \E i \in 1 .. tdone : ld.t[i] = [k |-> "copy", n |-> u] /\
              \A m \in (i + 1) .. tdone :
                 ld.t[m].k = "copy" => plan.block[ld.t[m].n] # plan.block[u]
         /\ TransferReady /\ NextTransfer.k = "copy" =>
              plan.block[NextTransfer.n] # plan.block[u]
<1> DEFINE j == cdone + 1
<1>1. /\ cdone \in Nat /\ tdone \in Nat /\ Len(ld.c) \in Nat /\ Len(ld.t) \in Nat
      /\ tdone <= Len(ld.t) /\ j \in 1 .. Len(ld.c)
  BY StreamFacts DEF IInv, TypeOK, ComputeReady
<1>2. ld.c[j].k = "read" /\ ld.c[j].n = plan.t2c[u]
  BY DEF NextCompute
<1>3. PICK i \in 1 .. Len(ld.t) : SourceOf(ld, u, i, j)
  BY <1>1, <1>2 DEF IInv, StaticInv, ReadsOrdered
<1>4. i \in 1 .. tdone
  <2>1. PICK h \in 1 .. (j - 1) : ld.c[h].k = "wait" /\ ld.c[h].n >= i
    BY <1>3 DEF SourceOf
  <2>2. h \in 1 .. cdone /\ h \in 1 .. Len(ld.c)
    BY <1>1
  <2>3. ld.c[h].n <= tdone /\ ld.c[h].n \in Nat
    BY <2>1, <2>2, StreamFacts DEF IInv, WaitsRespected, TypeOK
  <2>4. QED
    BY <1>1, <2>1, <2>3
<1>5. ASSUME NEW m \in (i + 1) .. Len(ld.t), m <= tdone + 1,
             ld.t[m].k = "copy", plan.block[ld.t[m].n] = plan.block[u]
      PROVE  FALSE
  <2>1. PICK h \in 1 .. (m - 1) : ld.t[h].k = "wait" /\ ld.t[h].n >= j
    BY <1>3, <1>5 DEF SourceOf
  <2>2. h \in 1 .. tdone /\ h \in 1 .. Len(ld.t)
    BY <1>1, <1>5
  <2>3. ld.t[h].n <= cdone /\ ld.t[h].n \in Nat
    BY <2>1, <2>2, StreamFacts DEF IInv, WaitsRespected, TypeOK
  <2>4. QED
    BY <1>1, <2>1, <2>3
<1>6. ld.t[i] = [k |-> "copy", n |-> u]
  BY <1>3 DEF SourceOf
<1>7. \A m \in (i + 1) .. tdone : ld.t[m].k = "copy" => plan.block[ld.t[m].n] # plan.block[u]
  BY <1>1, <1>5
<1>8. ASSUME TransferReady, NextTransfer.k = "copy"
      PROVE  plan.block[NextTransfer.n] # plan.block[u]
  <2>1. tdone + 1 \in (i + 1) .. Len(ld.t)
    BY <1>1, <1>4, <1>8 DEF TransferReady
  <2>2. QED
    BY <1>1, <1>5, <1>8, <2>1 DEF NextTransfer
<1>9. QED
  BY <1>4, <1>6, <1>7, <1>8

LEMMA InvImpliesOrder == IInv => NoOverwriteWhileRead
<1> SUFFICES ASSUME IInv,
                    NEW t \in Transfers(plan), NEW l \in Layers, NEW u \in Transfers(plan),
                    ComputeReady, NextCompute = [k |-> "read", n |-> l],
                    TransferReady, NextTransfer = [k |-> "copy", n |-> t],
                    plan.t2c[u] = l
             PROVE  plan.block[u] # plan.block[t]
  BY DEF NoOverwriteWhileRead
<1>1. NextCompute = [k |-> "read", n |-> plan.t2c[u]]
  OBVIOUS
<1>2. NextTransfer.k = "copy" /\ NextTransfer.n = t
  OBVIOUS
<1>3. QED
  BY <1>1, <1>2, ReadAtHead

LEMMA InvImpliesOwnWeights == IInv => ReadsOwnWeights
<1> SUFFICES ASSUME IInv, NEW u \in Transfers(plan), ComputeReady,
                    NextCompute = [k |-> "read", n |-> plan.t2c[u]]
             PROVE  mem[plan.block[u]] = plan.t2c[u]
  BY DEF ReadsOwnWeights
<1>1. PICK i \in 1 .. tdone : ld.t[i] = [k |-> "copy", n |-> u] /\
             \A m \in (i + 1) .. tdone :
                ld.t[m].k = "copy" => plan.block[ld.t[m].n] # plan.block[u]
  BY ReadAtHead
<1>2. ld.t[i].k = "copy" /\ ld.t[i].n = u
  BY <1>1
<1>3. QED
  BY <1>1, <1>2 DEF IInv, MemIsLastCopy

(* No copy overwrites a block while a kernel reads it: for forward plans and
   forwards joined only at their end, whichever loader, however often a
   forward is aborted. *)
THEOREM NoOverwriteWhileReadAlways ==
  ASSUME BlockPlans \subseteq ForwardPlans, ~PieceJoins
  PROVE  Spec => []NoOverwriteWhileRead
<1>1. Init => IInv
  BY InvInit
<1>2. IInv /\ [Next]_vars => IInv'
  BY InvStep
<1>3. QED
  BY <1>1, <1>2, InvImpliesOrder, PTL DEF Spec

(* A kernel that starts finds its own layer's weights in its block, under
   the same assumptions. *)
THEOREM ReadsOwnWeightsAlways ==
  ASSUME BlockPlans \subseteq ForwardPlans, ~PieceJoins
  PROVE  Spec => []ReadsOwnWeights
<1>1. Init => IInv
  BY InvInit
<1>2. IInv /\ [Next]_vars => IInv'
  BY InvStep
<1>3. QED
  BY <1>1, <1>2, InvImpliesOwnWeights, PTL DEF Spec
=============================================================================
