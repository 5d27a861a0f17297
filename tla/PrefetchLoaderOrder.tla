------------------------ MODULE PrefetchLoaderOrder -------------------------
(***************************************************************************)
(* For every plan that passes check_overlap_constraint, cyclic ones and     *)
(* forwards captured piece by piece included: the streams never wait for   *)
(* each other in a circle, work that is not joined is announced, no event  *)
(* but those of preload() outlives its session, and the policy knows of    *)
(* every prefetch that may be cut short.                                   *)
(* For forward plans: strict mode has nothing to raise at the last layer.  *)
(***************************************************************************)
EXTENDS PrefetchLoaderProofs

(* Of a wait on the compute stream and one on the transfer stream, one does not
   reach as far as the other. *)
NoCrossing(s) ==
  \A j \in 1 .. Len(s.c), i \in 1 .. Len(s.t) :
    s.c[j].k = "wait" /\ s.t[i].k = "wait" => s.c[j].n < i \/ s.t[i].n < j

StreamsOrdered(s) == WaitsBounded(s) /\ NoCrossing(s)

(* Without the flag nothing is left to join, neither a copy nor an event. *)
CopiesJoined(s) ==
  ~s.pending => \A i \in 1 .. Len(s.t) : s.t[i].k = "copy" => ComputeAwaits(s, i)
EventsJoined(s) ==
  ~s.pending => \A l \in Layers : s.sched[l] # NoEvent => ComputeAwaits(s, s.sched[l])

(* What is not awaited the policy knows. *)
PolicyKnows(s) ==
  PolicyEnabled =>
    \A l \in Layers : s.sched[l] # NoEvent => s.outstanding[l] # 0 \/ ComputeAwaits(s, s.sched[l])

OrderSound(s) ==
  /\ s \in LoaderType
  /\ StreamsOrdered(s)
  /\ EventsBounded(s)
  /\ CopiesJoined(s) /\ EventsJoined(s)
  /\ PolicyKnows(s)

(* Before the first forward: copies without waits. *)
Preloading(s) ==
  /\ s.c = <<>> /\ (\A i \in 1 .. Len(s.t) : s.t[i].k # "wait")
  /\ ~s.pending /\ s.sched = NoEvents /\ s.computeEv = NoEvents

OrderInv ==
  /\ TypeInv
  /\ IF stage = "preload" THEN Preloading(ld) ELSE OrderSound(ld)

-----------------------------------------------------------------------------
(* Appending *)

LEMMA SoundFacts ==
  ASSUME NEW s \in LoaderType
  PROVE  /\ Len(s.c) \in Nat /\ Len(s.t) \in Nat
         /\ \A j \in 1 .. Len(s.c) : s.c[j].n \in Nat
         /\ \A i \in 1 .. Len(s.t) : s.t[i].n \in Nat
         /\ \A l \in Layers : /\ s.sched[l] \in Nat \cup {NoEvent}
                              /\ s.computeEv[l] \in Nat \cup {NoEvent}
                              /\ s.outstanding[l] \in Layers \cup {0}
  BY StreamFacts DEF LoaderType, Event

LEMMA OrderedOnCompute ==
  ASSUME NEW s \in LoaderType, NEW r \in LoaderType, StreamsOrdered(s), r.t = s.t,
         NEW kind \in {"wait", "read"}, NEW arg \in Nat,
         kind = "wait" => arg <= Len(s.t),
         r.c = Append(s.c, [k |-> kind, n |-> arg])
  PROVE  /\ StreamsOrdered(r)
         /\ \A i \in Nat : ComputeAwaits(s, i) => ComputeAwaits(r, i)
         /\ kind = "wait" => \A i \in 0 .. arg : ComputeAwaits(r, i)
<1> DEFINE e == [k |-> kind, n |-> arg]
<1>1. /\ Len(s.c) \in Nat /\ Len(s.t) \in Nat /\ Len(r.c) = Len(s.c) + 1
      /\ r.c[Len(s.c) + 1] = e /\ \A j \in 1 .. Len(s.c) : r.c[j] = s.c[j]
  <2>1. e \in Op /\ s.c \in Seq(Op)
    BY StreamFacts DEF Op
  <2> HIDE DEF e
  <2>2. r.c = Append(s.c, e)
    BY DEF e
  <2>3. QED
    BY <2>1, <2>2, AppendFacts, StreamFacts
<1>2. /\ \A j \in 1 .. Len(s.c) : s.c[j].n \in Nat
      /\ \A i \in 1 .. Len(s.t) : s.t[i].n \in Nat
  BY SoundFacts
<1>3. e.k = kind /\ e.n = arg
  OBVIOUS
<1> HIDE DEF e
<1>4. WaitsBounded(r)
  <2>1. \A j \in 1 .. Len(r.c) : r.c[j].k = "wait" => r.c[j].n <= Len(r.t)
    BY <1>1, <1>3 DEF StreamsOrdered, WaitsBounded
  <2>2. ASSUME NEW i \in 1 .. Len(r.t), r.t[i].k = "wait"
        PROVE  r.t[i].n <= Len(r.c)
    <3>1. s.t[i].n <= Len(s.c) /\ s.t[i].n \in Nat
      BY <1>2, <2>2 DEF StreamsOrdered, WaitsBounded
    <3>2. QED
      BY <1>1, <3>1
  <2>3. QED
    BY <2>1, <2>2 DEF WaitsBounded
<1>5. NoCrossing(r)
  <2>1. SUFFICES ASSUME NEW j \in 1 .. Len(r.c), NEW i \in 1 .. Len(s.t),
                        r.c[j].k = "wait", s.t[i].k = "wait"
                 PROVE  r.c[j].n < i \/ s.t[i].n < j
    BY DEF NoCrossing
  <2>2. CASE j \in 1 .. Len(s.c)
    BY <1>1, <2>1, <2>2 DEF StreamsOrdered, NoCrossing
  <2>3. CASE j = Len(s.c) + 1
    <3>1. s.t[i].n <= Len(s.c)
      BY <2>1 DEF StreamsOrdered, WaitsBounded
    <3>2. QED
      BY <1>1, <1>2, <2>3, <3>1
  <2>4. QED
    BY <1>1, <2>2, <2>3
<1>6. \A i \in Nat : ComputeAwaits(s, i) => ComputeAwaits(r, i)
  BY <1>1 DEF ComputeAwaits
<1>7. ASSUME kind = "wait"
      PROVE  \A i \in 0 .. arg : ComputeAwaits(r, i)
  <2>1. Len(s.c) + 1 \in 1 .. Len(r.c)
    BY <1>1
  <2>2. QED
    BY <1>1, <1>3, <1>7, <2>1 DEF ComputeAwaits
<1>8. QED
  BY <1>4, <1>5, <1>6, <1>7 DEF StreamsOrdered

LEMMA OrderedOnTransfer ==
  ASSUME NEW s \in LoaderType, NEW r \in LoaderType, StreamsOrdered(s), r.c = s.c,
         NEW kind \in {"wait", "copy"}, NEW arg \in Nat,
         kind = "wait" => arg <= Len(s.c),
         r.t = Append(s.t, [k |-> kind, n |-> arg])
  PROVE  /\ StreamsOrdered(r) /\ Len(r.t) = Len(s.t) + 1
         /\ \A i \in Nat : ComputeAwaits(s, i) => ComputeAwaits(r, i)
<1> DEFINE e == [k |-> kind, n |-> arg]
<1>1. /\ Len(s.c) \in Nat /\ Len(s.t) \in Nat /\ Len(r.t) = Len(s.t) + 1
      /\ r.t[Len(s.t) + 1] = e /\ \A i \in 1 .. Len(s.t) : r.t[i] = s.t[i]
  <2>1. e \in Op /\ s.t \in Seq(Op)
    BY StreamFacts DEF Op
  <2> HIDE DEF e
  <2>2. r.t = Append(s.t, e)
    BY DEF e
  <2>3. QED
    BY <2>1, <2>2, AppendFacts, StreamFacts
<1>2. /\ \A j \in 1 .. Len(s.c) : s.c[j].n \in Nat
      /\ \A i \in 1 .. Len(s.t) : s.t[i].n \in Nat
  BY SoundFacts
<1>3. e.k = kind /\ e.n = arg
  OBVIOUS
<1> HIDE DEF e
<1>4. WaitsBounded(r)
  <2>1. \A i \in 1 .. Len(r.t) : r.t[i].k = "wait" => r.t[i].n <= Len(r.c)
    BY <1>1, <1>3 DEF StreamsOrdered, WaitsBounded
  <2>2. ASSUME NEW j \in 1 .. Len(r.c), r.c[j].k = "wait"
        PROVE  r.c[j].n <= Len(r.t)
    <3>1. s.c[j].n <= Len(s.t) /\ s.c[j].n \in Nat
      BY <1>2, <2>2 DEF StreamsOrdered, WaitsBounded
    <3>2. QED
      BY <1>1, <3>1
  <2>3. QED
    BY <2>1, <2>2 DEF WaitsBounded
<1>5. NoCrossing(r)
  <2>1. SUFFICES ASSUME NEW j \in 1 .. Len(s.c), NEW i \in 1 .. Len(r.t),
                        s.c[j].k = "wait", r.t[i].k = "wait"
                 PROVE  s.c[j].n < i \/ r.t[i].n < j
    BY DEF NoCrossing
  <2>2. CASE i \in 1 .. Len(s.t)
    BY <1>1, <2>1, <2>2 DEF StreamsOrdered, NoCrossing
  <2>3. CASE i = Len(s.t) + 1
    <3>1. s.c[j].n <= Len(s.t)
      BY <2>1 DEF StreamsOrdered, WaitsBounded
    <3>2. QED
      BY <1>1, <1>2, <2>3, <3>1
  <2>4. QED
    BY <1>1, <2>2, <2>3
<1>6. \A i \in Nat : ComputeAwaits(s, i) => ComputeAwaits(r, i)
  BY DEF ComputeAwaits
<1>7. QED
  BY <1>1, <1>4, <1>5, <1>6 DEF StreamsOrdered

-----------------------------------------------------------------------------
(* What each operation keeps *)

(* The compute stream grows, the maps stay, and an event is taken off the
   policy's list only when it has been awaited. *)
LEMMA ComputeKeeps ==
  ASSUME NEW s, OrderSound(s), NEW r \in LoaderType, r.t = s.t, SameMaps(s, r),
         NEW kind \in {"wait", "read"}, NEW arg \in Nat, kind = "wait" => arg <= Len(s.t),
         r.c = Append(s.c, [k |-> kind, n |-> arg]),
         \A l \in Layers : r.outstanding[l] # s.outstanding[l]
                             => kind = "wait" /\ (s.sched[l] # NoEvent => s.sched[l] <= arg)
  PROVE  OrderSound(r)
<1>1. /\ StreamsOrdered(r) /\ Len(s.c) \in Nat /\ Len(s.t) \in Nat
      /\ \A i \in Nat : ComputeAwaits(s, i) => ComputeAwaits(r, i)
      /\ kind = "wait" => \A i \in 0 .. arg : ComputeAwaits(r, i)
  BY OrderedOnCompute, SoundFacts DEF OrderSound
<1>2. Len(r.c) = Len(s.c) + 1
  <2> DEFINE e == [k |-> kind, n |-> arg]
  <2>1. e \in Op /\ s.c \in Seq(Op) /\ r.c = Append(s.c, e)
    BY StreamFacts DEF Op, OrderSound
  <2> HIDE DEF e
  <2>2. QED
    BY <2>1, AppendFacts
<1>3. \A l \in Layers : s.sched[l] \in Nat \cup {NoEvent} /\ s.computeEv[l] \in Nat \cup {NoEvent}
  BY SoundFacts DEF OrderSound
<1>4. /\ r.sched = s.sched /\ r.computeEv = s.computeEv /\ r.pending = s.pending
      /\ (Recovering(r) <=> Recovering(s))
  BY DEF SameMaps, Recovering
<1>5. EventsBounded(r)
  <2>1. \A l \in Layers : s.sched[l] <= Len(s.t) /\ s.computeEv[l] <= Len(s.c)
    BY DEF OrderSound, EventsBounded
  <2>2. QED
    BY <1>1, <1>2, <1>3, <1>4, <2>1 DEF EventsBounded, NoEvent
<1>6. CopiesJoined(r) /\ EventsJoined(r)
  BY <1>1, <1>3, <1>4 DEF OrderSound, CopiesJoined, EventsJoined
<1>7. PolicyKnows(r)
  <2>1. SUFFICES ASSUME PolicyEnabled, NEW l \in Layers, s.sched[l] # NoEvent
                 PROVE  r.outstanding[l] # 0 \/ ComputeAwaits(r, s.sched[l])
    BY <1>4 DEF PolicyKnows
  <2>2. s.sched[l] \in Nat
    BY <1>3, <2>1
  <2>3. s.outstanding[l] # 0 \/ ComputeAwaits(s, s.sched[l])
    BY <2>1 DEF OrderSound, PolicyKnows
  <2>4. CASE r.outstanding[l] = s.outstanding[l]
    BY <1>1, <2>2, <2>3, <2>4
  <2>5. CASE r.outstanding[l] # s.outstanding[l]
    BY <1>1, <2>1, <2>2, <2>5
  <2>6. QED
    BY <2>4, <2>5
<1>9. QED
  BY <1>1, <1>5, <1>6, <1>7 DEF OrderSound

LEMMA JoinTransferKeeps ==
  ASSUME NEW s, OrderSound(s)
  PROVE  OrderSound(JoinTransfer(s)) /\ JoinTransfer(s).outstanding = s.outstanding
<1> DEFINE r == JoinTransfer(s)
<1>1. s \in LoaderType /\ Len(s.t) \in Nat
  BY SoundFacts DEF OrderSound
<1>2. /\ r \in LoaderType /\ r.t = s.t /\ SameMaps(s, r)
      /\ r.c = Append(s.c, [k |-> "wait", n |-> Len(s.t)])
      /\ r.outstanding = s.outstanding
  BY <1>1, OnComputeFacts DEF JoinTransfer
<1> HIDE DEF r
<1>3. OrderSound(r)
  BY <1>1, <1>2, ComputeKeeps
<1>4. QED
  BY <1>2, <1>3 DEF r

LEMMA OnWaitOutstanding ==
  ASSUME NEW s \in LoaderType, NEW l \in Layers
  PROVE  /\ \A k \in Layers \ {l} : OnWait(s, l).outstanding[k] = s.outstanding[k]
         /\ PolicyEnabled => OnWait(s, l).outstanding[l] = 0
         /\ ~PolicyEnabled => OnWait(s, l).outstanding = s.outstanding
BY DEF OnWait, LoaderType

LEMMA AwaitTransferKeeps ==
  ASSUME NEW s, OrderSound(s), NEW l \in Layers
  PROVE  /\ OrderSound(AwaitTransfer(s, l))
         /\ AwaitTransfer(s, l).sched = s.sched /\ AwaitTransfer(s, l).pending = s.pending
         /\ AwaitTransfer(s, l).t = s.t
         /\ \A k \in Layers \ {l} : AwaitTransfer(s, l).outstanding[k] = s.outstanding[k]
         /\ PolicyEnabled /\ s.sched[l] # NoEvent => AwaitTransfer(s, l).outstanding[l] = 0
<1> DEFINE r == AwaitTransfer(s, l)
<1>1. s \in LoaderType /\ r \in LoaderType /\ r.t = s.t /\ SameMaps(s, r)
  BY AwaitTransferFacts DEF OrderSound
<1>2. CASE s.sched[l] # NoEvent
  <2> DEFINE w == OnCompute(s, "wait", s.sched[l])
  <2>1. s.sched[l] \in Nat /\ s.sched[l] <= Len(s.t)
    BY <1>1, <1>2, SoundFacts DEF OrderSound, EventsBounded
  <2>2. w \in LoaderType /\ w.outstanding = s.outstanding
    BY <1>1, <2>1, OnComputeFacts
  <2>3. r = OnWait(w, l) /\ r.c = Append(s.c, [k |-> "wait", n |-> s.sched[l]])
    BY <1>1, <1>2, AwaitTransferFacts DEF AwaitTransfer
  <2> HIDE DEF w
  <2>4. /\ \A k \in Layers \ {l} : r.outstanding[k] = s.outstanding[k]
        /\ PolicyEnabled => r.outstanding[l] = 0
    BY <2>2, <2>3, OnWaitOutstanding
  <2> HIDE DEF r
  <2>5. \A k \in Layers : r.outstanding[k] # s.outstanding[k]
          => (s.sched[k] # NoEvent => s.sched[k] <= s.sched[l])
    BY <2>1, <2>4
  <2>6. OrderSound(r)
    <3> DEFINE n == s.sched[l]
    <3>1. n \in Nat /\ n <= Len(s.t) /\ r.c = Append(s.c, [k |-> "wait", n |-> n])
          /\ \A k \in Layers : r.outstanding[k] # s.outstanding[k]
               => (s.sched[k] # NoEvent => s.sched[k] <= n)
      BY <2>1, <2>3, <2>5
    <3> HIDE DEF n
    <3>2. QED
      BY <1>1, <3>1, ComputeKeeps
  <2>7. QED
    BY <1>1, <2>4, <2>6 DEF r, SameMaps
<1>3. CASE s.sched[l] = NoEvent
  <2>1. r = s
    BY <1>3 DEF AwaitTransfer
  <2>2. QED
    BY <1>3, <2>1
<1>4. QED
  BY <1>2, <1>3

LEMMA ForkKeeps ==
  ASSUME NEW s, OrderSound(s)
  PROVE  /\ OrderSound(Fork(s)) /\ Fork(s).pending
         /\ Fork(s).sched = s.sched /\ Fork(s).outstanding = s.outstanding
<1> DEFINE r == Fork(s)
<1>1. CASE s.pending
  BY <1>1 DEF Fork
<1>2. CASE ~s.pending
  <2>0. s \in LoaderType /\ Len(s.c) \in Nat /\ Len(s.t) \in Nat
    BY SoundFacts DEF OrderSound
  <2>1. /\ r \in LoaderType /\ r.c = s.c /\ r.pending
        /\ r.t = Append(s.t, [k |-> "wait", n |-> Len(s.c)])
        /\ r.sched = s.sched /\ r.computeEv = s.computeEv
    BY <1>2, <2>0, ForkFacts
  <2>2. r.outstanding = s.outstanding
    BY <1>2, <2>0, OnTransferFacts DEF Fork, LoaderType
  <2> HIDE DEF r
  <2>3. /\ StreamsOrdered(r) /\ Len(r.t) = Len(s.t) + 1
        /\ \A i \in Nat : ComputeAwaits(s, i) => ComputeAwaits(r, i)
    BY <2>0, <2>1, OrderedOnTransfer DEF OrderSound
  <2>4. \A l \in Layers : s.sched[l] \in Nat \cup {NoEvent}
    BY <2>0, SoundFacts
  <2>5. EventsBounded(r)
    <3>1. \A l \in Layers : s.sched[l] <= Len(s.t) /\ s.computeEv[l] <= Len(s.c)
      BY DEF OrderSound, EventsBounded
    <3>2. QED
      BY <2>0, <2>1, <2>3, <2>4, <3>1 DEF EventsBounded, NoEvent
  <2>6. CopiesJoined(r) /\ EventsJoined(r)
    BY <2>1 DEF CopiesJoined, EventsJoined
  <2>7. PolicyKnows(r)
    BY <2>1, <2>2, <2>3, <2>4 DEF OrderSound, PolicyKnows
  <2>9. OrderSound(r)
    BY <2>1, <2>3, <2>5, <2>6, <2>7 DEF OrderSound
  <2>10. QED
    BY <2>1, <2>2, <2>9 DEF r
<1>3. QED
  BY <1>1, <1>2

LEMMA OnScheduleOutstanding ==
  ASSUME NEW s \in LoaderType, NEW t \in Layers, NEW l \in Layers
  PROVE  /\ PolicyEnabled => OnSchedule(s, t, l).outstanding = [s.outstanding EXCEPT ![l] = t]
         /\ ~PolicyEnabled => OnSchedule(s, t, l).outstanding = s.outstanding
BY DEF OnSchedule, LoaderType

LEMMA AwaitBlockOutstanding ==
  ASSUME plan \in Plans, NEW s \in LoaderType, NEW t \in Transfers(plan)
  PROVE  AwaitBlock(s, t).outstanding = s.outstanding
<1> DEFINE b    == plan.block[t]
           last == s.lastBlock[b]
           free == IF last # 0 /\ s.computeEv[plan.t2c[last]] # NoEvent
                     THEN OnTransfer(s, "wait", s.computeEv[plan.t2c[last]])
                     ELSE s
<1>1. last # 0 => plan.t2c[last] \in Layers
  BY PlanFacts DEF LoaderType
<1>2. last # 0 /\ s.computeEv[plan.t2c[last]] # NoEvent => s.computeEv[plan.t2c[last]] \in Nat
  BY <1>1 DEF LoaderType, Event
<1>3. free \in LoaderType /\ free.outstanding = s.outstanding
  BY <1>2, OnTransferFacts
<1>4. AwaitBlock(s, t) = [free EXCEPT !.lastBlock[b] = t]
  BY DEF AwaitBlock
<1> HIDE DEF b, last, free
<1>5. QED
  BY <1>3, <1>4 DEF LoaderType

LEMMA ScheduleTransferOutstanding ==
  ASSUME plan \in Plans, NEW s \in LoaderType, NEW t \in Transfers(plan)
  PROVE  LET r == ScheduleTransfer(s, t)
         IN  /\ PolicyEnabled => r.outstanding = [s.outstanding EXCEPT ![WaitLabel(t)] = t]
             /\ ~PolicyEnabled => r.outstanding = s.outstanding
<1> DEFINE f      == AwaitBlock(s, t)
           copied == OnTransfer(f, "copy", t)
           marked == [copied EXCEPT !.sched[WaitLabel(t)] = Len(copied.t)]
<1>1. t \in Layers /\ t \in Nat /\ WaitLabel(t) \in Layers
  BY PlanFacts DEF WaitLabel, Layers
<1>2. f \in LoaderType /\ f.outstanding = s.outstanding
  BY AwaitBlockFacts, AwaitBlockOutstanding
<1> HIDE DEF f
<1>3. copied \in LoaderType /\ copied.outstanding = f.outstanding
  BY <1>1, <1>2, OnTransferFacts
<1>4. Len(copied.t) \in Nat
  BY <1>3, StreamFacts
<1> HIDE DEF copied
<1>5. marked \in LoaderType /\ marked.outstanding = copied.outstanding
  BY <1>1, <1>3, <1>4 DEF LoaderType, Event
<1>6. ScheduleTransfer(s, t) = OnSchedule(marked, t, WaitLabel(t))
  BY DEF ScheduleTransfer, copied, f
<1> HIDE DEF marked
<1>7. QED
  BY <1>1, <1>2, <1>3, <1>5, <1>6, OnScheduleOutstanding

LEMMA ScheduleTransferKeeps ==
  ASSUME plan \in Plans, NEW s, OrderSound(s), s.pending, NEW t \in Transfers(plan)
  PROVE  OrderSound(ScheduleTransfer(s, t))
<1> DEFINE f  == AwaitBlock(s, t)
           r  == ScheduleTransfer(s, t)
           w  == WaitLabel(t)
           last == s.lastBlock[plan.block[t]]
           ev == s.computeEv[plan.t2c[last]]
<1>1. s \in LoaderType /\ t \in Nat /\ t \in Layers /\ t # 0 /\ w \in Layers
  BY PlanFacts DEF OrderSound, WaitLabel, Layers
<1>2. /\ f \in LoaderType /\ f.c = s.c
      /\ f.t = s.t \/ (ev \in Nat /\ plan.t2c[last] \in Layers
                         /\ f.t = Append(s.t, [k |-> "wait", n |-> ev]))
  BY <1>1, AwaitBlockFacts
<1>3. /\ r \in LoaderType /\ r.c = s.c /\ r.pending /\ r.computeEv = s.computeEv
      /\ r.t = Append(f.t, [k |-> "copy", n |-> t])
      /\ r.sched = [s.sched EXCEPT ![w] = Len(r.t)]
  BY <1>1, ScheduleTransferFacts
<1>4. PolicyEnabled => r.outstanding = [s.outstanding EXCEPT ![w] = t]
  BY <1>1, ScheduleTransferOutstanding
<1>5. ev \in Nat /\ plan.t2c[last] \in Layers => ev <= Len(s.c)
  BY DEF OrderSound, EventsBounded
<1> HIDE DEF f, r, w, last, ev
<1>6. /\ StreamsOrdered(f) /\ Len(f.t) \in Nat /\ Len(s.t) \in Nat /\ Len(s.t) <= Len(f.t)
      /\ \A i \in Nat : ComputeAwaits(s, i) => ComputeAwaits(f, i)
  <2>1. CASE f.t = s.t
    BY <1>1, <1>2, <2>1, SoundFacts
    DEF OrderSound, StreamsOrdered, WaitsBounded, NoCrossing, ComputeAwaits
  <2>2. CASE f.t # s.t
    BY <1>1, <1>2, <1>5, <2>2, OrderedOnTransfer, SoundFacts DEF OrderSound
  <2>3. QED
    BY <2>1, <2>2
<1>7. /\ StreamsOrdered(r) /\ Len(r.t) = Len(f.t) + 1
      /\ \A i \in Nat : ComputeAwaits(s, i) => ComputeAwaits(r, i)
  BY <1>1, <1>2, <1>3, <1>6, OrderedOnTransfer
<1>8. /\ r.sched[w] = Len(r.t) /\ Len(r.t) \in Nat
      /\ \A l \in Layers \ {w} : r.sched[l] = s.sched[l]
      /\ \A l \in Layers : s.sched[l] \in Nat \cup {NoEvent}
  <2>1. Len(r.t) \in Nat /\ s.sched \in [Layers -> Event]
    BY <1>1, <1>3, SoundFacts DEF LoaderType
  <2>2. \A l \in Layers : s.sched[l] \in Nat \cup {NoEvent}
    BY <1>1, SoundFacts
  <2>3. QED
    BY <1>1, <1>3, <2>1, <2>2
<1>9. EventsBounded(r)
  <2>1. \A l \in Layers : s.sched[l] <= Len(s.t) /\ s.computeEv[l] <= Len(s.c)
    BY DEF OrderSound, EventsBounded
  <2>2. QED
    BY <1>3, <1>6, <1>7, <1>8, <2>1 DEF EventsBounded, NoEvent
<1>10. CopiesJoined(r) /\ EventsJoined(r)
  BY <1>3 DEF CopiesJoined, EventsJoined
<1>11. PolicyKnows(r)
  <2>1. SUFFICES ASSUME PolicyEnabled, NEW l \in Layers, r.sched[l] # NoEvent
                 PROVE  r.outstanding[l] # 0 \/ ComputeAwaits(r, r.sched[l])
    BY DEF PolicyKnows
  <2>2. s.outstanding \in [Layers -> Layers \cup {0}]
    BY <1>1 DEF LoaderType
  <2>3. CASE l = w
    BY <1>1, <1>4, <2>1, <2>2, <2>3
  <2>4. CASE l # w
    <3>1. r.sched[l] = s.sched[l] /\ s.sched[l] \in Nat
      BY <1>8, <2>1, <2>4
    <3>2. r.outstanding[l] = s.outstanding[l]
      BY <1>1, <1>4, <2>1, <2>2, <2>4
    <3>3. s.outstanding[l] # 0 \/ ComputeAwaits(s, s.sched[l])
      BY <2>1, <3>1 DEF OrderSound, PolicyKnows
    <3>4. QED
      BY <1>7, <3>1, <3>2, <3>3
  <2>5. QED
    BY <2>3, <2>4
<1>13. QED
  BY <1>3, <1>7, <1>9, <1>10, <1>11 DEF OrderSound, r

LEMMA JoinAndClearKeeps ==
  ASSUME NEW s, OrderSound(s)
  PROVE  /\ OrderSound(JoinAndClear(s)) /\ JoinAndClear(s).outstanding = NoLabels
         /\ JoinAndClear(s).sched = NoEvents /\ JoinAndClear(s).computeEv = NoEvents
<1> DEFINE r == JoinAndClear(s)
           j == IF s.pending THEN [JoinTransfer(s) EXCEPT !.pending = FALSE] ELSE s
<1>1. s \in LoaderType /\ Len(s.c) \in Nat /\ Len(s.t) \in Nat
  BY SoundFacts DEF OrderSound
<1>2. /\ r \in LoaderType /\ r.t = s.t /\ r.sched = NoEvents /\ r.computeEv = NoEvents
      /\ s.pending => r.c = Append(s.c, [k |-> "wait", n |-> Len(s.t)])
      /\ ~s.pending => r.c = s.c
      /\ r.outstanding = NoLabels
  <2>1. j \in LoaderType /\ j.t = s.t
        /\ (s.pending => j.c = Append(s.c, [k |-> "wait", n |-> Len(s.t)]))
        /\ (~s.pending => j.c = s.c)
    BY <1>1, JoinTransferFacts DEF LoaderType
  <2>2. r = [ClearMaps(j) EXCEPT !.outstanding = NoLabels]
    BY DEF JoinAndClear
  <2> HIDE DEF j
  <2>3. ClearMaps(j) \in LoaderType /\ SameStreams(j, ClearMaps(j))
    BY <2>1, ClearMapsFacts
  <2>4. r.outstanding = NoLabels /\ r.c = j.c
    BY <2>2, <2>3 DEF LoaderType, SameStreams
  <2>5. QED
    BY <1>1, <2>1, <2>4, JoinAndClearFacts
<1> HIDE DEF r
<1>3. StreamsOrdered(r) /\ (\A i \in Nat : ComputeAwaits(s, i) => ComputeAwaits(r, i))
      /\ (s.pending => \A i \in 0 .. Len(s.t) : ComputeAwaits(r, i))
  <2>1. CASE s.pending
    BY <1>1, <1>2, <2>1, OrderedOnCompute DEF OrderSound
  <2>2. CASE ~s.pending
    BY <1>1, <1>2, <2>2 DEF OrderSound, StreamsOrdered, WaitsBounded, NoCrossing, ComputeAwaits
  <2>3. QED
    BY <2>1, <2>2
<1>4. Len(s.c) <= Len(r.c) /\ Len(r.c) \in Nat
  <2>1. CASE s.pending
    <3> DEFINE e == [k |-> "wait", n |-> Len(s.t)]
    <3>1. e \in Op /\ s.c \in Seq(Op) /\ r.c = Append(s.c, e)
      BY <1>1, <1>2, <2>1, StreamFacts DEF Op
    <3> HIDE DEF e
    <3>2. QED
      BY <1>1, <3>1, AppendFacts
  <2>2. CASE ~s.pending
    BY <1>1, <1>2, <2>2
  <2>3. QED
    BY <2>1, <2>2
<1>5. \A l \in Layers : r.sched[l] = NoEvent /\ r.computeEv[l] = NoEvent
  BY <1>2 DEF NoEvents
<1>6. EventsBounded(r) /\ EventsJoined(r) /\ PolicyKnows(r)
  BY <1>1, <1>2, <1>4, <1>5 DEF EventsBounded, EventsJoined, PolicyKnows, NoEvent
<1>7. CopiesJoined(r)
  <2>1. CASE s.pending
    BY <1>2, <1>3, <2>1 DEF CopiesJoined
  <2>2. CASE ~s.pending
    BY <1>1, <1>2, <1>3, <2>2 DEF OrderSound, CopiesJoined
  <2>3. QED
    BY <2>1, <2>2
<1>9. QED
  BY <1>2, <1>3, <1>6, <1>7 DEF OrderSound, r

(* A new forward: what it may take over is what the preload left. *)
LEMMA StartPassSound ==
  ASSUME NEW s, OrderSound(s)
  PROVE  /\ OrderSound(StartPass(s)) /\ StartPass(s).outstanding = NoLabels
<1> DEFINE r == StartPass(s)
           joined  == IF s.pending \/ s.sched # NoEvents THEN JoinTransfer(s) ELSE s
           cleared == IF Recovering(s) THEN ClearMaps(joined)
                      ELSE [s EXCEPT !.computeEv = NoEvents, !.lastBlock = EmptySlots]
<1>1. s \in LoaderType /\ Len(s.c) \in Nat /\ Len(s.t) \in Nat
  BY SoundFacts DEF OrderSound
<1>2. /\ r \in LoaderType /\ r.t = s.t /\ ~r.pending /\ r.computeEv = NoEvents
      /\ r.c \in {s.c, Append(s.c, [k |-> "wait", n |-> Len(s.t)])}
  BY <1>1, StartPassFacts
<1>3. /\ s.pending => r.c = Append(s.c, [k |-> "wait", n |-> Len(s.t)])
      /\ r.sched = IF Recovering(s) THEN NoEvents ELSE s.sched
      /\ r.outstanding = NoLabels
  <2>1. /\ joined \in LoaderType /\ joined.t = s.t
        /\ s.pending => joined.c = Append(s.c, [k |-> "wait", n |-> Len(s.t)])
    BY <1>1, JoinTransferFacts
  <2>2. r = ResetPolicy([cleared EXCEPT !.pending = FALSE])
    BY DEF StartPass
  <2> HIDE DEF joined
  <2>3. /\ cleared \in LoaderType
        /\ s.pending => cleared.c = Append(s.c, [k |-> "wait", n |-> Len(s.t)])
        /\ cleared.sched = IF Recovering(s) THEN NoEvents ELSE s.sched
    <3>1. CASE Recovering(s)
      BY <2>1, <3>1, ClearMapsFacts DEF SameStreams
    <3>2. CASE ~Recovering(s)
      BY <1>1, <3>2, EmptyMaps DEF LoaderType, Recovering
    <3>3. QED
      BY <3>1, <3>2
  <2> HIDE DEF cleared, r
  <2>4. QED
    BY <2>2, <2>3 DEF ResetPolicy, LoaderType
<1> HIDE DEF r, joined, cleared
<1>4. /\ StreamsOrdered(r) /\ \A i \in Nat : ComputeAwaits(s, i) => ComputeAwaits(r, i)
      /\ s.pending => \A i \in 0 .. Len(s.t) : ComputeAwaits(r, i)
  <2>1. CASE r.c = s.c
    <3>1. StreamsOrdered(r) /\ \A i \in Nat : ComputeAwaits(s, i) => ComputeAwaits(r, i)
      BY <1>1, <1>2, <2>1 DEF OrderSound, StreamsOrdered, WaitsBounded, NoCrossing, ComputeAwaits
    <3>2. ~s.pending
      <4> DEFINE e == [k |-> "wait", n |-> Len(s.t)]
      <4>1. e \in Op /\ s.c \in Seq(Op)
        BY <1>1, StreamFacts DEF Op
      <4> HIDE DEF e
      <4>2. Append(s.c, e) # s.c
        BY <4>1, AppendFacts
      <4>3. QED
        BY <1>3, <2>1, <4>2 DEF e
    <3>3. QED
      BY <3>1, <3>2
  <2>2. CASE r.c # s.c
    BY <1>1, <1>2, <2>2, OrderedOnCompute DEF OrderSound
  <2>3. QED
    BY <2>1, <2>2
<1>5. Len(s.c) <= Len(r.c) /\ Len(r.c) \in Nat
  <2>1. CASE r.c = s.c
    BY <1>1, <2>1
  <2>2. CASE r.c # s.c
    <3> DEFINE e == [k |-> "wait", n |-> Len(s.t)]
    <3>1. e \in Op /\ s.c \in Seq(Op) /\ r.c = Append(s.c, e)
      BY <1>1, <1>2, <2>2, StreamFacts DEF Op
    <3> HIDE DEF e
    <3>2. QED
      BY <1>1, <3>1, AppendFacts
  <2>3. QED
    BY <2>1, <2>2
<1>6. ASSUME NEW l \in Layers, r.sched[l] # NoEvent
      PROVE  s.sched[l] \in Nat /\ r.sched[l] = s.sched[l] /\ ComputeAwaits(r, r.sched[l])
  <2>1. ~Recovering(s) /\ r.sched[l] = s.sched[l]
    BY <1>3, <1>6 DEF NoEvents
  <2>2. s.sched[l] \in Nat
    BY <1>1, <1>6, <2>1, SoundFacts
  <2>3. ComputeAwaits(s, s.sched[l])
    BY <1>6, <2>1 DEF OrderSound, EventsJoined, Recovering
  <2>4. QED
    BY <1>4, <2>1, <2>2, <2>3
<1>7. \A l \in Layers : r.computeEv[l] = NoEvent /\ NoEvent = -1
  BY <1>2 DEF NoEvents, NoEvent
<1>8. \A l \in Layers : r.sched[l] <= Len(r.t)
  <2>1. \A l \in Layers : s.sched[l] <= Len(s.t)
    BY DEF OrderSound, EventsBounded
  <2>2. QED
    BY <1>1, <1>2, <1>6, <1>7, <2>1
<1>9. EventsBounded(r)
  BY <1>5, <1>7, <1>8 DEF EventsBounded
<1>10. EventsJoined(r) /\ PolicyKnows(r)
  BY <1>6 DEF EventsJoined, PolicyKnows
<1>11. CopiesJoined(r)
  <2>1. CASE s.pending
    BY <1>1, <1>2, <1>4, <2>1 DEF CopiesJoined
  <2>2. CASE ~s.pending
    BY <1>1, <1>2, <1>4, <2>2 DEF OrderSound, CopiesJoined
  <2>3. QED
    BY <2>1, <2>2
<1>12. QED
  BY <1>2, <1>3, <1>4, <1>9, <1>10, <1>11 DEF OrderSound, r

LEMMA EnterLayerKeeps ==
  ASSUME plan \in Plans, NEW s, OrderSound(s), NEW l \in Layers
  PROVE  OrderSound(EnterLayer(s, l))
<1> DEFINE started == IF l = 1 THEN StartPass(s) ELSE s
           forked  == Fork(started)
           ready   == IF reordered THEN AwaitTransfer(forked, l) ELSE forked
           done    == IF l \in Transfers(plan) THEN ScheduleTransfer(ready, l) ELSE ready
<1>1. EnterLayer(s, l) = done
  BY DEF EnterLayer
<1>2. OrderSound(started)
  BY StartPassSound
<1> HIDE DEF started
<1>3. OrderSound(forked) /\ forked.pending
  BY <1>2, ForkKeeps
<1> HIDE DEF forked
<1>4. OrderSound(ready) /\ ready.pending
  BY <1>3, AwaitTransferKeeps
<1> HIDE DEF ready
<1>5. OrderSound(done)
  BY <1>4, ScheduleTransferKeeps
<1>6. QED
  BY <1>1, <1>5

LEMMA RecordedOutstanding ==
  ASSUME NEW s \in LoaderType, NEW l \in Layers
  PROVE  LET waited == IF reordered THEN s ELSE AwaitTransfer(s, l)
         IN  Recorded(s, l).outstanding = waited.outstanding
<1> DEFINE waited == IF reordered THEN s ELSE AwaitTransfer(s, l)
<1>1. waited \in LoaderType
  BY AwaitTransferFacts
<1>2. Recorded(s, l) = [waited EXCEPT !.computeEv[l] = Len(waited.c)]
  BY DEF Recorded
<1> HIDE DEF waited
<1>3. QED
  BY <1>1, <1>2 DEF waited, LoaderType

LEMMA RecordedKeeps ==
  ASSUME NEW s, OrderSound(s), NEW l \in Layers
  PROVE  OrderSound(Recorded(s, l))
<1> DEFINE waited == IF reordered THEN s ELSE AwaitTransfer(s, l)
           r == Recorded(s, l)
<1>1. OrderSound(waited)
  BY AwaitTransferKeeps
<1>2. /\ r \in LoaderType /\ r.c = waited.c /\ r.t = waited.t
      /\ r.pending = s.pending /\ r.sched = s.sched
      /\ r.computeEv = [s.computeEv EXCEPT ![l] = Len(waited.c)]
  BY RecordedFacts DEF OrderSound, SameStreams
<1>3. waited.pending = s.pending /\ waited.sched = s.sched /\ waited.computeEv = s.computeEv
  BY AwaitTransferFacts DEF OrderSound, SameMaps
<1>4. r.outstanding = waited.outstanding
  BY RecordedOutstanding DEF OrderSound
<1> HIDE DEF waited, r
<1>5. OrderSound(waited) /\ Len(waited.c) \in Nat /\ Len(waited.t) \in Nat
  BY <1>1, SoundFacts DEF OrderSound
<1>6. r.computeEv[l] = Len(waited.c) /\ \A k \in Layers \ {l} : r.computeEv[k] = waited.computeEv[k]
  BY <1>2, <1>3 DEF OrderSound, LoaderType
<1>7. StreamsOrdered(r)
  BY <1>2, <1>5 DEF OrderSound, StreamsOrdered, WaitsBounded, NoCrossing
<1>8. \A i : ComputeAwaits(r, i) <=> ComputeAwaits(waited, i)
  BY <1>2 DEF ComputeAwaits
<1>9. EventsBounded(r)
  BY <1>2, <1>3, <1>5, <1>6 DEF OrderSound, EventsBounded
<1>10. CopiesJoined(r) /\ EventsJoined(r) /\ PolicyKnows(r)
  BY <1>2, <1>3, <1>4, <1>5, <1>8 DEF OrderSound, CopiesJoined, EventsJoined, PolicyKnows
<1>11. QED
  BY <1>2, <1>7, <1>9, <1>10 DEF OrderSound, r

LEMMA ExitLayerKeeps ==
  ASSUME NEW s, OrderSound(s), NEW l \in Layers
  PROVE  OrderSound(ExitLayer(s, l))
<1>1. ExitLayer(s, l) = IF l = NLayers THEN JoinAndClear(Recorded(s, l)) ELSE Recorded(s, l)
  BY DEF ExitLayer, Recorded
<1>2. OrderSound(Recorded(s, l))
  BY RecordedKeeps
<1>3. CASE l = NLayers
  <2>1. OrderSound(Recorded(s, l))
    BY <1>2
  <2>2. QED
    BY <1>1, <1>2, <1>3, <2>1, JoinAndClearKeeps
<1>4. QED
  BY <1>1, <1>2, <1>3

LEMMA LaunchKeeps ==
  ASSUME NEW s, OrderSound(s), NEW l \in Layers
  PROVE  /\ OrderSound(OnCompute(s, "read", l))
         /\ OnCompute(s, "read", l).outstanding = s.outstanding
         /\ OnCompute(s, "read", l).sched = s.sched
<1> DEFINE r == OnCompute(s, "read", l)
<1>1. l \in Nat /\ s \in LoaderType
  BY DEF Layers, OrderSound
<1>2. /\ r \in LoaderType /\ r.t = s.t /\ SameMaps(s, r)
      /\ r.c = Append(s.c, [k |-> "read", n |-> l]) /\ r.outstanding = s.outstanding
  BY <1>1, OnComputeFacts
<1> HIDE DEF r
<1>3. OrderSound(r)
  BY <1>1, <1>2, ComputeKeeps
<1>4. QED
  BY <1>2, <1>3 DEF r, SameMaps

(* The end of the preload. *)
LEMMA PreloadDoneSound ==
  ASSUME TypeInv, Preloading(ld), PreloadDone
  PROVE  OrderSound(ld')
<1> DEFINE preloaded == FindTransfersForPreload(plan)
           j     == JoinTransfer(ld)
           slots == [b \in Blocks |-> IF \E t \in preloaded : plan.block[t] = b
                                        THEN CHOOSE t \in preloaded : plan.block[t] = b
                                        ELSE 0]
           evs   == [l \in Layers |-> IF reordered /\ \E t \in preloaded : plan.t2c[t] = l
                                        THEN Len(ld.t) ELSE NoEvent]
<1>1. ld \in LoaderType /\ Len(ld.t) \in Nat
  BY SoundFacts DEF TypeInv, TypeOK
<1>2. /\ j \in LoaderType /\ j.t = ld.t /\ j.c = Append(ld.c, [k |-> "wait", n |-> Len(ld.t)])
      /\ j.computeEv = NoEvents /\ ~j.pending
  BY <1>1, JoinTransferFacts DEF Preloading, SameMaps
<1>3. ld' = [j EXCEPT !.lastBlock = slots, !.sched = evs]
  BY DEF PreloadDone
<1>4. slots \in [Blocks -> Transfers(plan) \cup {0}]
  <2>1. preloaded \subseteq Transfers(plan)
    BY DEF FindTransfersForPreload
  <2> HIDE DEF preloaded
  <2>2. QED
    BY <2>1
<1>5. evs \in [Layers -> Event] /\ \A l \in Layers : evs[l] \in {NoEvent, Len(ld.t)}
  BY <1>1 DEF Event
<1> DEFINE r == [j EXCEPT !.lastBlock = slots, !.sched = evs]
<1> HIDE DEF j, slots, evs
<1>6. /\ r \in LoaderType /\ r.c = j.c /\ r.t = j.t /\ r.sched = evs
      /\ r.computeEv = NoEvents /\ ~r.pending
  BY <1>2, <1>4, <1>5 DEF LoaderType
<1> HIDE DEF r
<1>7. StreamsOrdered(ld)
  BY <1>1 DEF Preloading, StreamsOrdered, WaitsBounded, NoCrossing
<1>8. StreamsOrdered(r) /\ \A i \in 0 .. Len(ld.t) : ComputeAwaits(r, i)
  BY <1>1, <1>2, <1>6, <1>7, OrderedOnCompute
<1>9. Len(r.c) \in Nat
  BY <1>6, SoundFacts
<1>10. EventsBounded(r)
  BY <1>1, <1>2, <1>5, <1>6, <1>9 DEF EventsBounded, NoEvents, NoEvent
<1>11. CopiesJoined(r) /\ EventsJoined(r) /\ PolicyKnows(r)
  BY <1>1, <1>2, <1>5, <1>6, <1>8 DEF CopiesJoined, EventsJoined, PolicyKnows, NoEvent
<1>12. QED
  BY <1>3, <1>6, <1>8, <1>10, <1>11 DEF OrderSound, r

-----------------------------------------------------------------------------
(* The steps. *)

LEMMA SamePlanSound ==
  ASSUME UNCHANGED <<plan, reordered, ld>>, OrderSound(ld)
  PROVE  OrderSound(ld)'
<1>1. (ld \in LoaderType)'
  BY DEF OrderSound, LoaderType, Transfers
<1>2. StreamsOrdered(ld)' /\ EventsBounded(ld)'
  BY DEF OrderSound, StreamsOrdered, WaitsBounded, NoCrossing, EventsBounded
<1>3. CopiesJoined(ld)' /\ EventsJoined(ld)' /\ PolicyKnows(ld)'
  BY DEF OrderSound, CopiesJoined, EventsJoined, PolicyKnows, ComputeAwaits
<1>4. QED
  BY <1>1, <1>2, <1>3 DEF OrderSound

(* OrderSound speaks of the plan, which a host step leaves alone. *)
LEMMA SoundAfter ==
  ASSUME UNCHANGED plan, OrderSound(ld')
  PROVE  OrderSound(ld)'
<1>1. (ld \in LoaderType)'
  BY DEF OrderSound, LoaderType, Transfers
<1>2. StreamsOrdered(ld)' /\ EventsBounded(ld)'
  BY DEF OrderSound, StreamsOrdered, WaitsBounded, NoCrossing, EventsBounded
<1>3. CopiesJoined(ld)' /\ EventsJoined(ld)' /\ PolicyKnows(ld)'
  BY DEF OrderSound, CopiesJoined, EventsJoined, PolicyKnows, ComputeAwaits
<1>4. QED
  BY <1>1, <1>2, <1>3 DEF OrderSound

LEMMA OrderInit == Init => OrderInv
<1> SUFFICES ASSUME Init PROVE OrderInv
  OBVIOUS
<1>1. TypeInv
  BY TypeInit
<1>2. stage = "preload" /\ ~InPass
  BY DEF Init, InPass
<1>3. Preloading(ld)
  BY DEF Init, Preloading
<1>4. QED
  BY <1>1, <1>2, <1>3 DEF OrderInv

LEMMA PreloadCopyKeeps ==
  ASSUME TypeInv, Preloading(ld), NEW t \in Layers, PreloadCopy(t)
  PROVE  Preloading(ld)'
<1>1. t \in Nat /\ ld \in LoaderType
  BY DEF TypeInv, TypeOK, Layers
<1>2. /\ ld'.t = Append(ld.t, [k |-> "copy", n |-> t]) /\ ld'.c = ld.c /\ SameMaps(ld, ld')
  BY <1>1, OnTransferFacts DEF PreloadCopy
<1> DEFINE e == [k |-> "copy", n |-> t]
<1>3. e \in Op /\ e.k = "copy"
  BY <1>1 DEF Op
<1>4. ld'.t = Append(ld.t, e) /\ ld.t \in Seq(Op)
  BY <1>1, <1>2, StreamFacts
<1> HIDE DEF e
<1>5. \A i \in 1 .. Len(ld'.t) : ld'.t[i].k # "wait"
  BY <1>3, <1>4, AppendFacts DEF Preloading
<1>6. QED
  BY <1>2, <1>5 DEF Preloading, SameMaps

LEMMA OrderStep == OrderInv /\ [Next]_vars => OrderInv'
<1> SUFFICES ASSUME OrderInv, [Next]_vars PROVE OrderInv'
  OBVIOUS
<1>0. TypeInv /\ TypeInv' /\ plan \in Plans /\ StageShape
  BY TypeStep, PlansOfBlockPlans DEF OrderInv, TypeInv, TypeOK
<1>1. ASSUME NEW t \in Layers, PreloadCopy(t) PROVE OrderInv'
  <2>1. stage = "preload" /\ stage' = "preload"
    BY <1>1 DEF PreloadCopy
  <2>2. Preloading(ld)'
    BY <1>0, <1>1, <2>1, PreloadCopyKeeps DEF OrderInv
  <2>3. QED
    BY <1>0, <2>1, <2>2 DEF OrderInv
<1>2. ASSUME PreloadDone PROVE OrderInv'
  <2>1. stage = "preload" /\ stage' = "outside" /\ plan' = plan
    BY <1>2 DEF PreloadDone
  <2>2. OrderSound(ld)'
    BY <1>0, <1>2, <2>1, PreloadDoneSound, SoundAfter DEF OrderInv
  <2>3. QED
    BY <1>0, <2>1, <2>2 DEF OrderInv
<1>3. ASSUME stage # "preload", stage' # "preload", plan' = plan,
             OrderSound(ld) => OrderSound(ld')
      PROVE  OrderInv'
  BY <1>0, <1>3, SoundAfter DEF OrderInv
<1>4. ASSUME NEW l \in Layers, Enter(l) PROVE OrderInv'
  BY <1>0, <1>3, <1>4, EnterLayerKeeps DEF Enter
<1>5. ASSUME Launch PROVE OrderInv'
  <2>1. layer \in Layers
    BY <1>0, <1>5 DEF Launch, TypeInv, TypeOK, StageShape, InPass
  <2>2. QED
    BY <1>3, <1>5, <2>1, LaunchKeeps DEF Launch
<1>6. ASSUME Exit PROVE OrderInv'
  <2>1. layer \in Layers
    BY <1>0, <1>6 DEF Exit, TypeInv, TypeOK, StageShape, InPass
  <2>2. QED
    BY <1>3, <1>6, <2>1, ExitLayerKeeps DEF Exit
<1>7. ASSUME JoinAfterForward PROVE OrderInv'
  BY <1>3, <1>7, JoinAndClearKeeps DEF JoinAfterForward
<1>8. ASSUME SyncPrevOnload PROVE OrderInv'
  BY <1>3, <1>8, JoinTransferKeeps DEF SyncPrevOnload
<1>9. ASSUME Abort \/ Shutdown PROVE OrderInv'
  <2>1. stage # "preload" /\ stage' # "preload" /\ UNCHANGED <<plan, reordered, ld>>
    BY <1>0, <1>9 DEF Abort, Shutdown, StageShape, InPass
  <2>2. QED
    BY <1>0, <2>1, SamePlanSound DEF OrderInv
<1>10. ASSUME UNCHANGED hostVars PROVE OrderInv'
  <2>1. UNCHANGED <<plan, reordered, ld, stage>>
    BY <1>10 DEF hostVars
  <2>2. Preloading(ld) => Preloading(ld)'
    BY <2>1 DEF Preloading
  <2>3. QED
    BY <1>0, <2>1, <2>2, SamePlanSound DEF OrderInv
<1>11. QED
  BY <1>1, <1>2, <1>4, <1>5, <1>6, <1>7, <1>8, <1>9, <1>10
     DEF Next, HostStep, ComputeStep, TransferStep, vars

-----------------------------------------------------------------------------
(* What follows. *)

LEMMA OrderAlways == Spec => []OrderInv
BY OrderInit, OrderStep, PTL DEF Spec

(* The streams never wait for each other in a circle: as long as something is
   enqueued on them, one can go on, whatever the host did: aborted forwards,
   piece joins and preloads of a cyclic plan included. *)
THEOREM NeverDeadlocks == Spec => []StreamsNeverDeadlock
<1>1. OrderInv => StreamsNeverDeadlock
  <2> SUFFICES ASSUME OrderInv, cdone < Len(ld.c) \/ tdone < Len(ld.t),
                      ~ComputeReady, ~TransferReady
               PROVE  FALSE
    BY DEF StreamsNeverDeadlock
  <2>1. /\ Len(ld.c) \in Nat /\ Len(ld.t) \in Nat
        /\ cdone \in 0 .. Len(ld.c) /\ tdone \in 0 .. Len(ld.t)
        /\ \A j \in 1 .. Len(ld.c) : ld.c[j].n \in Nat
        /\ \A i \in 1 .. Len(ld.t) : ld.t[i].n \in Nat
    BY SoundFacts DEF OrderInv, TypeInv, TypeOK
  <2>2. CASE stage = "preload"
    <3>1. cdone = 0 /\ Len(ld.c) = 0 /\ \A i \in 1 .. Len(ld.t) : ld.t[i].k # "wait"
      BY <2>1, <2>2 DEF OrderInv, Preloading
    <3>2. QED
      BY <2>1, <3>1 DEF TransferReady, NextTransfer
  <2>3. CASE stage # "preload"
    <3>1. WaitsBounded(ld) /\ NoCrossing(ld)
      BY <2>3 DEF OrderInv, OrderSound, StreamsOrdered
    <3>2. cdone < Len(ld.c) => /\ cdone + 1 \in 1 .. Len(ld.c) /\ ld.c[cdone + 1].k = "wait"
                               /\ ld.c[cdone + 1].n > tdone
      BY <2>1 DEF ComputeReady, NextCompute
    <3>3. tdone < Len(ld.t) => /\ tdone + 1 \in 1 .. Len(ld.t) /\ ld.t[tdone + 1].k = "wait"
                               /\ ld.t[tdone + 1].n > cdone
      BY <2>1 DEF TransferReady, NextTransfer
    <3>4. cdone < Len(ld.c) => tdone < Len(ld.t)
      BY <2>1, <3>1, <3>2 DEF WaitsBounded
    <3>5. tdone < Len(ld.t) => cdone < Len(ld.c)
      BY <2>1, <3>1, <3>3 DEF WaitsBounded
    <3>6. ld.c[cdone + 1].n < tdone + 1 \/ ld.t[tdone + 1].n < cdone + 1
      BY <3>1, <3>2, <3>3, <3>4, <3>5 DEF NoCrossing
    <3>7. ld.c[cdone + 1].n \in Nat /\ ld.t[tdone + 1].n \in Nat
      BY <2>1, <3>2, <3>3, <3>4, <3>5
    <3>8. QED
      BY <2>1, <3>2, <3>3, <3>4, <3>5, <3>6, <3>7
  <2>4. QED
    BY <2>2, <2>3
<1>2. QED
  BY <1>1, OrderAlways, PTL

(* Copies the compute stream was not made to wait for are announced by
   _has_pending_transfer_work, so no graph capture ends unjoined. *)
THEOREM UnjoinedIsAnnounced == Spec => []UnjoinedWorkIsPending
<1>1. OrderInv => UnjoinedWorkIsPending
  BY DEF OrderInv, OrderSound, CopiesJoined, ComputeAwaits, UnjoinedWorkIsPending, Covered
<1>2. QED
  BY <1>1, OrderAlways, PTL

(* Every prefetch a piece join would cut short is known to the policy. *)
THEOREM PolicyMissesNothing == Spec => []PolicySeesUnawaitedPrefetch
<1>1. OrderInv => PolicySeesUnawaitedPrefetch
  <2> SUFFICES ASSUME OrderInv, NEW l \in Layers, PolicyEnabled, layer # 0,
                      ld.sched[l] # NoEvent, ~Covered(ld.sched[l])
               PROVE  ld.outstanding[l] # 0
    BY DEF PolicySeesUnawaitedPrefetch
  <2>1. stage # "preload"
    BY DEF OrderInv, TypeInv, StageShape, InPass
  <2>2. PolicyKnows(ld)
    BY <2>1 DEF OrderInv, OrderSound
  <2>3. QED
    BY <2>2 DEF PolicyKnows, Covered, ComputeAwaits
<1>2. QED
  BY <1>1, OrderAlways, PTL

-----------------------------------------------------------------------------
(* Whose events are in the maps. *)

(* Nothing ran since preload(), and the events are those it recorded. *)
OnlyPreloaded ==
  /\ layer = 0 /\ passes = 0 /\ breaks = 0
  /\ \A l \in Layers : ld.sched[l] # NoEvent =>
       reordered /\ \E t \in FindTransfersForPreload(plan) : plan.t2c[t] = l

HandlesInv ==
  /\ TypeInv
  /\ stage = "preload" => passes = 0 /\ breaks = 0
  /\ ld.pending \/ ld.sched = NoEvents \/ OnlyPreloaded
  /\ InPass => boundary.entered <= layer /\ boundary.left <= LayersLeft
  /\ HandlesOfThisSession

(* enter adds the event of its own copy, to what the start of a forward leaves. *)
LEMMA EnterMaps ==
  ASSUME plan \in Plans, NEW s \in LoaderType, NEW l \in Layers
  PROVE  LET r == EnterLayer(s, l)
             b == IF l = 1 THEN StartPass(s) ELSE s
         IN  /\ r.pending /\ r.computeEv = b.computeEv
             /\ \A k \in Layers : \/ r.sched[k] = b.sched[k]
                                  \/ l \in Transfers(plan) /\ k = WaitLabel(l)
<1> DEFINE b      == IF l = 1 THEN StartPass(s) ELSE s
           forked == Fork(b)
           ready  == IF reordered THEN AwaitTransfer(forked, l) ELSE forked
           done   == IF l \in Transfers(plan) THEN ScheduleTransfer(ready, l) ELSE ready
<1>1. EnterLayer(s, l) = done
  BY DEF EnterLayer
<1>2. b \in LoaderType
  BY StartPassFacts
<1> HIDE DEF b
<1>3. /\ forked \in LoaderType /\ forked.pending
      /\ forked.computeEv = b.computeEv /\ forked.sched = b.sched
  BY <1>2, ForkFacts
<1> HIDE DEF forked
<1>4. /\ ready \in LoaderType /\ ready.pending
      /\ ready.computeEv = b.computeEv /\ ready.sched = b.sched
  BY <1>3, AwaitTransferFacts DEF SameMaps
<1> HIDE DEF ready
<1>5. CASE l \in Transfers(plan)
  <2> DEFINE sent == ScheduleTransfer(ready, l)
  <2>1. /\ sent.pending /\ sent.computeEv = b.computeEv
        /\ sent.sched = [b.sched EXCEPT ![WaitLabel(l)] = Len(sent.t)]
    <3>1. /\ sent.pending = ready.pending /\ sent.computeEv = ready.computeEv
          /\ sent.sched = [ready.sched EXCEPT ![WaitLabel(l)] = Len(sent.t)]
      BY <1>4, <1>5, ScheduleTransferFacts
    <3> HIDE DEF sent
    <3>2. QED
      BY <1>4, <3>1
  <2>2. b.sched \in [Layers -> Event]
    BY <1>2 DEF LoaderType
  <2>3. EnterLayer(s, l) = sent
    BY <1>1, <1>5
  <2> HIDE DEF sent
  <2>4. \A k \in Layers : sent.sched[k] = b.sched[k] \/ k = WaitLabel(l)
    BY <2>1, <2>2
  <2>5. QED
    BY <1>5, <2>1, <2>3, <2>4 DEF b
<1>6. CASE l \notin Transfers(plan)
  BY <1>1, <1>4, <1>6 DEF b
<1>7. QED
  BY <1>5, <1>6

LEMMA HandlesInit == Init => HandlesInv
<1> SUFFICES ASSUME Init PROVE HandlesInv
  OBVIOUS
<1>1. TypeInv
  BY TypeInit
<1>2. layer = 0 /\ passes = 0 /\ breaks = 0 /\ ld.sched = NoEvents
  BY DEF Init
<1>3. QED
  BY <1>1, <1>2 DEF HandlesInv, InPass, HandlesOfThisSession

LEMMA EnterHandles ==
  ASSUME HandlesInv, TypeInv', NEW l \in Layers, Enter(l)
  PROVE  HandlesInv'
<1> DEFINE b == IF l = 1 THEN StartPass(ld) ELSE ld
<1>1. /\ ld \in LoaderType /\ plan \in Plans /\ layer \in Nat /\ l \in Nat
      /\ boundary \in Sessions /\ passes \in Nat
  BY PlansOfBlockPlans, BoundsAssumption DEF HandlesInv, TypeInv, TypeOK, Layers, Sessions
<1>2. /\ stage = "outside" /\ stage' = "entered" /\ l = layer + 1 /\ layer' = l
      /\ plan' = plan /\ reordered' = reordered /\ breaks' = breaks
      /\ ld' = EnterLayer(ld, l)
      /\ passes' = IF l = 1 THEN passes + 1 ELSE passes
      /\ boundary' = IF l = 1 THEN Here(ld) ELSE boundary
  BY DEF Enter
<1>3. LayersLeft = l - 1 /\ LayersLeft' = l - 1
  BY <1>1, <1>2 DEF LayersLeft
<1>4. /\ ld'.pending /\ ld'.computeEv = b.computeEv
      /\ \A k \in Layers : ld'.sched[k] = b.sched[k] \/ (l \in Transfers(plan) /\ k = WaitLabel(l))
  BY <1>1, <1>2, EnterMaps
<1> HIDE DEF b
<1>5. /\ boundary'.entered \in Nat /\ boundary'.entered <= l - 1
      /\ boundary'.left \in Nat /\ boundary'.left <= l - 1
  <2>1. CASE l = 1
    BY <1>1, <1>2, <1>3, <2>1 DEF Here
  <2>2. CASE l # 1
    BY <1>1, <1>2, <1>3, <2>2 DEF HandlesInv, InPass, Sessions, Layers
  <2>3. QED
    BY <2>1, <2>2
<1>6. ASSUME NEW k \in Layers, ld'.computeEv[k] # NoEvent
      PROVE  k \in boundary'.left + 1 .. l - 1
  <2>1. CASE l = 1
    <3>1. b.computeEv = NoEvents
      BY <1>1, <2>1, StartPassFacts DEF b
    <3>2. QED
      BY <1>4, <1>6, <3>1 DEF NoEvents
  <2>2. CASE l # 1
    BY <1>1, <1>2, <1>3, <1>4, <1>6, <2>2 DEF b, HandlesInv, HandlesOfThisSession
  <2>3. QED
    BY <2>1, <2>2
<1>7. ASSUME NEW k \in Layers, ld'.sched[k] # NoEvent
      PROVE  \/ \E t \in Transfers(plan) : WaitLabel(t) = k /\ t \in boundary'.entered + 1 .. l
             \/ KeptFromPreload(k)'
  <2>1. CASE l \in Transfers(plan) /\ k = WaitLabel(l)
    BY <1>1, <1>5, <2>1
  <2>2. CASE ld'.sched[k] = b.sched[k]
    <3>1. CASE l = 1
      <4>1. b.sched = IF Recovering(ld) THEN NoEvents ELSE ld.sched
        BY <1>1, <3>1, StartPassFacts DEF b
      <4>2. ~ld.pending /\ ld.sched[k] # NoEvent /\ ld.sched # NoEvents
        BY <1>7, <2>2, <4>1 DEF NoEvents, Recovering
      <4>3. OnlyPreloaded
        BY <4>2 DEF HandlesInv
      <4>4. QED
        BY <1>2, <3>1, <4>2, <4>3 DEF OnlyPreloaded, KeptFromPreload, FindTransfersForPreload, Transfers
    <3>2. CASE l # 1
      <4>1. layer # 0 /\ ld.sched[k] # NoEvent /\ passes' = passes /\ boundary' = boundary
        BY <1>1, <1>2, <1>7, <2>2, <3>2 DEF b
      <4>2. CASE KeptFromPreload(k)
        BY <1>2, <4>1, <4>2 DEF KeptFromPreload, FindTransfersForPreload, Transfers
      <4>3. CASE ~KeptFromPreload(k)
        <5>1. PICK t \in Transfers(plan) : WaitLabel(t) = k /\ t \in boundary.entered + 1 .. layer
          BY <4>1, <4>3 DEF HandlesInv, HandlesOfThisSession
        <5>2. t \in boundary'.entered + 1 .. l
          BY <1>1, <1>2, <1>5, <4>1, <5>1
        <5>3. QED
          BY <5>1, <5>2
      <4>4. QED
        BY <4>2, <4>3
    <3>3. QED
      BY <3>1, <3>2
  <2>3. QED
    BY <1>4, <2>1, <2>2
<1>8. HandlesOfThisSession'
  BY <1>2, <1>3, <1>6, <1>7 DEF HandlesOfThisSession, WaitLabel, Transfers
<1>9. QED
  BY <1>1, <1>2, <1>3, <1>4, <1>5, <1>8 DEF HandlesInv

LEMMA ExitHandles ==
  ASSUME HandlesInv, TypeInv', Exit
  PROVE  HandlesInv'
<1> DEFINE r == Recorded(ld, layer)
<1>1. /\ ld \in LoaderType /\ layer \in Layers /\ layer \in Nat /\ boundary \in Sessions
  BY DEF HandlesInv, TypeInv, TypeOK, StageShape, InPass, Exit, Layers, Sessions
<1>2. /\ stage \in {"entered", "launched"} /\ stage' = "outside" /\ plan' = plan
      /\ reordered' = reordered /\ boundary' = boundary /\ passes' = passes /\ breaks' = breaks
      /\ layer' = IF layer = NLayers THEN 0 ELSE layer
      /\ ld' = IF layer = NLayers THEN JoinAndClear(r) ELSE r
  BY DEF Exit, ExitLayer, Recorded
<1>3. /\ r \in LoaderType /\ r.sched = ld.sched /\ r.pending = ld.pending
      /\ \A k \in Layers \ {layer} : r.computeEv[k] = ld.computeEv[k]
  <2> DEFINE n == Len((IF reordered THEN ld ELSE AwaitTransfer(ld, layer)).c)
  <2>1. /\ r \in LoaderType /\ r.sched = ld.sched /\ r.pending = ld.pending
        /\ r.computeEv = [ld.computeEv EXCEPT ![layer] = n]
    BY <1>1, RecordedFacts
  <2> HIDE DEF n, r
  <2>2. ld.computeEv \in [Layers -> Event]
    BY <1>1 DEF LoaderType
  <2>3. QED
    BY <2>1, <2>2
<1> HIDE DEF r
<1>4. CASE layer = NLayers
  <2>1. ld'.sched = NoEvents /\ layer' = 0
    BY <1>2, <1>3, <1>4, JoinAndClearFacts
  <2>2. QED
    BY <1>2, <2>1 DEF HandlesInv, HandlesOfThisSession, InPass
<1>5. CASE layer # NLayers
  <2>1. ld' = r /\ layer' = layer /\ layer # 0
    BY <1>1, <1>2, <1>5 DEF Layers
  <2>2. LayersLeft = layer - 1 /\ LayersLeft' = layer
    BY <1>2, <2>1 DEF LayersLeft
  <2>3. boundary.left \in Nat /\ boundary.left <= layer - 1 /\ boundary.entered <= layer
    BY <1>1, <2>1, <2>2 DEF HandlesInv, InPass, Sessions, Layers
  <2>4. ASSUME NEW k \in Layers, r.computeEv[k] # NoEvent
        PROVE  k \in boundary.left + 1 .. layer
    <3>1. CASE k = layer
      BY <1>1, <2>3, <3>1
    <3>2. CASE k # layer
      <4>1. k \in boundary.left + 1 .. layer - 1
        BY <1>3, <2>1, <2>2, <2>4, <3>2 DEF HandlesInv, HandlesOfThisSession
      <4>2. QED
        BY <1>1, <2>3, <4>1
    <3>3. QED
      BY <3>1, <3>2
  <2>5. HandlesOfThisSession'
    BY <1>2, <1>3, <2>1, <2>2, <2>4
       DEF HandlesInv, HandlesOfThisSession, KeptFromPreload, FindTransfersForPreload, WaitLabel, Transfers
  <2>6. ld'.pending \/ ld'.sched = NoEvents
    BY <1>3, <2>1 DEF HandlesInv, OnlyPreloaded
  <2>7. QED
    BY <1>1, <1>2, <2>1, <2>2, <2>3, <2>5, <2>6 DEF HandlesInv
<1>6. QED
  BY <1>4, <1>5

LEMMA PreloadDoneHandles ==
  ASSUME HandlesInv, TypeInv', PreloadDone
  PROVE  HandlesInv'
<1> DEFINE evs == [l \in Layers |->
                     IF reordered /\ \E t \in FindTransfersForPreload(plan) : plan.t2c[t] = l
                       THEN Len(ld.t) ELSE NoEvent]
<1>1. /\ layer = 0 /\ layer' = 0 /\ passes' = 0 /\ breaks' = 0 /\ stage' = "outside"
      /\ plan' = plan /\ reordered' = reordered
  BY DEF PreloadDone, HandlesInv, TypeInv, StageShape, InPass
<1>2. ld'.sched = evs
  <2>1. JoinTransfer(ld) \in LoaderType
    BY JoinTransferFacts DEF HandlesInv, TypeInv, TypeOK
  <2>2. QED
    BY <2>1 DEF PreloadDone, LoaderType
<1>3. OnlyPreloaded'
  BY <1>1, <1>2 DEF OnlyPreloaded, FindTransfersForPreload, Transfers
<1>4. QED
  BY <1>1, <1>3 DEF HandlesInv, HandlesOfThisSession, InPass

LEMMA HandlesStep == HandlesInv /\ [Next]_vars => HandlesInv'
<1> SUFFICES ASSUME HandlesInv, [Next]_vars PROVE HandlesInv'
  OBVIOUS
<1>0. /\ TypeInv /\ TypeInv' /\ StageShape /\ ld \in LoaderType /\ layer \in Nat
  BY TypeStep DEF HandlesInv, TypeInv, TypeOK, Layers
<1>1. ASSUME NEW t \in Layers, PreloadCopy(t) PROVE HandlesInv'
  <2>1. ld'.sched = ld.sched /\ ld'.pending = ld.pending
    <3>1. t \in Nat
      BY DEF Layers
    <3>2. QED
      BY <1>0, <1>1, <3>1, OnTransferFacts DEF PreloadCopy, SameMaps
  <2>2. layer = 0 /\ UNCHANGED <<plan, reordered, stage, layer, passes, breaks>>
    BY <1>0, <1>1 DEF PreloadCopy, StageShape, InPass
  <2>3. QED
    BY <1>0, <2>1, <2>2
       DEF HandlesInv, HandlesOfThisSession, OnlyPreloaded, InPass, FindTransfersForPreload, Transfers
<1>2. ASSUME PreloadDone PROVE HandlesInv'
  BY <1>0, <1>2, PreloadDoneHandles
<1>3. ASSUME NEW l \in Layers, Enter(l) PROVE HandlesInv'
  BY <1>0, <1>3, EnterHandles
<1>4. ASSUME Exit PROVE HandlesInv'
  BY <1>0, <1>4, ExitHandles
<1>5. ASSUME ld'.sched = ld.sched, ld'.computeEv = ld.computeEv, ld'.pending = ld.pending,
             LayersLeft' = LayersLeft,
             stage # "preload", stage' # "preload",
             UNCHANGED <<plan, reordered, layer, passes, breaks, boundary>>
      PROVE  HandlesInv'
  <2>1. HandlesOfThisSession'
    BY <1>5 DEF HandlesInv, HandlesOfThisSession, KeptFromPreload, FindTransfersForPreload,
                WaitLabel, Transfers
  <2>2. OnlyPreloaded => OnlyPreloaded'
    BY <1>5 DEF OnlyPreloaded, FindTransfersForPreload, Transfers
  <2>3. QED
    BY <1>0, <1>5, <2>1, <2>2 DEF HandlesInv, InPass
<1>6. ASSUME Launch PROVE HandlesInv'
  <2>1. SameMaps(ld, ld')
    BY <1>0, <1>6, OnComputeFacts DEF Launch
  <2>2. LayersLeft' = LayersLeft
    BY <1>6 DEF Launch, LayersLeft
  <2>3. QED
    BY <1>5, <1>6, <2>1, <2>2 DEF Launch, SameMaps
<1>7. ASSUME SyncPrevOnload PROVE HandlesInv'
  <2>1. SameMaps(ld, ld')
    BY <1>0, <1>7, JoinTransferFacts DEF SyncPrevOnload
  <2>2. LayersLeft' = LayersLeft
    BY <1>7 DEF SyncPrevOnload, LayersLeft
  <2>3. QED
    BY <1>5, <1>7, <2>1, <2>2 DEF SyncPrevOnload, SameMaps
<1>8. ASSUME Abort PROVE HandlesInv'
  <2>1. /\ layer # 0 /\ layer' = 0 /\ stage' = "outside" /\ ld' = ld
    BY <1>8 DEF Abort
  <2>2. ld'.pending \/ ld'.sched = NoEvents
    BY <2>1 DEF HandlesInv, OnlyPreloaded
  <2>3. QED
    BY <1>0, <2>1, <2>2 DEF HandlesInv, HandlesOfThisSession, InPass
<1>9. ASSUME JoinAfterForward PROVE HandlesInv'
  <2>1. /\ stage \in {"outside", "entered", "launched"} /\ ld' = JoinAndClear(ld)
        /\ stage' \in {"outside", "entered", "launched"}
        /\ boundary' = Here(ld')
        /\ layer' = 0 \/ (layer' = layer /\ stage' = stage)
    BY <1>9 DEF JoinAfterForward
  <2>2. ld'.sched = NoEvents /\ ld'.computeEv = NoEvents
    BY <1>0, <2>1, JoinAndClearFacts
  <2>3. boundary'.entered = layer /\ boundary'.left = LayersLeft
    BY <2>1 DEF Here
  <2>4. HandlesOfThisSession'
    BY <2>2 DEF HandlesOfThisSession, NoEvents
  <2>5. InPass' => boundary'.entered <= layer' /\ boundary'.left <= LayersLeft'
    BY <1>0, <2>1, <2>3 DEF InPass, LayersLeft
  <2>6. QED
    BY <1>0, <2>1, <2>2, <2>4, <2>5 DEF HandlesInv
<1>10. ASSUME Shutdown PROVE HandlesInv'
  <2>1. /\ layer = 0 /\ layer' = 0 /\ stage' = "closed"
        /\ UNCHANGED <<plan, reordered, ld, passes, breaks>>
    BY <1>10 DEF Shutdown
  <2>2. OnlyPreloaded => OnlyPreloaded'
    BY <2>1 DEF OnlyPreloaded, FindTransfersForPreload, Transfers
  <2>3. QED
    BY <1>0, <2>1, <2>2 DEF HandlesInv, HandlesOfThisSession, InPass
<1>11. ASSUME UNCHANGED hostVars PROVE HandlesInv'
  BY <1>0, <1>11 DEF hostVars, HandlesInv, HandlesOfThisSession, OnlyPreloaded, InPass, LayersLeft,
                     KeptFromPreload, FindTransfersForPreload, WaitLabel, Transfers
<1>12. QED
  BY <1>1, <1>2, <1>3, <1>4, <1>6, <1>7, <1>8, <1>9, <1>10, <1>11
     DEF Next, HostStep, ComputeStep, TransferStep, vars

(* A layer's compute event is in the maps only if the layer was left in this
   forward or piece, the event of a copy only if the copy was issued in it, so
   no capture waits for an event of an earlier session.  Only the first forward
   of the Reordered loader keeps others, those preload() recorded for it. *)
THEOREM HandlesAreCurrent == Spec => []HandlesOfThisSession
<1>1. HandlesInv => HandlesOfThisSession
  BY DEF HandlesInv
<1>2. QED
  BY <1>1, HandlesInit, HandlesStep, PTL DEF Spec

-----------------------------------------------------------------------------
(* Strict mode, for forward plans and forwards captured whole. *)

(* Inside a forward, after entering layer L, the policy still expects only the
   waits that are yet to come. *)
PolicyDone(s, L, st) ==
  IF PolicyEnabled
    THEN \A l \in Layers : s.outstanding[l] # 0 =>
           /\ s.sched[l] # NoEvent
           /\ IF reordered THEN l > L ELSE l = L /\ st # "outside"
    ELSE \A l \in Layers : s.outstanding[l] = 0

StrictInv ==
  /\ OrderInv
  /\ plan \in ForwardPlans
  /\ ~PieceJoins /\ InPass => PolicyDone(ld, layer, stage)

(* A forward plan copies ahead of the kernel that reads the copy. *)
LEMMA ForwardLabels ==
  ASSUME plan \in ForwardPlans
  PROVE  /\ plan \in Plans
         /\ \A t \in Transfers(plan) : /\ t \in Layers /\ WaitLabel(t) \in Layers
                                       /\ IF reordered THEN WaitLabel(t) > t ELSE WaitLabel(t) = t
<1>1. plan \in Plans /\ CheckOverlapConstraint(plan) /\ FindTransfersForPreload(plan) = {}
  BY DEF ForwardPlans
<1>2. \A t \in Transfers(plan) : t \in Layers /\ plan.t2c[t] \in Layers
  BY <1>1, PlanFacts
<1>3. \A t \in Transfers(plan) : plan.t2c[t] # t /\ ~(plan.t2c[t] < t)
  BY <1>1 DEF CheckOverlapConstraint, FindTransfersForPreload
<1>4. QED
  BY <1>1, <1>2, <1>3 DEF WaitLabel, Layers

LEMMA AwaitTransferOutstanding ==
  ASSUME NEW s \in LoaderType, NEW l \in Layers,
         ~PolicyEnabled \/ s.sched[l] = NoEvent
  PROVE  AwaitTransfer(s, l).outstanding = s.outstanding
<1>1. CASE s.sched[l] = NoEvent
  BY <1>1 DEF AwaitTransfer
<1>2. CASE s.sched[l] # NoEvent
  <2> DEFINE w == OnCompute(s, "wait", s.sched[l])
  <2>1. s.sched[l] \in Nat
    BY <1>2, AwaitTransferFacts
  <2>2. w \in LoaderType /\ w.outstanding = s.outstanding
    BY <2>1, OnComputeFacts
  <2>3. AwaitTransfer(s, l) = OnWait(w, l) /\ ~PolicyEnabled
    BY <1>2 DEF AwaitTransfer
  <2> HIDE DEF w
  <2>4. QED
    BY <2>2, <2>3, OnWaitOutstanding
<1>3. QED
  BY <1>1, <1>2

(* Waiting for layer l takes it off the policy's list. *)
LEMMA AwaitTransferPolicy ==
  ASSUME NEW s, OrderSound(s), NEW l \in Layers,
         s.outstanding[l] # 0 => s.sched[l] # NoEvent,
         ~PolicyEnabled => s.outstanding[l] = 0
  PROVE  LET r == AwaitTransfer(s, l)
         IN  /\ OrderSound(r) /\ r.sched = s.sched /\ r.outstanding[l] = 0
             /\ \A k \in Layers \ {l} : r.outstanding[k] = s.outstanding[k]
<1>1. s \in LoaderType
  BY DEF OrderSound
<1>2. CASE PolicyEnabled /\ s.sched[l] # NoEvent
  BY <1>2, AwaitTransferKeeps
<1>3. CASE ~PolicyEnabled \/ s.sched[l] = NoEvent
  BY <1>1, <1>3, AwaitTransferKeeps, AwaitTransferOutstanding
<1>4. QED
  BY <1>2, <1>3

LEMMA EnterLayerPolicy ==
  ASSUME plan \in ForwardPlans, NEW s, OrderSound(s), NEW l \in Layers,
         l # 1 => PolicyDone(s, l - 1, "outside")
  PROVE  PolicyDone(EnterLayer(s, l), l, "entered")
<1> DEFINE started == IF l = 1 THEN StartPass(s) ELSE s
           forked  == Fork(started)
           ready   == IF reordered THEN AwaitTransfer(forked, l) ELSE forked
           done    == IF l \in Transfers(plan) THEN ScheduleTransfer(ready, l) ELSE ready
<1>1. EnterLayer(s, l) = done
  BY DEF EnterLayer
<1>2. OrderSound(started) /\ (l # 1 => started = s) /\ (l = 1 => started.outstanding = NoLabels)
  BY StartPassSound
<1> HIDE DEF started
<1>3. /\ OrderSound(forked)
      /\ forked.sched = started.sched /\ forked.outstanding = started.outstanding
  BY <1>2, ForkKeeps
<1> HIDE DEF forked
<1>4. OrderSound(forked)
  BY <1>3
<1>5. \A k \in Layers : /\ forked.outstanding[k] # 0 =>
                             /\ PolicyEnabled /\ forked.sched[k] # NoEvent
                             /\ reordered /\ k >= l
  <2>1. CASE l = 1
    BY <1>2, <1>3, <2>1 DEF NoLabels
  <2>2. CASE l # 1
    <3>1. forked.outstanding = s.outstanding /\ forked.sched = s.sched
      BY <1>2, <1>3, <2>2
    <3>2. QED
      BY <2>2, <3>1 DEF PolicyDone, Layers
  <2>3. QED
    BY <2>1, <2>2
<1>6. /\ OrderSound(ready) /\ ready.sched = forked.sched
      /\ \A k \in Layers : ready.outstanding[k] # 0 =>
           /\ PolicyEnabled /\ ready.sched[k] # NoEvent
           /\ reordered /\ k > l
  <2>1. CASE reordered
    <3>1. /\ OrderSound(ready) /\ ready.sched = forked.sched /\ ready.outstanding[l] = 0
          /\ \A k \in Layers \ {l} : ready.outstanding[k] = forked.outstanding[k]
      BY <1>4, <1>5, <2>1, AwaitTransferPolicy
    <3> HIDE DEF ready
    <3>2. QED
      BY <1>5, <3>1 DEF Layers
  <2>2. CASE ~reordered
    BY <1>4, <1>5, <2>2
  <2>3. QED
    BY <2>1, <2>2
<1> HIDE DEF ready
<1>7. CASE l \notin Transfers(plan)
  BY <1>1, <1>6, <1>7 DEF PolicyDone
<1>8. CASE l \in Transfers(plan)
  <2> DEFINE w == WaitLabel(l)
  <2>1. /\ done.sched = [ready.sched EXCEPT ![w] = Len(done.t)]
        /\ PolicyEnabled => done.outstanding = [ready.outstanding EXCEPT ![w] = l]
        /\ ~PolicyEnabled => done.outstanding = ready.outstanding
        /\ done \in LoaderType
    BY <1>6, <1>8, ForwardLabels, ScheduleTransferFacts, ScheduleTransferOutstanding DEF OrderSound
  <2>2. w \in Layers /\ IF reordered THEN w > l ELSE w = l
    BY <1>8, ForwardLabels
  <2>3. Len(done.t) \in Nat /\ ready \in LoaderType
    BY <1>6, <2>1, StreamFacts DEF OrderSound
  <2> HIDE DEF w, done
  <2>4. /\ done.sched[w] # NoEvent
        /\ \A k \in Layers \ {w} : /\ done.sched[k] = ready.sched[k]
                                   /\ done.outstanding[k] = ready.outstanding[k]
    BY <2>1, <2>2, <2>3 DEF LoaderType, NoEvent
  <2>5. ~PolicyEnabled => \A k \in Layers : done.outstanding[k] = 0
    BY <1>6, <2>1
  <2>6. PolicyDone(done, l, "entered")
    BY <1>6, <2>2, <2>4, <2>5 DEF PolicyDone
  <2>7. QED
    BY <1>1, <2>6
<1>9. QED
  BY <1>7, <1>8

LEMMA ExitLayerPolicy ==
  ASSUME NEW s, OrderSound(s), NEW l \in Layers, NEW st, PolicyDone(s, l, st), l # NLayers
  PROVE  PolicyDone(ExitLayer(s, l), l, "outside")
<1> DEFINE waited == IF reordered THEN s ELSE AwaitTransfer(s, l)
           r      == Recorded(s, l)
<1>1. ExitLayer(s, l) = r
  BY DEF ExitLayer, Recorded
<1>2. s \in LoaderType /\ r.outstanding = waited.outstanding /\ r.sched = s.sched
  BY RecordedOutstanding, RecordedFacts DEF OrderSound
<1>3. CASE reordered
  BY <1>1, <1>2, <1>3 DEF PolicyDone
<1>4. CASE ~reordered
  <2>1. /\ waited.outstanding[l] = 0
        /\ \A k \in Layers \ {l} : waited.outstanding[k] = s.outstanding[k]
    BY <1>4, AwaitTransferPolicy DEF PolicyDone
  <2> HIDE DEF waited, r
  <2>2. QED
    BY <1>1, <1>2, <1>4, <2>1 DEF PolicyDone
<1>5. QED
  BY <1>3, <1>4

LEMMA StrictStep == StrictInv /\ [Next]_vars => StrictInv'
<1> SUFFICES ASSUME StrictInv, [Next]_vars PROVE StrictInv'
  OBVIOUS
<1>0. /\ OrderInv /\ OrderInv' /\ TypeInv /\ plan \in ForwardPlans /\ StageShape
      /\ layer \in Layers \cup {0} /\ plan' = plan /\ reordered' = reordered
  <2>1. plan' = plan /\ reordered' = reordered
    BY DEF Next, HostStep, PreloadCopy, PreloadDone, Enter, Launch, Exit, Abort, JoinAfterForward,
           SyncPrevOnload, Shutdown, ComputeStep, TransferStep, vars, hostVars
  <2>2. QED
    BY <2>1, OrderStep DEF StrictInv, OrderInv, TypeInv, TypeOK
<1>1. SUFFICES ASSUME ~PieceJoins, layer' # 0
               PROVE  PolicyDone(ld', layer', stage')
  BY <1>0 DEF StrictInv, InPass, PolicyDone
<1>2. ASSUME NEW l \in Layers, Enter(l) PROVE PolicyDone(ld', layer', stage')
  <2>1. /\ stage = "outside" /\ stage' = "entered" /\ layer' = l /\ l = layer + 1
        /\ ld' = EnterLayer(ld, l)
    BY <1>2 DEF Enter
  <2>2. OrderSound(ld)
    BY <1>0, <2>1 DEF OrderInv
  <2>3. l # 1 => PolicyDone(ld, l - 1, "outside")
    BY <1>0, <1>1, <2>1 DEF StrictInv, InPass, Layers
  <2>4. QED
    BY <1>0, <2>1, <2>2, <2>3, EnterLayerPolicy
<1>3. ASSUME Launch PROVE PolicyDone(ld', layer', stage')
  <2>1. /\ stage = "entered" /\ stage' = "launched" /\ layer' = layer
        /\ ld' = OnCompute(ld, "read", layer) /\ layer \in Layers
    BY <1>0, <1>1, <1>3 DEF Launch
  <2>2. ld'.outstanding = ld.outstanding /\ ld'.sched = ld.sched
    BY <1>0, <2>1, LaunchKeeps DEF OrderInv
  <2>3. PolicyDone(ld, layer, stage)
    BY <1>1, <2>1 DEF StrictInv, InPass
  <2>4. QED
    BY <2>1, <2>2, <2>3 DEF PolicyDone
<1>4. ASSUME Exit PROVE PolicyDone(ld', layer', stage')
  <2>1. /\ stage # "preload" /\ stage' = "outside" /\ layer' = layer /\ layer # NLayers
        /\ ld' = ExitLayer(ld, layer) /\ layer \in Layers
    BY <1>0, <1>1, <1>4 DEF Exit
  <2>2. OrderSound(ld) /\ PolicyDone(ld, layer, stage)
    BY <1>0, <1>1, <2>1 DEF OrderInv, StrictInv, InPass
  <2>3. QED
    BY <2>1, <2>2, ExitLayerPolicy
<1>5. ASSUME UNCHANGED <<ld, layer, stage>> PROVE PolicyDone(ld', layer', stage')
  BY <1>1, <1>5 DEF StrictInv, InPass
<1>6. ASSUME JoinAfterForward PROVE FALSE
  BY <1>1, <1>6 DEF JoinAfterForward
<1>7. QED
  <2>1. ASSUME \E t \in Layers : PreloadCopy(t) PROVE FALSE
    BY <1>0, <1>1, <2>1 DEF PreloadCopy, StageShape, InPass
  <2>2. ASSUME PreloadDone PROVE FALSE
    BY <1>0, <1>1, <2>2 DEF PreloadDone, StageShape, InPass
  <2>3. ASSUME Abort \/ SyncPrevOnload \/ Shutdown PROVE FALSE
    BY <1>1, <2>3 DEF Abort, SyncPrevOnload, Shutdown
  <2>4. QED
    BY <1>2, <1>3, <1>4, <1>5, <1>6, <2>1, <2>2, <2>3
       DEF Next, HostStep, ComputeStep, TransferStep, vars, hostVars

(* With forward plans only, a forward that reaches its last layer with no piece
   join in it has nothing outstanding: on_piece_join(at_last_layer=True) does
   not raise for it.  Not so with a cyclic plan. *)
THEOREM StrictModeIsQuiet ==
  ASSUME BlockPlans \subseteq ForwardPlans
  PROVE  Spec => []StrictModeNeverFalseRaises
<1>1. Init => StrictInv
  <2>1. Init => ~InPass /\ plan \in BlockPlans
    BY DEF Init, InPass
  <2>2. QED
    BY <2>1, OrderInit DEF StrictInv
<1>2. StrictInv => StrictModeNeverFalseRaises
  <2> SUFFICES ASSUME StrictInv, stage \in {"entered", "launched"}, layer = NLayers, ~PieceJoins
               PROVE  Broken(IF reordered THEN ld ELSE AwaitTransfer(ld, NLayers), TRUE) = {}
    BY DEF StrictModeNeverFalseRaises
  <2>1. NLayers \in Layers /\ InPass
    BY NLayersAssumption DEF Layers, InPass
  <2>2. OrderSound(ld) /\ PolicyDone(ld, NLayers, stage)
    BY <2>1 DEF StrictInv, OrderInv
  <2>3. CASE reordered
    <3>1. \A l \in Layers : ld.outstanding[l] = 0
      BY <2>2, <2>3, NLayersAssumption DEF PolicyDone, Layers
    <3>2. QED
      BY <2>3, <3>1 DEF Broken
  <2>4. CASE ~reordered
    <3> DEFINE r == AwaitTransfer(ld, NLayers)
    <3>1. /\ r.outstanding[NLayers] = 0
          /\ \A k \in Layers \ {NLayers} : r.outstanding[k] = ld.outstanding[k]
      BY <2>1, <2>2, AwaitTransferPolicy DEF PolicyDone
    <3>2. \A l \in Layers : r.outstanding[l] = 0
      BY <2>2, <2>4, <3>1 DEF PolicyDone
    <3> HIDE DEF r
    <3>3. Broken(r, TRUE) = {}
      BY <3>2 DEF Broken
    <3>4. QED
      BY <2>4, <3>3 DEF r
  <2>5. QED
    BY <2>3, <2>4
<1>3. QED
  BY <1>1, <1>2, StrictStep, PTL DEF Spec
=============================================================================
