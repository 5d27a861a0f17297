----------------------- MODULE TransferRearrangeProofs -----------------------
(***************************************************************************)
(* For every number of layers and every plan on them: moving the copies of *)
(* rearrange_transfers one by one leaves no two of a block in each other's *)
(* way, so the check at its end does not fail.                             *)
(***************************************************************************)
EXTENDS TransferRearrange, WellFoundedInduction, TLAPS

(* A plan over n layers. *)
PlanOn(p, n) ==
  /\ DOMAIN p.t2c \subseteq 1..n /\ DOMAIN p.block = DOMAIN p.t2c
  /\ \A t \in DOMAIN p.t2c : p.t2c[t] \in 1..n

(* The positions a copy occupies, from its issue at t to its kernel at c. *)
Span(t, c, n) == IF c < t THEN {i \in 1..n : i >= t \/ i <= c} ELSE {i \in 1..n : t <= i /\ i <= c}

(* When the spans of two copies do not meet: at most one of them wraps round. *)
Apart(t, c, u, d) ==
  \/ t < c /\ u < d /\ (d < t \/ c < u)
  \/ t < c /\ d < u /\ d < t /\ c < u
  \/ c < t /\ u < d /\ c < u /\ d < t

LEMMA SpansApart ==
  ASSUME NEW n \in Nat, NEW t \in 1..n, NEW c \in 1..n, NEW u \in 1..n, NEW d \in 1..n, t # c, u # d
  PROVE  Span(t, c, n) \cap Span(u, d, n) = {} <=> Apart(t, c, u, d)
<1>1. ASSUME Apart(t, c, u, d), NEW i \in Span(t, c, n), i \in Span(u, d, n)
      PROVE  FALSE
  BY <1>1 DEF Apart, Span
<1>2. ASSUME ~Apart(t, c, u, d)
      PROVE  \E i \in {t, c, u, d, n} : i \in Span(t, c, n) /\ i \in Span(u, d, n)
  BY <1>2 DEF Apart, Span
<1>3. QED
  BY <1>1, <1>2

(* Within a block no copy is issued at a kernel, and no two spans meet. *)
Sharing(p) ==
  \A t, u \in DOMAIN p.t2c :
    p.block[t] = p.block[u] => p.t2c[u] # t /\ (t # u => Apart(t, p.t2c[t], u, p.t2c[u]))

LEMMA OverlapMeans ==
  ASSUME NEW n \in Nat, NEW p, PlanOn(p, n)
  PROVE  Plan(n)!CheckOverlapConstraint(p) <=> Sharing(p)
<1>1. Plan(n)!CheckOverlapConstraint(p) <=>
        \A t, u \in DOMAIN p.t2c : p.block[t] = p.block[u] =>
          p.t2c[u] # t /\ (t # u => Span(t, p.t2c[t], n) \cap Span(u, p.t2c[u], n) = {})
  BY DEF Plan!CheckOverlapConstraint, Plan!Transfers, Plan!ExecutionRange, Plan!Layers, Span
<1>2. ASSUME \A t \in DOMAIN p.t2c : p.t2c[t] # t
      PROVE  \A t, u \in DOMAIN p.t2c :
               Span(t, p.t2c[t], n) \cap Span(u, p.t2c[u], n) = {} <=> Apart(t, p.t2c[t], u, p.t2c[u])
  BY <1>2, SpansApart DEF PlanOn
<1>3. QED
  BY <1>1, <1>2 DEF Sharing

-----------------------------------------------------------------------------
(* One move *)
LEMMA LeastFails ==
  ASSUME NEW S, S \subseteq Nat, S # {}
  PROVE  \E n \in S : n = 0 \/ (n-1 \in Nat /\ n-1 \notin S)
<1>1. PICK n \in S : \A k \in S : ~(<<k, n>> \in OpToRel(<, Nat))
  BY WFMin, NatLessThanWellFounded
<1>2. \A k \in S : ~(k < n)
  BY <1>1 DEF OpToRel
<1>3. QED
  BY <1>2

LEMMA GreatestBelow ==
  ASSUME NEW n \in Nat, NEW S, S \subseteq 0..n, S # {}
  PROVE  Max(S) \in S /\ \A i \in S : i <= Max(S)
<1> DEFINE T == {k \in 0..n : n-k \in S}
<1>1. T \subseteq Nat /\ T # {}
  <2>1. PICK i \in S : i \in 0..n
    OBVIOUS
  <2>2. \E k \in 0..n : i = n-k
    <3>1. n-i \in 0..n /\ i = n-(n-i)
      BY <2>1
    <3>2. QED
      BY <3>1
  <2>3. \E k \in 0..n : n-k \in S
    BY <2>1, <2>2
  <2>4. QED
    BY <2>3
<1>2. PICK k \in T : \A j \in T : ~(<<j, k>> \in OpToRel(<, Nat))
  <2> HIDE DEF T
  <2>1. QED
    BY <1>1, WFMin, NatLessThanWellFounded
<1>3. \A j \in T : ~(j < k)
  BY <1>1, <1>2 DEF OpToRel
<1>4. \A i \in S : i <= n-k
  <2> TAKE i \in S
  <2>1. i \in 0..n /\ n-i \in 0..n /\ n-(n-i) = i
    OBVIOUS
  <2>2. n-i \in T
    BY <2>1
  <2> HIDE DEF T
  <2>3. ~(n-i < k) /\ k \in Nat
    BY <1>1, <1>2, <1>3, <2>2
  <2>4. QED
    BY <2>1, <2>3
<1>5. k \in 0..n /\ n-k \in S /\ \A i \in S : n-k >= i
  <2>1. k \in 0..n /\ n-k \in S
    BY <1>2
  <2>2. \A i \in S : i \in 0..n
    OBVIOUS
  <2>3. QED
    BY <1>4, <2>1, <2>2
<1> HIDE DEF T
<1>6. QED
  BY <1>5 DEF Max

(* What the block of a copy computed last before the copy. *)
LEMMA PreviousIsLast ==
  ASSUME NEW n \in Nat, NEW p, PlanOn(p, n), NEW t \in DOMAIN p.t2c
  PROVE  LET prev == PreviousCompute(p, t)
         IN  /\ prev \in 0..n /\ prev < t
             /\ \A u \in DOMAIN p.t2c : p.block[u] = p.block[t] /\ p.t2c[u] < t => p.t2c[u] <= prev
             /\ prev # 0 => \E u \in DOMAIN p.t2c : p.block[u] = p.block[t] /\ p.t2c[u] = prev
<1> DEFINE U == {u \in DOMAIN p.t2c : p.block[u] = p.block[t] /\ p.t2c[u] < t}
           S == {0} \cup {p.t2c[u] : u \in U}
<1>1. t \in 1..n /\ \A u \in DOMAIN p.t2c : p.t2c[u] \in 1..n
  BY DEF PlanOn
<1>2. S \subseteq 0..n /\ S # {} /\ \A i \in S : i < t
  BY <1>1
<1>3. PreviousCompute(p, t) = Max(S)
  BY DEF PreviousCompute
<1>4. Max(S) \in S /\ \A i \in S : i <= Max(S)
  <2> HIDE DEF S
  <2>1. QED
    BY <1>2, GreatestBelow
<1>5. \A u \in U : p.t2c[u] \in S
  OBVIOUS
<1>6. \A i \in S : i # 0 => \E u \in U : p.t2c[u] = i
  OBVIOUS
<1> HIDE DEF S
<1>7. QED
  BY <1>2, <1>3, <1>4, <1>5, <1>6

(* A free slot keeps clear of the other copies into the block. *)
LEMMA SlotsAreApart ==
  ASSUME NEW n \in Nat, NEW p, PlanOn(p, n), Sharing(p), NEW gap \in {1, 2},
         NEW t \in DOMAIN p.t2c, NEW slot \in FreeSlots(p, t, n, gap)
  PROVE  /\ slot \in 1..n /\ (slot = t \/ slot \notin DOMAIN p.t2c) /\ slot # p.t2c[t]
         /\ \A u \in DOMAIN p.t2c : u # t /\ p.block[u] = p.block[t] =>
              /\ p.t2c[u] # slot /\ u # p.t2c[t]
              /\ Apart(slot, p.t2c[t], u, p.t2c[u]) /\ Apart(u, p.t2c[u], slot, p.t2c[t])
<1> DEFINE c == p.t2c[t]
           prev == PreviousCompute(p, t)
           lower == prev + gap
           range == IF prev = 0 THEN 1 .. c - 1
                    ELSE IF c < lower THEN (1 .. c - 1) \cup (lower .. n)
                    ELSE lower .. c - 1
<1>1. t \in 1..n /\ c \in 1..n /\ c # t
  BY DEF PlanOn, Sharing
<1>2. /\ prev \in 0..n /\ prev < t
      /\ \A u \in DOMAIN p.t2c : p.block[u] = p.block[t] /\ p.t2c[u] < t => p.t2c[u] <= prev
  BY PreviousIsLast
<1>3. slot = t \/ (slot \in range /\ slot \notin DOMAIN p.t2c)
  BY DEF FreeSlots
<1>4. c < t => c <= prev
  BY <1>2
<1> HIDE DEF prev
<1>5. slot \in 1..n /\ slot # c
  BY <1>1, <1>2, <1>3, <1>4
<1>6. ASSUME NEW u \in DOMAIN p.t2c, u # t, p.block[u] = p.block[t]
      PROVE  p.t2c[u] # slot /\ u # c /\ Apart(slot, c, u, p.t2c[u]) /\ Apart(u, p.t2c[u], slot, c)
  <2> DEFINE d == p.t2c[u]
  <2>1. u \in 1..n /\ d \in 1..n /\ d # u /\ d # t /\ u # c /\ Apart(t, c, u, d)
    BY <1>6 DEF PlanOn, Sharing
  <2>2. d < t => d <= prev
    BY <1>2, <1>6
  <2> HIDE DEF c, d
  <2>3. d # slot /\ Apart(slot, c, u, d)
    <3>1. CASE slot = t
      BY <2>1, <3>1
    <3>2. CASE slot \in range /\ c < t
      BY <1>1, <1>2, <1>4, <2>1, <2>2, <3>2 DEF Apart
    <3>3. CASE slot \in range /\ t < c
      BY <1>1, <1>2, <2>1, <2>2, <3>3 DEF Apart
    <3>4. QED
      BY <1>1, <1>3, <3>1, <3>2, <3>3
  <2>4. Apart(u, d, slot, c)
    BY <1>1, <1>5, <2>1, <2>3 DEF Apart
  <2>5. QED
    BY <2>1, <2>3, <2>4 DEF c, d
<1>7. QED
  BY <1>3, <1>5, <1>6

LEMMA MovedFacts ==
  ASSUME NEW p, DOMAIN p.block = DOMAIN p.t2c, NEW t \in DOMAIN p.t2c, NEW slot,
         slot = t \/ slot \notin DOMAIN p.t2c
  PROVE  LET q == Moved(p, t, slot)
         IN  /\ DOMAIN q.t2c = (DOMAIN p.t2c \ {t}) \cup {slot} /\ DOMAIN q.block = DOMAIN q.t2c
             /\ q.t2c[slot] = p.t2c[t] /\ q.block[slot] = p.block[t]
             /\ \A u \in DOMAIN p.t2c \ {t} : q.t2c[u] = p.t2c[u] /\ q.block[u] = p.block[u]
  BY DEF Moved

LEMMA MovedShares ==
  ASSUME NEW n \in Nat, NEW p, PlanOn(p, n), Sharing(p), NEW gap \in {1, 2},
         NEW t \in DOMAIN p.t2c, NEW slot \in FreeSlots(p, t, n, gap)
  PROVE  PlanOn(Moved(p, t, slot), n) /\ Sharing(Moved(p, t, slot))
<1> DEFINE q == Moved(p, t, slot)
<1>1. /\ slot \in 1..n /\ (slot = t \/ slot \notin DOMAIN p.t2c) /\ slot # p.t2c[t]
      /\ \A u \in DOMAIN p.t2c : u # t /\ p.block[u] = p.block[t] =>
           /\ p.t2c[u] # slot /\ u # p.t2c[t]
           /\ Apart(slot, p.t2c[t], u, p.t2c[u]) /\ Apart(u, p.t2c[u], slot, p.t2c[t])
  BY SlotsAreApart
<1>2. /\ DOMAIN q.t2c = (DOMAIN p.t2c \ {t}) \cup {slot} /\ DOMAIN q.block = DOMAIN q.t2c
      /\ q.t2c[slot] = p.t2c[t] /\ q.block[slot] = p.block[t]
      /\ \A u \in DOMAIN p.t2c \ {t} : q.t2c[u] = p.t2c[u] /\ q.block[u] = p.block[u]
  BY <1>1, MovedFacts DEF PlanOn
<1> HIDE DEF q
<1>3. PlanOn(q, n)
  BY <1>1, <1>2 DEF PlanOn
<1>4. ASSUME NEW u \in DOMAIN q.t2c, NEW v \in DOMAIN q.t2c, q.block[u] = q.block[v]
      PROVE  q.t2c[v] # u /\ (u # v => Apart(u, q.t2c[u], v, q.t2c[v]))
  <2>1. CASE u = slot /\ v = slot
    BY <1>1, <1>2, <2>1
  <2>2. CASE u = slot /\ v # slot
    BY <1>1, <1>2, <1>4, <2>2
  <2>3. CASE u # slot /\ v = slot
    BY <1>1, <1>2, <1>4, <2>3
  <2>4. CASE u # slot /\ v # slot
    BY <1>2, <1>4, <2>4 DEF Sharing
  <2>5. QED
    BY <2>1, <2>2, <2>3, <2>4
<1>5. QED
  BY <1>3, <1>4 DEF Sharing, q

LEMMA DistanceTyped ==
  ASSUME NEW n \in Nat, NEW c \in 1..n, NEW slot \in 1..n
  PROVE  Distance(slot, c, n) \in 0..n
  BY DEF Distance

LEMMA FarthestFacts ==
  ASSUME NEW n \in Nat, NEW c \in 1..n, NEW slots, slots \subseteq 1..n, slots # {}
  PROVE  /\ Farthest(slots, c, n) \in slots
         /\ \A y \in slots : Distance(y, c, n) <= Distance(Farthest(slots, c, n), c, n)
<1> DEFINE S == {Distance(x, c, n) : x \in slots}
<1>1. S \subseteq 0..n /\ S # {}
  BY DistanceTyped
<1>2. \A y \in slots : Distance(y, c, n) \in S
  OBVIOUS
<1>3. Max(S) \in S /\ \A i \in S : i <= Max(S)
  <2> HIDE DEF S
  <2>1. QED
    BY <1>1, GreatestBelow
<1>4. PICK x \in slots : Distance(x, c, n) = Max(S)
  BY <1>3
<1>5. \A y \in slots : Distance(y, c, n) <= Distance(x, c, n)
  BY <1>2, <1>3, <1>4
<1> HIDE DEF S
<1>6. QED
  BY <1>5 DEF Farthest

-----------------------------------------------------------------------------
(* All the moves *)

LEMMA MovesRun ==
  ASSUME NEW p, NEW order, Len(order) \in Nat, NEW n, NEW gap
  PROVE  Moves(p, order, n, gap) =
           [k \in 0..Len(order) |->
              IF k = 0 THEN [plan |-> p, remap |-> [t \in DOMAIN p.t2c |-> t]]
              ELSE Move(Moves(p, order, n, gap)[k-1], order[k], n, gap)]
<1> DEFINE first == [plan |-> p, remap |-> [t \in DOMAIN p.t2c |-> t]]
           Upto(f, m) == f = [k \in 0..m |-> IF k = 0 THEN first ELSE Move(f[k-1], order[k], n, gap)]
           Missing == {m \in Nat : ~\E f : Upto(f, m)}
<1> HIDE DEF first
<1>1. Missing = {}
  <2> SUFFICES ASSUME Missing # {}
               PROVE  FALSE
    OBVIOUS
  <2>1. PICK m \in Missing : m = 0 \/ (m-1 \in Nat /\ m-1 \notin Missing)
    <3>1. Missing \subseteq Nat
      OBVIOUS
    <3> HIDE DEF Missing
    <3>2. QED
      BY <3>1, LeastFails
  <2>2. CASE m = 0
    <3>1. Upto([k \in 0..0 |-> first], 0)
      OBVIOUS
    <3>2. QED
      BY <2>2, <3>1
  <2>3. CASE m-1 \in Nat /\ m-1 \notin Missing
    <3>1. PICK f : Upto(f, m-1)
      BY <2>3
    <3> DEFINE g == [k \in 0..m |-> IF k = m THEN Move(f[m-1], order[m], n, gap) ELSE f[k]]
    <3>2. m \in Nat /\ m # 0
      BY <2>3
    <3>3. \A k \in 0..m : g[k] = IF k = 0 THEN first ELSE Move(g[k-1], order[k], n, gap)
      <4> TAKE k \in 0..m
      <4>1. CASE k = m
        BY <3>2, <4>1
      <4>2. CASE k # m
        <5>1. k \in 0..m-1 /\ g[k] = f[k]
          BY <3>2, <4>2
        <5>2. f[k] = IF k = 0 THEN first ELSE Move(f[k-1], order[k], n, gap)
          BY <3>1, <5>1
        <5>3. k # 0 => g[k-1] = f[k-1]
          BY <3>2, <5>1
        <5>4. QED
          BY <5>1, <5>2, <5>3
      <4>3. QED
        BY <4>1, <4>2
    <3>4. Upto(g, m)
      BY <3>3
    <3> HIDE DEF g, Upto
    <3>5. QED
      BY <3>4
  <2>4. QED
    BY <2>1, <2>2, <2>3
<1>2. \E f : Upto(f, Len(order))
  BY <1>1
<1>3. QED
  BY <1>2 DEF Moves, first

(* Where the copies of p are, the first k of the order moved. *)
Rearranged(p, s, order, n, k) ==
  /\ PlanOn(s.plan, n) /\ Sharing(s.plan)
  /\ DOMAIN s.remap = DOMAIN p.t2c /\ DOMAIN s.plan.t2c = {s.remap[t] : t \in DOMAIN p.t2c}
  /\ \A t, u \in DOMAIN p.t2c : s.remap[t] = s.remap[u] => t = u
  /\ \A t \in DOMAIN p.t2c :
       /\ s.plan.t2c[s.remap[t]] = p.t2c[t] /\ s.plan.block[s.remap[t]] = p.block[t]
       /\ Distance(t, p.t2c[t], n) <= Distance(s.remap[t], p.t2c[t], n)
  /\ \A j \in k+1..Len(order) : s.remap[order[j]] = order[j]

LEMMA MoveRearranges ==
  ASSUME NEW n \in Nat, NEW p, PlanOn(p, n), NEW gap \in {1, 2}, NEW order \in Seq(DOMAIN p.t2c),
         \A i, j \in DOMAIN order : order[i] = order[j] => i = j,
         NEW k \in 1..Len(order), NEW s, Rearranged(p, s, order, n, k-1)
  PROVE  Rearranged(p, Move(s, order[k], n, gap), order, n, k)
<1> DEFINE t == order[k]
           D == DOMAIN p.t2c
           c == p.t2c[t]
           slots == FreeSlots(s.plan, t, n, gap)
           slot == Farthest(slots, s.plan.t2c[t], n)
           q == Moved(s.plan, t, slot)
           remap == [s.remap EXCEPT ![t] = slot]
<1>1. Len(order) \in Nat /\ DOMAIN order = 1..Len(order) /\ \A j \in 1..Len(order) : order[j] \in D
  OBVIOUS
<1>2. t \in D /\ k \in (k-1)+1..Len(order)
  BY <1>1
<1>3. s.remap[t] = t /\ t \in DOMAIN s.plan.t2c /\ s.plan.t2c[t] = c /\ s.plan.block[t] = p.block[t] /\ c \in 1..n
  BY <1>2 DEF Rearranged, PlanOn
<1>4. PlanOn(s.plan, n) /\ Sharing(s.plan)
  BY DEF Rearranged
<1>5. t \in slots /\ \A x \in slots : x \in 1..n /\ (x = t \/ x \notin DOMAIN s.plan.t2c)
  <2>1. t \in slots
    BY DEF FreeSlots
  <2>2. QED
    BY <1>3, <1>4, <2>1, SlotsAreApart
<1>6. slot \in slots /\ Distance(t, c, n) <= Distance(slot, c, n)
  <2> HIDE DEF slots, t, c
  <2>1. slots \subseteq 1..n /\ slots # {}
    BY <1>5
  <2>2. QED
    BY <1>3, <1>5, <2>1, FarthestFacts
<1>7. PlanOn(q, n) /\ Sharing(q)
  <2> HIDE DEF slot, t
  <2>1. QED
    BY <1>3, <1>4, <1>6, MovedShares
<1>8. slot = t \/ slot \notin DOMAIN s.plan.t2c
  BY <1>5, <1>6
<1>9. /\ DOMAIN q.t2c = (DOMAIN s.plan.t2c \ {t}) \cup {slot}
      /\ q.t2c[slot] = c /\ q.block[slot] = p.block[t]
      /\ \A u \in DOMAIN s.plan.t2c \ {t} : q.t2c[u] = s.plan.t2c[u] /\ q.block[u] = s.plan.block[u]
  <2> HIDE DEF slot, t, q, c
  <2>1. DOMAIN s.plan.block = DOMAIN s.plan.t2c
    BY <1>4 DEF PlanOn
  <2>2. QED
    BY <1>3, <1>8, <2>1, MovedFacts DEF q
<1>10. Move(s, t, n, gap) = [plan |-> q, remap |-> remap]
  BY DEF Move, MoveTo
<1>11. /\ DOMAIN s.remap = D /\ DOMAIN s.plan.t2c = {s.remap[x] : x \in D}
       /\ \A x, y \in D : s.remap[x] = s.remap[y] => x = y
       /\ \A x \in D : /\ s.plan.t2c[s.remap[x]] = p.t2c[x] /\ s.plan.block[s.remap[x]] = p.block[x]
                       /\ Distance(x, p.t2c[x], n) <= Distance(s.remap[x], p.t2c[x], n)
       /\ \A j \in k..Len(order) : s.remap[order[j]] = order[j]
  BY DEF Rearranged
<1> HIDE DEF slot, slots, q, D
<1>12. /\ DOMAIN remap = D /\ remap[t] = slot
       /\ \A x \in D : x # t => remap[x] = s.remap[x] /\ s.remap[x] \in DOMAIN s.plan.t2c \ {t}
  BY <1>2, <1>3, <1>11
<1> HIDE DEF remap
<1>13. \A x, y \in D : remap[x] = remap[y] => x = y
  BY <1>8, <1>11, <1>12
<1>14. DOMAIN q.t2c = {remap[x] : x \in D}
  <2>1. \A y \in DOMAIN s.plan.t2c \ {t} : \E x \in D : x # t /\ remap[x] = y
    BY <1>3, <1>11, <1>12
  <2>2. QED
    BY <1>2, <1>9, <1>12, <2>1
<1>15. \A x \in D : /\ q.t2c[remap[x]] = p.t2c[x] /\ q.block[remap[x]] = p.block[x]
                    /\ Distance(x, p.t2c[x], n) <= Distance(remap[x], p.t2c[x], n)
  BY <1>6, <1>9, <1>11, <1>12
<1>16. \A j \in k+1..Len(order) : remap[order[j]] = order[j]
  <2> TAKE j \in k+1..Len(order)
  <2>1. j \in k..Len(order) /\ j \in 1..Len(order) /\ j # k
    BY <1>1
  <2>2. order[j] # t /\ order[j] \in D
    BY <1>1, <2>1
  <2>3. QED
    BY <1>11, <1>12, <2>1, <2>2
<1>17. QED
  BY <1>7, <1>10, <1>12, <1>13, <1>14, <1>15, <1>16 DEF Rearranged, D

LEMMA MovesRearrange ==
  ASSUME NEW n \in Nat, NEW p, PlanOn(p, n), Sharing(p), NEW gap \in {1, 2}, NEW order \in Seq(DOMAIN p.t2c),
         \A i, j \in DOMAIN order : order[i] = order[j] => i = j
  PROVE  Rearranged(p, Moves(p, order, n, gap)[Len(order)], order, n, Len(order))
<1> DEFINE m == Moves(p, order, n, gap)
           first == [plan |-> p, remap |-> [t \in DOMAIN p.t2c |-> t]]
           Wrong == {k \in 0..Len(order) : ~Rearranged(p, m[k], order, n, k)}
<1>1. Len(order) \in Nat /\ DOMAIN order = 1..Len(order) /\ \A j \in 1..Len(order) : order[j] \in DOMAIN p.t2c
  OBVIOUS
<1>2. m = [k \in 0..Len(order) |-> IF k = 0 THEN first ELSE Move(m[k-1], order[k], n, gap)]
  BY <1>1, MovesRun
<1>3. Rearranged(p, first, order, n, 0)
  <2>1. \A t \in DOMAIN p.t2c : Distance(t, p.t2c[t], n) <= Distance(t, p.t2c[t], n)
    <3> TAKE t \in DOMAIN p.t2c
    <3>1. Distance(t, p.t2c[t], n) \in 0..n
      BY DistanceTyped DEF PlanOn
    <3>2. QED
      BY <3>1
  <2>2. first.plan = p /\ DOMAIN first.remap = DOMAIN p.t2c /\ \A t \in DOMAIN p.t2c : first.remap[t] = t
    OBVIOUS
  <2> HIDE DEF first
  <2>3. DOMAIN p.t2c = {first.remap[t] : t \in DOMAIN p.t2c}
    BY <2>2
  <2>4. \A j \in 0+1..Len(order) : first.remap[order[j]] = order[j]
    BY <1>1, <2>2
  <2>5. QED
    BY <2>1, <2>2, <2>3, <2>4 DEF Rearranged
<1> HIDE DEF m, first
<1>4. Wrong = {}
  <2> SUFFICES ASSUME Wrong # {}
               PROVE  FALSE
    OBVIOUS
  <2>1. PICK k \in Wrong : k = 0 \/ (k-1 \in Nat /\ k-1 \notin Wrong)
    <3>1. Wrong \subseteq Nat
      OBVIOUS
    <3> HIDE DEF Wrong
    <3>2. QED
      BY <3>1, LeastFails
  <2>2. k \in 0..Len(order) /\ ~Rearranged(p, m[k], order, n, k)
    OBVIOUS
  <2>3. CASE k = 0
    <3>1. m[0] = first
      BY <1>1, <1>2
    <3>2. QED
      BY <1>3, <2>2, <2>3, <3>1
  <2>4. CASE k # 0
    <3>1. k \in 1..Len(order) /\ k-1 \in 0..Len(order)
      BY <1>1, <2>2, <2>4
    <3>2. Rearranged(p, m[k-1], order, n, k-1)
      BY <2>1, <2>4, <3>1
    <3>3. m[k] = Move(m[k-1], order[k], n, gap)
      BY <1>2, <2>2, <2>4
    <3>4. QED
      BY <2>2, <3>1, <3>2, <3>3, MoveRearranges
  <2>5. QED
    BY <2>3, <2>4
<1>5. Len(order) \in 0..Len(order) /\ Len(order) \notin Wrong
  BY <1>1, <1>4
<1>6. QED
  BY <1>5 DEF m

(* rearrange_transfers turns no plan down whose blocks are not overwritten, the
   cyclic ones included, as long as the gap it keeps to the block's last kernel
   is one layer (the default) or two; whatever order it takes the copies in,
   each is still for its layer and into its block, two never come to the same
   position, and none has less time than it had. *)
THEOREM RearrangingKeeps ==
  ASSUME NEW n \in Nat, NEW p, PlanOn(p, n), Plan(n)!CheckOverlapConstraint(p), NEW gap \in {1, 2},
         NEW order \in Seq(DOMAIN p.t2c), \A i, j \in DOMAIN order : order[i] = order[j] => i = j
  PROVE  LET r == RearrangeTransfers(p, order, n, gap)
         IN  /\ r.err = "none"
             /\ DOMAIN r.plan.t2c = {r.remap[t] : t \in DOMAIN p.t2c}
             /\ \A t, u \in DOMAIN p.t2c : r.remap[t] = r.remap[u] => t = u
             /\ \A t \in DOMAIN p.t2c :
                  /\ r.plan.t2c[r.remap[t]] = p.t2c[t] /\ r.plan.block[r.remap[t]] = p.block[t]
                  /\ Distance(t, p.t2c[t], n) <= Distance(r.remap[t], p.t2c[t], n)
<1> DEFINE s == Moves(p, order, n, gap)[Len(order)]
<1>1. Sharing(p)
  BY OverlapMeans
<1>2. Rearranged(p, s, order, n, Len(order))
  BY <1>1, MovesRearrange
<1> HIDE DEF s
<1>3. Plan(n)!CheckOverlapConstraint(s.plan)
  BY <1>2, OverlapMeans DEF Rearranged
<1>4. RearrangeTransfers(p, order, n, gap) = [err |-> "none", plan |-> s.plan, remap |-> s.remap]
  BY <1>3 DEF RearrangeTransfers, Checked, s
<1>5. QED
  BY <1>2, <1>4 DEF Rearranged
=============================================================================
