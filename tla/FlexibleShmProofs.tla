-------------------------- MODULE FlexibleShmProofs --------------------------
(***************************************************************************)
(* For every set of processes and any number of deaths and late            *)
(* heartbeats: the block stays as long as somebody uses it, the last to    *)
(* leave cleans up, and a heartbeat keeps only its own entry fresh.        *)
(***************************************************************************)
EXTENDS FlexibleShm, FiniteSetTheorems, WellFoundedInduction, TLAPS

(* Where a process holds the main lock. *)
HoldingPlaces ==
  {"tryBlock", "tryDict", "tryCond", "tryUnlock",
   "makeBlock", "makeDict", "makeCond", "makeUnlock",
   "stopping", "counting", "leaving", "unlinking", "unlinkBlock", "closeLock"}

(* Where it has an entry in a dictionary, and a thread that beats. *)
EntryPlaces ==
  {"tryCond", "makeCond", "tryUnlock", "makeUnlock", "tryValidate", "makeValidate", "refused",
   "heading", "providing", "serving", "waiting", "using", "closing", "stopping"}

(* Where it has a block open that is still the one of the name. *)
BlockPlaces == EntryPlaces \cup {"tryDict", "makeDict", "counting"}

(* Where it will see to it that the names go, or leave that to others. *)
KeepingPlaces == BlockPlaces \cup {"unlinking", "unlinkBlock"}

(* The dictionaries the code can build. *)
Dicts ==
  {d \in [slot : UNION {[D -> Nat \ {0}] : D \in SUBSET Procs}, stale : SUBSET Nat] :
     /\ IsFiniteSet(DOMAIN d.slot)
     /\ IsInjective(d.slot)
     /\ d.stale \subseteq Range(d.slot)}

(* What is open where. *)
HandleInv ==
  \A p \in Procs :
    /\ pc[p] \in {"out", "missing", "closed", "failed"} => hnd[p] = None
    /\ Inside(p) => hnd[p].lock # 0
    /\ pc[p] \in BlockPlaces => hnd[p].block # 0
    /\ pc[p] \in EntryPlaces \cup {"counting"} => hnd[p].dict # 0
    /\ Inside(p) => (hnd[p].slot # 0 <=> pc[p] \in EntryPlaces)

(* A process that nobody took for dead finds its entry as it made it. *)
OwnSlotInv ==
  \A p \in Procs \ mistaken :
    Beats(p) => /\ p \in DOMAIN Of(p, "dict").slot
                /\ Of(p, "dict").slot[p] = hnd[p].slot

HolderInv == \A p \in Procs : pc[p] \in HoldingPlaces => Of(p, "lock") = p

(* All hold the lock by the one file. *)
SameLockInv == ~split => \A p \in Procs : Inside(p) => hnd[p].lock = names.lock

(* All share one block and one dictionary, until there is nobody. *)
SharedInv ==
  ~Disturbed =>
    /\ \A p \in Procs : pc[p] \in BlockPlaces => hnd[p].block = names.block
    /\ \A p \in Procs : pc[p] \in EntryPlaces \cup {"counting"} => hnd[p].dict = names.dict
    /\ \A p, q \in Procs : pc[p] \in {"unlinking", "unlinkBlock"} => pc[q] \notin EntryPlaces
    /\ \A p \in Procs : pc[p] = "unlinkBlock" => names.dict = 0
    /\ names.dict # 0 => names.block # 0

(* As long as nobody dies or closes without the lock. *)
OrderlyInv ==
  ~unclean =>
    /\ \A p \in Procs : pc[p] # "dead"
    /\ \A d \in 1 .. Len(store.dict) : \A q \in DOMAIN store.dict[d].slot :
         pc[q] \in EntryPlaces /\ hnd[q].dict = d

(* Then there is always somebody who will take away what there is. *)
KeptInv ==
  ~unclean /\ ~Disturbed =>
    /\ names.block # 0 => \E p \in Procs : pc[p] \in KeepingPlaces
    /\ names.block # 0 /\ names.dict = 0
         => \E p \in Procs : pc[p] \in {"makeDict", "unlinkBlock"}
    /\ names.dict # 0 /\ names.cond = 0 => \E p \in Procs : pc[p] = "makeCond"

IInv ==
  /\ TypeOK
  /\ store.dict \in Seq(Dicts)
  /\ HandleInv
  /\ OwnSlotInv
  /\ HolderInv
  /\ SameLockInv
  /\ SharedInv
  /\ OrderlyInv
  /\ KeptInv

-----------------------------------------------------------------------------
(* Dictionaries *)

LEMMA LeastNatural ==
  ASSUME NEW S, S \subseteq Nat, S # {}
  PROVE  \E i \in S : \A j \in S : i <= j
<1>1. PICK i \in S : \A j \in S : ~(<<j, i>> \in OpToRel(<, Nat))
  BY WFMin, NatLessThanWellFounded
<1>2. \A j \in S : j < i => <<j, i>> \in OpToRel(<, Nat)
  BY <1>1 DEF OpToRel
<1>3. \A j \in S : ~(j < i)
  BY <1>1, <1>2
<1>4. QED
  BY <1>3

(* There are more slots than entries: one is free. *)
LEMMA FreeSlotFacts ==
  ASSUME NEW d \in Dicts
  PROVE  FreeSlot(d) \in Nat \ {0} /\ FreeSlot(d) \notin Range(d.slot)
<1> DEFINE n    == Cardinality(DOMAIN d.slot)
           S    == 1 .. n + 1
           free == S \ Range(d.slot)
<1>1. /\ IsFiniteSet(DOMAIN d.slot) /\ d.slot = [q \in DOMAIN d.slot |-> d.slot[q]]
      /\ IsInjective(d.slot)
  BY DEF Dicts
<1>2. n \in Nat
  BY <1>1, FS_CardinalityType
<1>3. IsFiniteSet(S) /\ Cardinality(S) = n + 1
  BY <1>2, FS_Interval
<1>4. free # {}
  <2>1. SUFFICES ASSUME S \subseteq Range(d.slot)
                 PROVE  FALSE
    OBVIOUS
  <2>2. \A i \in S : \E q \in DOMAIN d.slot : d.slot[q] = i
    BY <2>1 DEF Range
  <2> DEFINE g == [i \in S |-> CHOOSE q \in DOMAIN d.slot : d.slot[q] = i]
  <2>3. \A i \in S : g[i] \in DOMAIN d.slot /\ d.slot[g[i]] = i
    BY <2>2
  <2>4. g \in [S -> DOMAIN d.slot]
    BY <2>3
  <2>5. n < Cardinality(S)
    BY <1>2, <1>3
  <2> HIDE DEF g, S
  <2>6. \E i, j \in S : i # j /\ g[i] = g[j]
    BY <1>1, <1>3, <2>4, <2>5, FS_PigeonHole
  <2>7. QED
    BY <2>3, <2>6
<1>5. free \subseteq Nat
  BY <1>2
<1>6. \E i \in free : \A j \in free : i <= j
  BY <1>4, <1>5, LeastNatural
<1>7. FreeSlot(d) \in free
  BY <1>6 DEF FreeSlot
<1>8. QED
  BY <1>2, <1>7

LEMMA DictFacts ==
  ASSUME NEW d \in Dicts
  PROVE  /\ d = [slot |-> d.slot, stale |-> d.stale]
         /\ IsFiniteSet(DOMAIN d.slot) /\ DOMAIN d.slot \subseteq Procs
         /\ \A q \in DOMAIN d.slot : d.slot[q] \in Nat \ {0}
         /\ \A q, r \in DOMAIN d.slot : d.slot[q] = d.slot[r] => q = r
         /\ \A s \in d.stale : \E q \in DOMAIN d.slot : d.slot[q] = s
BY DEF Dicts, IsInjective, Range

LEMMA DictIntro ==
  ASSUME NEW D, D \subseteq Procs, IsFiniteSet(D), NEW f, f = [q \in D |-> f[q]],
         \A q \in D : f[q] \in Nat \ {0},
         \A q, r \in D : f[q] = f[r] => q = r,
         NEW T, \A s \in T : \E q \in D : f[q] = s
  PROVE  [slot |-> f, stale |-> T] \in Dicts
<1>1. f \in [D -> Nat \ {0}] /\ DOMAIN f = D
  OBVIOUS
<1>2. f \in UNION {[E -> Nat \ {0}] : E \in SUBSET Procs}
  BY <1>1
<1>3. IsInjective(f)
  BY <1>1 DEF IsInjective
<1>4. T \subseteq Range(f) /\ T \subseteq Nat
  BY <1>1 DEF Range
<1>5. QED
  BY <1>1, <1>2, <1>3, <1>4 DEF Dicts

LEMMA NewDict == New.dict \in Dicts /\ DOMAIN New.dict.slot = {}
<1> DEFINE f == << >>
           T == {}
<1>1. New.dict = [slot |-> f, stale |-> T] /\ DOMAIN f = {}
  BY DEF New
<1>2. f = [q \in {} |-> f[q]] /\ \A s \in T : \E q \in {} : f[q] = s
  OBVIOUS
<1> HIDE DEF f, T
<1>3. [slot |-> f, stale |-> T] \in Dicts
  BY <1>2, FS_EmptySet, DictIntro
<1>4. QED
  BY <1>1, <1>3

LEMMA PopFacts ==
  ASSUME NEW d \in Dicts, NEW ps
  PROVE  /\ Pop(d, ps) \in Dicts
         /\ DOMAIN Pop(d, ps).slot = DOMAIN d.slot \ ps
         /\ \A q \in DOMAIN d.slot \ ps : Pop(d, ps).slot[q] = d.slot[q]
<1> DEFINE D == DOMAIN d.slot \ ps
           f == [q \in D |-> d.slot[q]]
           T == d.stale \ {d.slot[q] : q \in ps \cap DOMAIN d.slot}
<1>1. Pop(d, ps) = [slot |-> f, stale |-> T]
  BY DEF Pop, Restrict
<1>2. D \subseteq Procs /\ IsFiniteSet(D)
  BY DictFacts, FS_Subset
<1>3. /\ \A q \in D : f[q] \in Nat \ {0}
      /\ \A q, r \in D : f[q] = f[r] => q = r
  BY DictFacts
<1>4. \A s \in T : \E q \in D : f[q] = s
  BY DictFacts
<1>5. [slot |-> f, stale |-> T] \in Dicts
  <2> HIDE DEF D, T
  <2>1. f = [q \in D |-> f[q]]
    OBVIOUS
  <2> HIDE DEF f
  <2>2. QED
    BY <1>2, <1>3, <1>4, <2>1, DictIntro
<1>6. QED
  BY <1>1, <1>5

LEMMA PrepareSlotFacts ==
  ASSUME NEW d \in Dicts, NEW p
  PROVE  /\ PrepareSlot(d, p) \in Nat \ {0}
         /\ p \in DOMAIN d.slot => PrepareSlot(d, p) = d.slot[p]
         /\ \A q \in DOMAIN d.slot \ {p} : d.slot[q] # PrepareSlot(d, p)
<1>1. CASE p \in DOMAIN d.slot
  BY <1>1, DictFacts DEF PrepareSlot
<1>2. CASE p \notin DOMAIN d.slot
  BY <1>2, FreeSlotFacts DEF PrepareSlot, Range
<1>3. QED
  BY <1>1, <1>2

LEMMA RegisteredFacts ==
  ASSUME NEW d \in Dicts, NEW p \in Procs
  PROVE  /\ Registered(d, p) \in Dicts
         /\ DOMAIN Registered(d, p).slot = DOMAIN d.slot \cup {p}
         /\ \A q \in DOMAIN d.slot \ {p} : Registered(d, p).slot[q] = d.slot[q]
         /\ Registered(d, p).slot[p] = PrepareSlot(d, p)
<1> DEFINE D == DOMAIN d.slot \cup {p}
           s == PrepareSlot(d, p)
           f == [q \in D |-> IF q = p THEN s ELSE d.slot[q]]
           T == d.stale \ {s}
<1>1. Registered(d, p) = [slot |-> f, stale |-> T]
  BY DEF Registered
<1>2. D \subseteq Procs /\ IsFiniteSet(D)
  BY DictFacts, FS_AddElement
<1> HIDE DEF s
<1>3. /\ s \in Nat \ {0} /\ (p \in DOMAIN d.slot => s = d.slot[p])
      /\ \A q \in DOMAIN d.slot \ {p} : d.slot[q] # s
  BY PrepareSlotFacts DEF s
<1>4. /\ \A q \in D : f[q] \in Nat \ {0}
      /\ \A q, r \in D : f[q] = f[r] => q = r
  BY <1>3, DictFacts
<1>5. \A t \in T : \E q \in D : f[q] = t
  <2>1. SUFFICES ASSUME NEW t \in d.stale, t # s
                 PROVE  \E q \in D : f[q] = t
    OBVIOUS
  <2>2. PICK q \in DOMAIN d.slot : d.slot[q] = t
    BY DictFacts
  <2>3. q # p
    BY <1>3, <2>1, <2>2
  <2>4. QED
    BY <2>2, <2>3
<1>6. [slot |-> f, stale |-> T] \in Dicts
  <2>1. f = [q \in D |-> f[q]]
    OBVIOUS
  <2> HIDE DEF D, T, f
  <2>2. QED
    BY <1>2, <1>4, <1>5, <2>1, DictIntro
<1>7. QED
  BY <1>1, <1>6 DEF s

-----------------------------------------------------------------------------
(* What a step does to the store. *)

LEMMA LockedFacts ==
  ASSUME TypeOK, NEW p, NEW x, Locked(p, x)
  PROVE  /\ DOMAIN store' = Kinds
         /\ store'.lock = [store.lock EXCEPT ![hnd[p].lock] = x]
         /\ store'.block = store.block /\ store'.dict = store.dict /\ store'.cond = store.cond
BY DEF TypeOK, Locked, Kinds

LEMMA UnregisterFacts ==
  ASSUME TypeOK, NEW p, Unregister(p)
  PROVE  /\ DOMAIN store' = Kinds
         /\ store'.dict = [store.dict EXCEPT ![hnd[p].dict] = Pop(store.dict[hnd[p].dict], {p})]
         /\ store'.lock = store.lock /\ store'.block = store.block /\ store'.cond = store.cond
BY DEF TypeOK, Unregister, Kinds

LEMMA OpenFacts ==
  ASSUME TypeOK, NEW p \in Procs, NEW k \in Kinds, OpenOrMake(p, k)
  PROVE  /\ DOMAIN store' = Kinds
         /\ \A j \in Kinds \ {k} : names'[j] = names[j] /\ store'[j] = store[j]
         /\ \A q \in Procs \ {p} : hnd'[q] = hnd[q]
         /\ \A j \in (Kinds \cup {"slot"}) \ {k} : hnd'[p][j] = hnd[p][j]
         /\ hnd'[p][k] = names'[k]
         /\ hnd' = [hnd EXCEPT ![p][k] = names'[k]]
         /\ names' = [names EXCEPT ![k] = names'[k]]
         /\ names[k] # 0 => names'[k] = names[k] /\ store'[k] = store[k]
         /\ names[k] = 0 => names'[k] = Len(store[k]) + 1 /\ store'[k] = Append(store[k], New[k])
BY DEF TypeOK, OpenOrMake

LEMMA LenFacts ==
  ASSUME TypeOK, store.dict \in Seq(Dicts)
  PROVE  \A k \in Kinds : Len(store[k]) \in Nat
BY DEF TypeOK, Kinds

LEMMA SeqSet ==
  ASSUME NEW S, NEW s \in Seq(S), NEW i, NEW x \in S
  PROVE  /\ [s EXCEPT ![i] = x] \in Seq(S)
         /\ Len([s EXCEPT ![i] = x]) = Len(s)
         /\ \A j \in 1 .. Len(s) : [s EXCEPT ![i] = x][j] = IF j = i THEN x ELSE s[j]
<1>1. CASE i \in 1 .. Len(s)
  BY <1>1
<1>2. CASE i \notin 1 .. Len(s)
  <2>1. DOMAIN s = 1 .. Len(s) /\ s = [j \in DOMAIN s |-> s[j]]
    OBVIOUS
  <2>2. [s EXCEPT ![i] = x] = s
    BY <1>2, <2>1
  <2>3. QED
    BY <1>2, <2>2
<1>3. QED
  BY <1>1, <1>2

(* The types of the store's parts, as TypeOK has them, and of a handle. *)
StoreType(s) ==
  /\ DOMAIN s = Kinds
  /\ s.lock \in Seq(Procs \cup {Nobody})
  /\ s.block \in Seq([header : BOOLEAN, notified : BOOLEAN])
  /\ s.dict \in Seq(Dicts)
  /\ s.cond \in Seq(BOOLEAN)

SameLengths(s, t) == \A k \in Kinds : Len(s[k]) = Len(t[k])

HandleType == [Kinds \cup {"slot"} -> Nat]

LEMMA StoreTyped == IInv => StoreType(store)
BY DEF IInv, TypeOK, StoreType

(* TypeOK after a step of p that makes no object. *)
LEMMA TypeKept ==
  ASSUME IInv, NEW p \in Procs,
         pc' \in [Procs -> Places], StoreType(store'), SameLengths(store, store'),
         names' \in [Kinds -> Nat], \A k \in Kinds : names'[k] \in {0, names[k]},
         hnd' \in [Procs -> HandleType],
         \A q \in Procs, k \in Kinds : hnd'[q][k] \in {0, hnd[q][k]},
         UNCHANGED creator, mistaken' \subseteq Procs, faults' \in 0 .. MaxFaults,
         split' \in BOOLEAN, unclean' \in BOOLEAN
  PROVE  TypeOK' /\ store'.dict \in Seq(Dicts)
<1>1. \A i \in 1 .. Len(store'.dict) :
        /\ DOMAIN store'.dict[i].slot \subseteq Procs
        /\ store'.dict[i].stale \subseteq Range(store'.dict[i].slot)
        /\ IsInjective(store'.dict[i].slot)
  BY DictFacts DEF StoreType, Dicts
<1>2. \A k \in Kinds : Len(store[k]) \in Nat
  BY LenFacts DEF IInv
<1>3. \A k \in Kinds : /\ names'[k] <= Len(store'[k])
                       /\ \A q \in Procs : hnd'[q][k] <= Len(store'[k])
  <2>1. SUFFICES ASSUME NEW k \in Kinds, NEW q \in Procs
                 PROVE  names'[k] <= Len(store'[k]) /\ hnd'[q][k] <= Len(store'[k])
    OBVIOUS
  <2>2. /\ Len(store'[k]) = Len(store[k]) /\ Len(store[k]) \in Nat
        /\ names[k] <= Len(store[k]) /\ hnd[q][k] <= Len(store[k])
    BY <1>2 DEF IInv, TypeOK, SameLengths
  <2>3. names'[k] \in {0, names[k]} /\ hnd'[q][k] \in {0, hnd[q][k]}
    OBVIOUS
  <2>4. QED
    BY <2>2, <2>3
<1>4. QED
  BY <1>1, <1>3 DEF IInv, TypeOK, StoreType, HandleType

LEMMA StoreSame ==
  ASSUME IInv, UNCHANGED store
  PROVE  StoreType(store') /\ SameLengths(store, store')
BY StoreTyped DEF SameLengths

LEMMA StoreLocked ==
  ASSUME IInv, NEW p \in Procs, NEW x \in Procs \cup {Nobody}, Locked(p, x)
  PROVE  StoreType(store') /\ SameLengths(store, store')
<1>1. StoreType(store)
  BY StoreTyped
<1>2. /\ DOMAIN store' = Kinds /\ store'.lock = [store.lock EXCEPT ![hnd[p].lock] = x]
      /\ store'.block = store.block /\ store'.dict = store.dict /\ store'.cond = store.cond
  BY LockedFacts DEF IInv
<1>3. store'.lock \in Seq(Procs \cup {Nobody}) /\ Len(store'.lock) = Len(store.lock)
  <2> DEFINE S == Procs \cup {Nobody}
             s == store.lock
             i == hnd[p].lock
  <2>1. s \in Seq(S) /\ x \in S /\ store'.lock = [s EXCEPT ![i] = x]
    BY <1>1, <1>2 DEF StoreType
  <2> HIDE DEF S, s, i
  <2>2. store'.lock \in Seq(S) /\ Len(store'.lock) = Len(s)
    BY <2>1, SeqSet
  <2>3. QED
    BY <2>2 DEF S, s
<1>4. QED
  BY <1>1, <1>2, <1>3 DEF StoreType, SameLengths, Kinds

LEMMA StorePopped ==
  ASSUME IInv, NEW d \in 1 .. Len(store.dict), NEW ps, DOMAIN store' = Kinds,
         store'.dict = [store.dict EXCEPT ![d] = Pop(store.dict[d], ps)],
         store'.lock \in Seq(Procs \cup {Nobody}), Len(store'.lock) = Len(store.lock),
         store'.block = store.block, store'.cond = store.cond
  PROVE  /\ StoreType(store') /\ SameLengths(store, store')
         /\ \A e \in 1 .. Len(store.dict) :
              IF e # d THEN store'.dict[e] = store.dict[e]
              ELSE /\ DOMAIN store'.dict[e].slot = DOMAIN store.dict[e].slot \ ps
                   /\ \A q \in DOMAIN store.dict[e].slot \ ps :
                        store'.dict[e].slot[q] = store.dict[e].slot[q]
<1>1. StoreType(store)
  BY StoreTyped
<1>2. store.dict[d] \in Dicts
  BY <1>1 DEF StoreType
<1>3. /\ Pop(store.dict[d], ps) \in Dicts
      /\ DOMAIN Pop(store.dict[d], ps).slot = DOMAIN store.dict[d].slot \ ps
      /\ \A q \in DOMAIN store.dict[d].slot \ ps :
           Pop(store.dict[d], ps).slot[q] = store.dict[d].slot[q]
  BY <1>2, PopFacts
<1>4. /\ store'.dict \in Seq(Dicts) /\ Len(store'.dict) = Len(store.dict)
      /\ \A e \in 1 .. Len(store.dict) :
           store'.dict[e] = IF e = d THEN Pop(store.dict[d], ps) ELSE store.dict[e]
  <2> DEFINE x == Pop(store.dict[d], ps)
  <2>1. x \in Dicts /\ store.dict \in Seq(Dicts) /\ store'.dict = [store.dict EXCEPT ![d] = x]
    BY <1>1, <1>3 DEF StoreType
  <2> HIDE DEF x
  <2>2. /\ store'.dict \in Seq(Dicts) /\ Len(store'.dict) = Len(store.dict)
        /\ \A e \in 1 .. Len(store.dict) : store'.dict[e] = IF e = d THEN x ELSE store.dict[e]
    BY <2>1, SeqSet
  <2>3. QED
    BY <2>2 DEF x
<1>5. StoreType(store') /\ SameLengths(store, store')
  BY <1>1, <1>4 DEF StoreType, SameLengths, Kinds
<1>6. QED
  BY <1>3, <1>4, <1>5

-----------------------------------------------------------------------------
(* Steps that neither open, close nor unlink anything, nor touch an entry:
   only the lock and the place of p may change, and the place to one alike. *)

Alike(a, b) ==
  \A S \in {EntryPlaces, BlockPlaces, KeepingPlaces, {"counting"}, {"unlinkBlock"},
            {"unlinking", "unlinkBlock"}, {"makeDict", "unlinkBlock"}, {"makeCond"},
            {"out", "missing", "closed", "failed"}, {"dead"}} :
    a \in S <=> b \in S

LEMMA QuietKeeps ==
  ASSUME IInv, NEW p \in Procs, NEW place \in Places, pc' = [pc EXCEPT ![p] = place],
         Alike(pc[p], place), UNCHANGED <<names, hnd, mistaken, split, unclean>>,
         store'.dict = store.dict
  PROVE  (HandleInv /\ OwnSlotInv /\ SameLockInv /\ SharedInv /\ OrderlyInv /\ KeptInv)'
<1>1. \A q \in Procs : /\ pc'[q] \in EntryPlaces <=> pc[q] \in EntryPlaces
                       /\ pc'[q] \in BlockPlaces <=> pc[q] \in BlockPlaces
                       /\ pc'[q] \in KeepingPlaces <=> pc[q] \in KeepingPlaces
                       /\ pc'[q] = "counting" <=> pc[q] = "counting"
                       /\ pc'[q] = "unlinkBlock" <=> pc[q] = "unlinkBlock"
                       /\ pc'[q] \in {"unlinking", "unlinkBlock"}
                            <=> pc[q] \in {"unlinking", "unlinkBlock"}
                       /\ pc'[q] \in {"makeDict", "unlinkBlock"}
                            <=> pc[q] \in {"makeDict", "unlinkBlock"}
                       /\ pc'[q] = "makeCond" <=> pc[q] = "makeCond"
                       /\ pc'[q] = "dead" <=> pc[q] = "dead"
                       /\ pc'[q] \in {"out", "missing", "closed", "failed"}
                            <=> pc[q] \in {"out", "missing", "closed", "failed"}
  BY DEF Alike, IInv, TypeOK
<1>2. \A q \in Procs : (Inside(q)' <=> Inside(q)) /\ (Beats(q)' <=> Beats(q))
  BY <1>1 DEF Inside, Beats
<1>3. (HandleInv /\ SameLockInv)'
  BY <1>1, <1>2 DEF IInv, HandleInv, SameLockInv
<1>4. (OwnSlotInv /\ OrderlyInv)'
  BY <1>1, <1>2 DEF IInv, OwnSlotInv, OrderlyInv, Of
<1>5. (SharedInv /\ KeptInv)'
  BY <1>1 DEF IInv, SharedInv, KeptInv, Disturbed
<1>6. QED
  BY <1>3, <1>4, <1>5

-----------------------------------------------------------------------------
(* The main lock *)

LEMMA Exclusion ==
  ASSUME IInv, ~split, NEW p \in Procs, NEW q \in Procs,
         pc[p] \in HoldingPlaces, pc[q] \in HoldingPlaces
  PROVE  p = q
<1>1. Inside(p) /\ Inside(q)
  BY DEF Inside, HoldingPlaces
<1>2. hnd[p].lock = hnd[q].lock
  BY <1>1 DEF IInv, SameLockInv
<1>3. QED
  BY <1>2 DEF IInv, HolderInv, Of

LEMMA LockIndex ==
  ASSUME IInv, NEW p \in Procs, Inside(p)
  PROVE  hnd[p].lock \in 1 .. Len(store.lock) /\ Len(store.lock) \in Nat
<1>1. hnd[p].lock \in Nat /\ hnd[p].lock # 0
  BY DEF IInv, TypeOK, HandleInv, Kinds
<1>2. hnd[p].lock <= Len(store.lock)
  BY DEF IInv, TypeOK, Kinds
<1>3. QED
  BY <1>1, <1>2 DEF IInv, TypeOK

LEMMA LockedAt ==
  ASSUME IInv, NEW p \in Procs, NEW x \in Procs \cup {Nobody}, Inside(p), Locked(p, x)
  PROVE  \A q \in Procs : Inside(q) =>
           store'.lock[hnd[q].lock] = IF hnd[q].lock = hnd[p].lock THEN x ELSE Of(q, "lock")
<1>1. store'.lock = [store.lock EXCEPT ![hnd[p].lock] = x]
  BY LockedFacts DEF IInv
<1>2. SUFFICES ASSUME NEW q \in Procs, Inside(q)
               PROVE  store'.lock[hnd[q].lock] =
                        IF hnd[q].lock = hnd[p].lock THEN x ELSE Of(q, "lock")
  OBVIOUS
<1> DEFINE s == store.lock
           i == hnd[p].lock
           j == hnd[q].lock
<1>3. i \in 1 .. Len(s) /\ j \in 1 .. Len(s) /\ s \in Seq(Procs \cup {Nobody})
  BY <1>2, LockIndex DEF IInv, TypeOK
<1>4. store'.lock = [s EXCEPT ![i] = x]
  BY <1>1
<1>5. store'.lock[j] = IF j = i THEN x ELSE s[j]
  <2> HIDE DEF s, i, j
  <2>1. QED
    BY <1>3, <1>4
<1>6. QED
  BY <1>5 DEF Of

LEMMA LockAcquired ==
  ASSUME IInv, NEW p \in Procs, Inside(p), Of(p, "lock") = Nobody, Locked(p, p),
         UNCHANGED hnd, \A q \in Procs \ {p} : pc'[q] = pc[q]
  PROVE  HolderInv'
<1>1. \A q \in Procs : pc[q] \in HoldingPlaces => Inside(q) /\ Of(q, "lock") = q /\ q # Nobody
  BY ProcsAssumption DEF Inside, HoldingPlaces, IInv, HolderInv
<1>2. \A q \in Procs : pc[q] \in HoldingPlaces => hnd[q].lock # hnd[p].lock
  BY <1>1 DEF Of
<1>3. QED
  BY <1>1, <1>2, LockedAt DEF HolderInv, Of

LEMMA LockReleased ==
  ASSUME IInv, NEW p \in Procs, pc[p] \in HoldingPlaces, pc'[p] \notin HoldingPlaces,
         store'.lock = [store.lock EXCEPT ![hnd[p].lock] = Nobody],
         \A q \in Procs \ {p} : pc'[q] = pc[q] /\ hnd'[q] = hnd[q]
  PROVE  HolderInv'
<1>1. \A q \in Procs : pc[q] \in HoldingPlaces => Inside(q) /\ Of(q, "lock") = q
  BY DEF Inside, HoldingPlaces, IInv, HolderInv
<1>2. \A q \in Procs \ {p} : pc[q] \in HoldingPlaces => hnd[q].lock # hnd[p].lock
  BY <1>1 DEF Of
<1>3. \A q \in Procs \ {p} : pc[q] \in HoldingPlaces => store'.lock[hnd[q].lock] = Of(q, "lock")
  BY <1>1, <1>2, LockIndex DEF IInv, TypeOK, Of
<1>4. QED
  BY <1>1, <1>3 DEF HolderInv, Of

LEMMA LockKept ==
  ASSUME IInv, store'.lock = store.lock,
         \A q \in Procs : pc'[q] \in HoldingPlaces
                            => pc[q] \in HoldingPlaces /\ hnd'[q].lock = hnd[q].lock
  PROVE  HolderInv'
BY DEF IInv, HolderInv, Of

-----------------------------------------------------------------------------
(* The quiet steps *)

LEMMA AcquireMainKeeps ==
  ASSUME IInv, NEW p \in Procs, AcquireMain(p)
  PROVE  IInv'
<1>1. \E place \in Places : pc' = [pc EXCEPT ![p] = place] /\ Alike(pc[p], place)
  BY DEF AcquireMain, Go, Places, Alike, EntryPlaces, BlockPlaces, KeepingPlaces
<1>2. Inside(p)
  BY DEF IInv, TypeOK, AcquireMain, Go, Inside, HoldingPlaces
<1>3. Locked(p, p) /\ UNCHANGED <<names, hnd, creator, faults, history>> /\ Of(p, "lock") = Nobody
  BY DEF AcquireMain
<1>4. StoreType(store') /\ SameLengths(store, store') /\ store'.dict = store.dict
  BY <1>3, StoreLocked, LockedFacts DEF IInv
<1>5. TypeOK' /\ store'.dict \in Seq(Dicts)
  BY <1>1, <1>3, <1>4, TypeKept DEF IInv, TypeOK, HandleType, history
<1>6. (HandleInv /\ OwnSlotInv /\ SameLockInv /\ SharedInv /\ OrderlyInv /\ KeptInv)'
  BY <1>1, <1>3, <1>4, QuietKeeps DEF history
<1>7. HolderInv'
  BY <1>1, <1>2, <1>3, LockAcquired
<1>8. QED
  BY <1>5, <1>6, <1>7 DEF IInv

LEMMA ReleaseMainKeeps ==
  ASSUME IInv, NEW p \in Procs, ReleaseMain(p)
  PROVE  IInv'
<1>1. \E place \in Places : pc' = [pc EXCEPT ![p] = place] /\ Alike(pc[p], place)
  BY DEF ReleaseMain, Go, Places, Alike, EntryPlaces, BlockPlaces, KeepingPlaces
<1>2. pc[p] \in HoldingPlaces /\ pc'[p] \notin HoldingPlaces
  BY DEF IInv, TypeOK, ReleaseMain, Go, Inside, HoldingPlaces
<1>3. Locked(p, Nobody) /\ UNCHANGED <<names, hnd, creator, faults, history>>
  BY DEF ReleaseMain
<1>4. StoreType(store') /\ SameLengths(store, store') /\ store'.dict = store.dict
  BY <1>3, StoreLocked, LockedFacts DEF IInv
<1>5. TypeOK' /\ store'.dict \in Seq(Dicts)
  BY <1>1, <1>3, <1>4, TypeKept DEF IInv, TypeOK, HandleType, history
<1>6. (HandleInv /\ OwnSlotInv /\ SameLockInv /\ SharedInv /\ OrderlyInv /\ KeptInv)'
  BY <1>1, <1>3, <1>4, QuietKeeps DEF history
<1>7. HolderInv'
  <2>1. \A q \in Procs \ {p} : pc'[q] = pc[q] /\ hnd'[q] = hnd[q]
    BY <1>1, <1>3 DEF IInv, TypeOK
  <2>2. store'.lock = [store.lock EXCEPT ![hnd[p].lock] = Nobody]
    BY <1>3, LockedFacts DEF IInv
  <2>3. QED
    BY <1>2, <2>1, <2>2, LockReleased
<1>8. QED
  BY <1>5, <1>6, <1>7 DEF IInv

LEMMA WriteVersionHeaderKeeps ==
  ASSUME IInv, NEW p \in Procs, WriteVersionHeader(p)
  PROVE  IInv'
<1>1. \E place \in Places : pc' = [pc EXCEPT ![p] = place] /\ Alike(pc[p], place)
  BY DEF WriteVersionHeader, Go, Places, Alike, EntryPlaces, BlockPlaces, KeepingPlaces
<1>2. pc'[p] \notin HoldingPlaces
  BY DEF IInv, TypeOK, WriteVersionHeader, Go, Inside, HoldingPlaces
<1>3. UNCHANGED <<names, hnd, creator, faults, history>>
  BY DEF WriteVersionHeader
<1>4. StoreType(store') /\ SameLengths(store, store') /\ store'.dict = store.dict
      /\ store'.lock = store.lock
  <2> DEFINE S == [header : BOOLEAN, notified : BOOLEAN]
             s == store.block
             i == hnd[p].block
             x == [s[i] EXCEPT !.header = TRUE]
  <2>1. StoreType(store)
    BY StoreTyped
  <2>2. i \in 1 .. Len(s)
    BY DEF IInv, TypeOK, HandleInv, BlockPlaces, EntryPlaces, WriteVersionHeader, Go, Kinds
  <2>3. s \in Seq(S)
    BY <2>1 DEF StoreType
  <2>4. s[i] \in S
    <3> HIDE DEF S, s, i
    <3>1. QED
      BY <2>2, <2>3
  <2>5. x \in S
    BY <2>4
  <2>6. /\ DOMAIN store' = Kinds /\ store'.block = [s EXCEPT ![i] = x]
        /\ store'.dict = store.dict /\ store'.lock = store.lock
        /\ store'.cond = store.cond
    BY DEF IInv, TypeOK, WriteVersionHeader, Kinds
  <2>7. store'.block \in Seq(S) /\ Len(store'.block) = Len(s)
    <3> HIDE DEF S, s, i, x
    <3>1. QED
      BY <2>3, <2>5, <2>6, SeqSet
  <2>8. QED
    BY <2>1, <2>6, <2>7 DEF StoreType, SameLengths, Kinds
<1>5. TypeOK' /\ store'.dict \in Seq(Dicts)
  BY <1>1, <1>3, <1>4, TypeKept DEF IInv, TypeOK, HandleType, history
<1>6. (HandleInv /\ OwnSlotInv /\ SameLockInv /\ SharedInv /\ OrderlyInv /\ KeptInv)'
  BY <1>1, <1>3, <1>4, QuietKeeps DEF history
<1>7. HolderInv'
  BY <1>1, <1>2, <1>3, <1>4, LockKept DEF history
<1>8. QED
  BY <1>5, <1>6, <1>7 DEF IInv

LEMMA ValidateVersionKeeps ==
  ASSUME IInv, NEW p \in Procs, ValidateVersion(p)
  PROVE  IInv'
<1>1. \E place \in Places : pc' = [pc EXCEPT ![p] = place] /\ Alike(pc[p], place)
  <2> DEFINE place == IF Of(p, "block").header THEN "waiting"
                      ELSE IF pc[p] = "tryValidate" THEN "closing" ELSE "refused"
  <2>1. pc[p] \in {"tryValidate", "makeValidate"} /\ pc' = [pc EXCEPT ![p] = place]
    BY DEF ValidateVersion
  <2>2. place \in {"waiting", "closing", "refused"}
    OBVIOUS
  <2> HIDE DEF place
  <2>3. place \in Places /\ Alike(pc[p], place)
    BY <2>1, <2>2 DEF Places, Alike, EntryPlaces, BlockPlaces, KeepingPlaces
  <2>4. QED
    BY <2>1, <2>3
<1>2. pc'[p] \notin HoldingPlaces
  BY DEF IInv, TypeOK, ValidateVersion, Go, Inside, HoldingPlaces
<1>3. UNCHANGED <<names, hnd, store, creator, faults, history>>
  BY DEF ValidateVersion
<1>4. StoreType(store') /\ SameLengths(store, store')
  BY <1>3, StoreSame
<1>5. TypeOK' /\ store'.dict \in Seq(Dicts)
  BY <1>1, <1>3, <1>4, TypeKept DEF IInv, TypeOK, HandleType, history
<1>6. (HandleInv /\ OwnSlotInv /\ SameLockInv /\ SharedInv /\ OrderlyInv /\ KeptInv)'
  BY <1>1, <1>3, <1>4, QuietKeeps DEF history
<1>7. HolderInv'
  BY <1>1, <1>2, <1>3, LockKept DEF history
<1>8. QED
  BY <1>5, <1>6, <1>7 DEF IInv

LEMMA NotifyReadyKeeps ==
  ASSUME IInv, NEW p \in Procs, NotifyReady(p)
  PROVE  IInv'
<1>1. \E place \in Places : pc' = [pc EXCEPT ![p] = place] /\ Alike(pc[p], place)
  BY DEF NotifyReady, Go, Places, Alike, EntryPlaces, BlockPlaces, KeepingPlaces
<1>2. pc'[p] \notin HoldingPlaces
  BY DEF IInv, TypeOK, NotifyReady, Go, Inside, HoldingPlaces
<1>3. UNCHANGED <<names, hnd, creator, faults, history>>
  BY DEF NotifyReady
<1>4. StoreType(store') /\ SameLengths(store, store') /\ store'.dict = store.dict
      /\ store'.lock = store.lock
  <2> DEFINE S == [header : BOOLEAN, notified : BOOLEAN]
             s == store.block
             i == hnd[p].block
             x == [s[i] EXCEPT !.notified = TRUE]
  <2>1. StoreType(store)
    BY StoreTyped
  <2>2. i \in 1 .. Len(s)
    BY DEF IInv, TypeOK, HandleInv, BlockPlaces, EntryPlaces, NotifyReady, Go, Kinds
  <2>3. s \in Seq(S)
    BY <2>1 DEF StoreType
  <2>4. s[i] \in S
    <3> HIDE DEF S, s, i
    <3>1. QED
      BY <2>2, <2>3
  <2>5. x \in S
    BY <2>4
  <2>6. /\ DOMAIN store' = Kinds /\ store'.block = [s EXCEPT ![i] = x]
        /\ store'.dict = store.dict /\ store'.lock = store.lock
        /\ store'.cond = [store.cond EXCEPT ![hnd[p].cond] = TRUE]
    BY DEF IInv, TypeOK, NotifyReady, Kinds
  <2>7. store'.block \in Seq(S) /\ Len(store'.block) = Len(s)
    <3> HIDE DEF S, s, i, x
    <3>1. QED
      BY <2>3, <2>5, <2>6, SeqSet
  <2>8. store'.cond \in Seq(BOOLEAN) /\ Len(store'.cond) = Len(store.cond)
    <3> DEFINE c == store.cond
               j == hnd[p].cond
               B == BOOLEAN
               t == TRUE
    <3>1. c \in Seq(B) /\ t \in B /\ store'.cond = [c EXCEPT ![j] = t]
      BY <2>1, <2>6 DEF StoreType
    <3> HIDE DEF c, j, B, t
    <3>2. store'.cond \in Seq(B) /\ Len(store'.cond) = Len(c)
      BY <3>1, SeqSet
    <3>3. QED
      BY <3>2 DEF c, B
  <2>9. QED
    BY <2>1, <2>6, <2>7, <2>8 DEF StoreType, SameLengths, Kinds
<1>5. TypeOK' /\ store'.dict \in Seq(Dicts)
  BY <1>1, <1>3, <1>4, TypeKept DEF IInv, TypeOK, HandleType, history
<1>6. (HandleInv /\ OwnSlotInv /\ SameLockInv /\ SharedInv /\ OrderlyInv /\ KeptInv)'
  BY <1>1, <1>3, <1>4, QuietKeeps DEF history
<1>7. HolderInv'
  BY <1>1, <1>2, <1>3, <1>4, LockKept DEF history
<1>8. QED
  BY <1>5, <1>6, <1>7 DEF IInv

LEMMA WaitForReadyKeeps ==
  ASSUME IInv, NEW p \in Procs, WaitForReady(p)
  PROVE  IInv'
<1>1. \E place \in Places : pc' = [pc EXCEPT ![p] = place] /\ Alike(pc[p], place)
  BY DEF WaitForReady, Go, Places, Alike, EntryPlaces, BlockPlaces, KeepingPlaces
<1>2. pc'[p] \notin HoldingPlaces
  BY DEF IInv, TypeOK, WaitForReady, Go, Inside, HoldingPlaces
<1>3. UNCHANGED <<names, hnd, store, creator, faults, history>>
  BY DEF WaitForReady
<1>4. StoreType(store') /\ SameLengths(store, store')
  BY <1>3, StoreSame
<1>5. TypeOK' /\ store'.dict \in Seq(Dicts)
  BY <1>1, <1>3, <1>4, TypeKept DEF IInv, TypeOK, HandleType, history
<1>6. (HandleInv /\ OwnSlotInv /\ SameLockInv /\ SharedInv /\ OrderlyInv /\ KeptInv)'
  BY <1>1, <1>3, <1>4, QuietKeeps DEF history
<1>7. HolderInv'
  BY <1>1, <1>2, <1>3, LockKept DEF history
<1>8. QED
  BY <1>5, <1>6, <1>7 DEF IInv

LEMMA CloseKeeps ==
  ASSUME IInv, NEW p \in Procs, Close(p)
  PROVE  IInv'
<1>1. \E place \in Places : pc' = [pc EXCEPT ![p] = place] /\ Alike(pc[p], place)
  BY DEF Close, Go, Places, Alike, EntryPlaces, BlockPlaces, KeepingPlaces
<1>2. pc'[p] \notin HoldingPlaces
  BY DEF IInv, TypeOK, Close, Go, Inside, HoldingPlaces
<1>3. UNCHANGED <<names, hnd, store, creator, faults, history>>
  BY DEF Close
<1>4. StoreType(store') /\ SameLengths(store, store')
  BY <1>3, StoreSame
<1>5. TypeOK' /\ store'.dict \in Seq(Dicts)
  BY <1>1, <1>3, <1>4, TypeKept DEF IInv, TypeOK, HandleType, history
<1>6. (HandleInv /\ OwnSlotInv /\ SameLockInv /\ SharedInv /\ OrderlyInv /\ KeptInv)'
  BY <1>1, <1>3, <1>4, QuietKeeps DEF history
<1>7. HolderInv'
  BY <1>1, <1>2, <1>3, LockKept DEF history
<1>8. QED
  BY <1>5, <1>6, <1>7 DEF IInv

LEMMA TryAcquireLockKeeps ==
  ASSUME IInv, NEW p \in Procs, TryAcquireLock(p)
  PROVE  IInv'
<1>1. \E place \in Places : pc' = [pc EXCEPT ![p] = place] /\ Alike(pc[p], place)
  BY DEF TryAcquireLock, Go, Places, Alike, EntryPlaces, BlockPlaces, KeepingPlaces
<1>2. Inside(p)
  BY DEF IInv, TypeOK, TryAcquireLock, Go, Inside, HoldingPlaces
<1>3. Locked(p, p) /\ UNCHANGED <<names, hnd, creator, faults, history>> /\ Of(p, "lock") = Nobody
  BY DEF TryAcquireLock
<1>4. StoreType(store') /\ SameLengths(store, store') /\ store'.dict = store.dict
  BY <1>3, StoreLocked, LockedFacts DEF IInv
<1>5. TypeOK' /\ store'.dict \in Seq(Dicts)
  BY <1>1, <1>3, <1>4, TypeKept DEF IInv, TypeOK, HandleType, history
<1>6. (HandleInv /\ OwnSlotInv /\ SameLockInv /\ SharedInv /\ OrderlyInv /\ KeptInv)'
  BY <1>1, <1>3, <1>4, QuietKeeps DEF history
<1>7. HolderInv'
  BY <1>1, <1>2, <1>3, LockAcquired
<1>8. QED
  BY <1>5, <1>6, <1>7 DEF IInv

LEMMA CloseLockKeeps ==
  ASSUME IInv, NEW p \in Procs, CloseLock(p)
  PROVE  IInv'
<1>1. \E place \in Places : pc' = [pc EXCEPT ![p] = place] /\ Alike(pc[p], place)
  BY DEF CloseLock, Go, Places, Alike, EntryPlaces, BlockPlaces, KeepingPlaces
<1>2. pc[p] \in HoldingPlaces /\ pc'[p] \notin HoldingPlaces
  BY DEF IInv, TypeOK, CloseLock, Go, Inside, HoldingPlaces
<1>3. Locked(p, Nobody) /\ UNCHANGED <<names, hnd, creator, faults, history>>
  BY DEF CloseLock
<1>4. StoreType(store') /\ SameLengths(store, store') /\ store'.dict = store.dict
  BY <1>3, StoreLocked, LockedFacts DEF IInv
<1>5. TypeOK' /\ store'.dict \in Seq(Dicts)
  BY <1>1, <1>3, <1>4, TypeKept DEF IInv, TypeOK, HandleType, history
<1>6. (HandleInv /\ OwnSlotInv /\ SameLockInv /\ SharedInv /\ OrderlyInv /\ KeptInv)'
  BY <1>1, <1>3, <1>4, QuietKeeps DEF history
<1>7. HolderInv'
  <2>1. \A q \in Procs \ {p} : pc'[q] = pc[q] /\ hnd'[q] = hnd[q]
    BY <1>1, <1>3 DEF IInv, TypeOK
  <2>2. store'.lock = [store.lock EXCEPT ![hnd[p].lock] = Nobody]
    BY <1>3, LockedFacts DEF IInv
  <2>3. QED
    BY <1>2, <2>1, <2>2, LockReleased
<1>8. QED
  BY <1>5, <1>6, <1>7 DEF IInv

-----------------------------------------------------------------------------
(* Steps that leave the dictionaries alone *)

Others(p) == \A q \in Procs \ {p} : pc'[q] = pc[q] /\ hnd'[q] = hnd[q]

LEMMA EntriesKept ==
  ASSUME IInv, NEW p \in Procs, Others(p), store'.dict = store.dict,
         UNCHANGED <<mistaken, unclean>>, pc'[p] # "dead",
         Beats(p)' => /\ Beats(p) /\ hnd'[p].dict = hnd[p].dict
                      /\ hnd'[p].slot = hnd[p].slot,
         pc[p] \in EntryPlaces => pc'[p] \in EntryPlaces /\ hnd'[p].dict = hnd[p].dict
  PROVE  OwnSlotInv' /\ OrderlyInv'
<1>1. \A q \in Procs : Beats(q)' => /\ Beats(q) /\ hnd'[q].dict = hnd[q].dict
                                    /\ hnd'[q].slot = hnd[q].slot
  BY DEF Others, Beats
<1>2. OwnSlotInv'
  BY <1>1 DEF IInv, OwnSlotInv, Of
<1>3. \A q \in Procs : pc[q] \in EntryPlaces
                         => pc'[q] \in EntryPlaces /\ hnd'[q].dict = hnd[q].dict
  BY DEF Others
<1>4. ASSUME ~unclean'
      PROVE  /\ \A q \in Procs : pc'[q] # "dead"
             /\ \A d \in 1 .. Len(store'.dict) : \A q \in DOMAIN store'.dict[d].slot :
                  pc'[q] \in EntryPlaces /\ hnd'[q].dict = d
  <2>1. \A q \in Procs : pc[q] # "dead"
    BY <1>4 DEF IInv, OrderlyInv
  <2>2. \A d \in 1 .. Len(store.dict) : \A q \in DOMAIN store.dict[d].slot :
          q \in Procs /\ pc[q] \in EntryPlaces /\ hnd[q].dict = d
    BY <1>4 DEF IInv, OrderlyInv, TypeOK
  <2>3. QED
    BY <1>3, <2>1, <2>2 DEF Others
<1>5. QED
  BY <1>2, <1>4 DEF OrderlyInv

(* No object is made, and none opened. *)
LEMMA TypeClosed ==
  ASSUME IInv, NEW p \in Procs, NEW place \in Places, pc' = [pc EXCEPT ![p] = place],
         StoreType(store'), SameLengths(store, store'),
         \/ UNCHANGED names
         \/ \E k \in Kinds : names' = [names EXCEPT ![k] = 0],
         \/ UNCHANGED hnd
         \/ hnd' = [hnd EXCEPT ![p] = None]
         \/ hnd' = [hnd EXCEPT ![p].slot = 0],
         UNCHANGED creator, mistaken' \subseteq Procs, faults' \in 0 .. MaxFaults,
         split' \in BOOLEAN, unclean' \in BOOLEAN
  PROVE  TypeOK' /\ store'.dict \in Seq(Dicts)
<1>1. pc' \in [Procs -> Places]
  BY DEF IInv, TypeOK
<1>2. names' \in [Kinds -> Nat] /\ \A k \in Kinds : names'[k] \in {0, names[k]}
  <2>1. names \in [Kinds -> Nat]
    BY DEF IInv, TypeOK
  <2>2. CASE UNCHANGED names
    BY <2>1, <2>2
  <2>3. ASSUME NEW k \in Kinds, names' = [names EXCEPT ![k] = 0]
        PROVE  names' \in [Kinds -> Nat] /\ \A j \in Kinds : names'[j] \in {0, names[j]}
    BY <2>1, <2>3
  <2>4. QED
    BY <2>2, <2>3
<1>3. None \in HandleType /\ \A k \in Kinds : None[k] = 0
  BY DEF None, HandleType
<1>4. hnd' \in [Procs -> HandleType] /\ \A q \in Procs, k \in Kinds : hnd'[q][k] \in {0, hnd[q][k]}
  <2>1. hnd \in [Procs -> HandleType]
    BY DEF IInv, TypeOK, HandleType
  <2>2. CASE hnd' = [hnd EXCEPT ![p].slot = 0]
    BY <2>1, <2>2 DEF HandleType, Kinds
  <2>3. CASE hnd' = [hnd EXCEPT ![p] = None]
    BY <1>3, <2>1, <2>3
  <2>4. QED
    BY <2>1, <2>2, <2>3
<1>5. QED
  BY <1>1, <1>2, <1>4, TypeKept

LEMMA NoneFacts == None.lock = 0 /\ None.block = 0 /\ None.dict = 0 /\ None.cond = 0 /\ None.slot = 0
BY DEF None, Kinds

LEMMA TimeOutKeeps ==
  ASSUME IInv, NEW p \in Procs, TimeOut(p)
  PROVE  IInv'
<1>1. /\ pc[p] \in {"tryLock", "makeLock"} /\ pc'[p] = "failed" /\ hnd'[p] = None
      /\ Others(p) /\ UNCHANGED <<names, store, creator, faults, mistaken, split, unclean>>
      /\ pc' = [pc EXCEPT ![p] = "failed"] /\ hnd' = [hnd EXCEPT ![p] = None]
  BY DEF IInv, TypeOK, TimeOut, Go, Others, history
<1>2. TypeOK' /\ store'.dict \in Seq(Dicts)
  <2>1. "failed" \in Places
    BY DEF Places
  <2>2. mistaken' \subseteq Procs /\ faults' \in 0 .. MaxFaults
        /\ split' \in BOOLEAN /\ unclean' \in BOOLEAN
    BY <1>1 DEF IInv, TypeOK
  <2>3. QED
    BY <1>1, <2>1, <2>2, StoreSame, TypeClosed
<1>3. HandleInv'
  BY <1>1, NoneFacts DEF IInv, HandleInv, Others, Inside, BlockPlaces, EntryPlaces
<1>4. OwnSlotInv' /\ OrderlyInv'
  BY <1>1, NoneFacts, EntriesKept DEF Beats, EntryPlaces
<1>5. HolderInv'
  BY <1>1, LockKept DEF Others, HoldingPlaces
<1>6. SameLockInv'
  BY <1>1 DEF IInv, SameLockInv, Others, Inside
<1>7. SharedInv'
  BY <1>1 DEF IInv, SharedInv, Disturbed, Others, BlockPlaces, EntryPlaces
<1>8. KeptInv'
  BY <1>1 DEF IInv, KeptInv, Disturbed, Others, KeepingPlaces, BlockPlaces, EntryPlaces
<1>9. QED
  BY <1>2, <1>3, <1>4, <1>5, <1>6, <1>7, <1>8 DEF IInv

LEMMA LeaveKeeps ==
  ASSUME IInv, NEW p \in Procs, Leave(p)
  PROVE  IInv'
<1>1. /\ pc[p] = "leaving" /\ pc'[p] = "closed" /\ hnd'[p] = None
      /\ Others(p) /\ UNCHANGED <<names, creator, faults, mistaken, split, unclean>>
      /\ pc' = [pc EXCEPT ![p] = "closed"] /\ hnd' = [hnd EXCEPT ![p] = None]
      /\ Locked(p, Nobody)
  BY DEF IInv, TypeOK, Leave, Go, Others, history
<1>2. /\ StoreType(store') /\ SameLengths(store, store') /\ store'.dict = store.dict
      /\ store'.lock = [store.lock EXCEPT ![hnd[p].lock] = Nobody]
  <2>1. StoreType(store') /\ SameLengths(store, store')
    BY <1>1, StoreLocked
  <2>2. Locked(p, Nobody)
    BY <1>1
  <2>3. QED
    BY <2>1, <2>2, LockedFacts DEF IInv
<1>3. TypeOK' /\ store'.dict \in Seq(Dicts)
  <2>1. "closed" \in Places
    BY DEF Places
  <2>2. mistaken' \subseteq Procs /\ faults' \in 0 .. MaxFaults
        /\ split' \in BOOLEAN /\ unclean' \in BOOLEAN
    BY <1>1 DEF IInv, TypeOK
  <2>3. QED
    BY <1>1, <1>2, <2>1, <2>2, TypeClosed
<1>4. HandleInv'
  BY <1>1, NoneFacts DEF IInv, HandleInv, Others, Inside, BlockPlaces, EntryPlaces
<1>5. OwnSlotInv' /\ OrderlyInv'
  BY <1>1, <1>2, NoneFacts, EntriesKept DEF Beats, EntryPlaces
<1>6. HolderInv'
  BY <1>1, <1>2, LockReleased DEF Others, HoldingPlaces
<1>7. SameLockInv'
  BY <1>1 DEF IInv, SameLockInv, Others, Inside
<1>8. SharedInv'
  BY <1>1 DEF IInv, SharedInv, Disturbed, Others, BlockPlaces, EntryPlaces
<1>9. KeptInv'
  BY <1>1 DEF IInv, KeptInv, Disturbed, Others, KeepingPlaces, BlockPlaces, EntryPlaces
<1>10. QED
  BY <1>3, <1>4, <1>5, <1>6, <1>7, <1>8, <1>9 DEF IInv

LEMMA UnlinkDictKeeps ==
  ASSUME IInv, NEW p \in Procs, UnlinkDict(p)
  PROVE  IInv'
<1>1. /\ pc[p] = "unlinking" /\ pc'[p] = "unlinkBlock"
      /\ Others(p) /\ UNCHANGED <<hnd, store, creator, faults, mistaken, split, unclean>>
      /\ pc' = [pc EXCEPT ![p] = "unlinkBlock"] /\ names' = [names EXCEPT !["dict"] = 0]
      /\ names'.dict = 0 /\ names'.block = names.block /\ names'.lock = names.lock
  BY DEF IInv, TypeOK, UnlinkDict, Unlink, Go, Others, history, Kinds
<1>2. TypeOK' /\ store'.dict \in Seq(Dicts)
  <2>1. "unlinkBlock" \in Places /\ "dict" \in Kinds
    BY DEF Places, Kinds
  <2>2. mistaken' \subseteq Procs /\ faults' \in 0 .. MaxFaults
        /\ split' \in BOOLEAN /\ unclean' \in BOOLEAN
    BY <1>1 DEF IInv, TypeOK
  <2>3. QED
    BY <1>1, <2>1, <2>2, StoreSame, TypeClosed
<1>3. HandleInv'
  BY <1>1 DEF IInv, HandleInv, Others, Inside, BlockPlaces, EntryPlaces
<1>4. OwnSlotInv' /\ OrderlyInv'
  BY <1>1, EntriesKept DEF Beats, EntryPlaces
<1>5. HolderInv'
  BY <1>1, LockKept DEF Others, HoldingPlaces
<1>6. SameLockInv'
  BY <1>1 DEF IInv, SameLockInv, Others, Inside
<1>7. SharedInv'
  <2>1. SUFFICES ASSUME ~Disturbed'
                 PROVE  SharedInv'
    BY DEF SharedInv
  <2>2. \A q \in Procs : pc[q] \in HoldingPlaces => q = p
    BY <1>1, <2>1, Exclusion DEF Disturbed, HoldingPlaces
  <2>3. \A q \in Procs : pc[q] \notin EntryPlaces /\ pc[q] # "counting"
    BY <1>1, <2>1, <2>2 DEF IInv, SharedInv, Disturbed, HoldingPlaces
  <2>4. QED
    BY <1>1, <2>1, <2>2, <2>3
    DEF IInv, SharedInv, Disturbed, Others, BlockPlaces, EntryPlaces, HoldingPlaces
<1>8. KeptInv'
  BY <1>1 DEF IInv, KeptInv, Disturbed, Others, KeepingPlaces, BlockPlaces, EntryPlaces
<1>9. QED
  BY <1>2, <1>3, <1>4, <1>5, <1>6, <1>7, <1>8 DEF IInv

LEMMA UnlinkBlockKeeps ==
  ASSUME IInv, NEW p \in Procs, UnlinkBlock(p)
  PROVE  IInv'
<1>1. /\ pc[p] = "unlinkBlock" /\ pc'[p] = "closeLock"
      /\ Others(p) /\ UNCHANGED <<hnd, store, creator, faults, mistaken, split, unclean>>
      /\ pc' = [pc EXCEPT ![p] = "closeLock"] /\ names' = [names EXCEPT !["block"] = 0]
      /\ names'.block = 0 /\ names'.dict = names.dict /\ names'.lock = names.lock
  BY DEF IInv, TypeOK, UnlinkBlock, Unlink, Go, Others, history, Kinds
<1>2. TypeOK' /\ store'.dict \in Seq(Dicts)
  <2>1. "closeLock" \in Places /\ "block" \in Kinds
    BY DEF Places, Kinds
  <2>2. mistaken' \subseteq Procs /\ faults' \in 0 .. MaxFaults
        /\ split' \in BOOLEAN /\ unclean' \in BOOLEAN
    BY <1>1 DEF IInv, TypeOK
  <2>3. QED
    BY <1>1, <2>1, <2>2, StoreSame, TypeClosed
<1>3. HandleInv'
  BY <1>1 DEF IInv, HandleInv, Others, Inside, BlockPlaces, EntryPlaces
<1>4. OwnSlotInv' /\ OrderlyInv'
  BY <1>1, EntriesKept DEF Beats, EntryPlaces
<1>5. HolderInv'
  BY <1>1, LockKept DEF Others, HoldingPlaces
<1>6. SameLockInv'
  BY <1>1 DEF IInv, SameLockInv, Others, Inside
<1>7. ASSUME ~Disturbed
      PROVE  names.dict = 0 /\ \A q \in Procs : pc[q] \notin BlockPlaces
  <2>1. \A q \in Procs : pc[q] \in HoldingPlaces => q = p
    BY <1>1, <1>7, Exclusion DEF Disturbed, HoldingPlaces
  <2>2. \A q \in Procs : pc[q] \notin EntryPlaces
    BY <1>1, <1>7 DEF IInv, SharedInv
  <2>3. QED
    BY <1>1, <1>7, <2>1, <2>2 DEF IInv, SharedInv, BlockPlaces, HoldingPlaces
<1>8. SharedInv'
  BY <1>1, <1>7 DEF IInv, SharedInv, Disturbed, Others, BlockPlaces, EntryPlaces
<1>9. KeptInv'
  BY <1>1, <1>7 DEF IInv, KeptInv, Disturbed, Others
<1>10. QED
  BY <1>2, <1>3, <1>4, <1>5, <1>6, <1>8, <1>9 DEF IInv

LEMMA UnlinkLockKeeps ==
  ASSUME IInv, NEW p \in Procs, UnlinkLock(p)
  PROVE  IInv'
<1>1. /\ pc[p] = "unlinkLock" /\ pc'[p] = "closed" /\ hnd'[p] = None
      /\ Others(p) /\ UNCHANGED <<store, creator, faults, mistaken, unclean>>
      /\ pc' = [pc EXCEPT ![p] = "closed"] /\ hnd' = [hnd EXCEPT ![p] = None]
      /\ names' = [names EXCEPT !["lock"] = 0]
      /\ names'.block = names.block /\ names'.dict = names.dict /\ names'.cond = names.cond
  BY DEF IInv, TypeOK, UnlinkLock, Unlink, Go, Others, Kinds
<1>2. split' = (split \/ \E q \in Procs \ {p} : Inside(q))
  BY DEF UnlinkLock
<1>3. TypeOK' /\ store'.dict \in Seq(Dicts)
  <2>1. "closed" \in Places /\ "lock" \in Kinds
    BY DEF Places, Kinds
  <2>2. mistaken' \subseteq Procs /\ faults' \in 0 .. MaxFaults /\ unclean' \in BOOLEAN
    BY <1>1 DEF IInv, TypeOK
  <2>3. split' \in BOOLEAN
    BY <1>2
  <2>4. QED
    BY <1>1, <2>1, <2>2, <2>3, StoreSame, TypeClosed
<1>4. HandleInv'
  BY <1>1, NoneFacts DEF IInv, HandleInv, Others, Inside, BlockPlaces, EntryPlaces
<1>5. OwnSlotInv' /\ OrderlyInv'
  BY <1>1, NoneFacts, EntriesKept DEF Beats, EntryPlaces
<1>6. HolderInv'
  BY <1>1, LockKept DEF Others, HoldingPlaces
<1>7. SameLockInv'
  BY <1>1, <1>2 DEF IInv, SameLockInv, Others, Inside
<1>8. ~Disturbed' => ~Disturbed
  BY <1>1, <1>2 DEF Disturbed
<1>9. SharedInv'
  BY <1>1, <1>8 DEF IInv, SharedInv, Others, BlockPlaces, EntryPlaces
<1>10. KeptInv'
  BY <1>1, <1>8 DEF IInv, KeptInv, Others, KeepingPlaces, BlockPlaces, EntryPlaces
<1>11. QED
  BY <1>3, <1>4, <1>5, <1>6, <1>7, <1>9, <1>10 DEF IInv

-----------------------------------------------------------------------------
(* Opening *)

LEMMA TypeOpened ==
  ASSUME IInv, NEW p \in Procs, NEW k \in {"lock", "block", "cond"}, OpenOrMake(p, k),
         pc' \in [Procs -> Places], creator' \subseteq Procs,
         UNCHANGED <<faults, mistaken, split, unclean>>
  PROVE  TypeOK' /\ store'.dict \in Seq(Dicts) /\ store'.dict = store.dict
<1> k \in Kinds
  BY DEF Kinds
<1>1. /\ DOMAIN store' = Kinds
      /\ \A j \in Kinds \ {k} : names'[j] = names[j] /\ store'[j] = store[j]
      /\ hnd' = [hnd EXCEPT ![p][k] = names'[k]]
      /\ names' = [names EXCEPT ![k] = names'[k]]
      /\ names[k] # 0 => names'[k] = names[k] /\ store'[k] = store[k]
      /\ names[k] = 0 => names'[k] = Len(store[k]) + 1 /\ store'[k] = Append(store[k], New[k])
  BY OpenFacts DEF IInv
<1>2. StoreType(store)
  BY StoreTyped
<1>3. \A j \in Kinds : Len(store[j]) \in Nat
  BY LenFacts DEF IInv
<1>4. StoreType(store') /\ (names[k] = 0 => Len(store'[k]) = Len(store[k]) + 1)
  <2>1. CASE names[k] # 0
    BY <1>1, <1>2, <2>1 DEF StoreType, Kinds
  <2>2. CASE names[k] = 0
    <3>1. ASSUME k = "lock"
          PROVE  store'.lock \in Seq(Procs \cup {Nobody}) /\ Len(store'.lock) = Len(store.lock) + 1
      <4>1. store'.lock = Append(store.lock, Nobody) /\ store.lock \in Seq(Procs \cup {Nobody})
        BY <1>1, <1>2, <2>2, <3>1 DEF StoreType, New
      <4>2. QED
        BY <4>1
    <3>2. ASSUME k = "block"
          PROVE  /\ store'.block \in Seq([header : BOOLEAN, notified : BOOLEAN])
                 /\ Len(store'.block) = Len(store.block) + 1
      <4> DEFINE e == [header |-> FALSE, notified |-> FALSE]
      <4>1. store'.block = Append(store.block, e)
            /\ store.block \in Seq([header : BOOLEAN, notified : BOOLEAN])
        BY <1>1, <1>2, <2>2, <3>2 DEF StoreType, New
      <4>2. e \in [header : BOOLEAN, notified : BOOLEAN]
        OBVIOUS
      <4> HIDE DEF e
      <4>3. QED
        BY <4>1, <4>2
    <3>3. ASSUME k = "cond"
          PROVE  store'.cond \in Seq(BOOLEAN) /\ Len(store'.cond) = Len(store.cond) + 1
      <4> DEFINE e == FALSE
                 B == BOOLEAN
      <4>1. store'.cond = Append(store.cond, e) /\ store.cond \in Seq(B) /\ e \in B
        BY <1>1, <1>2, <2>2, <3>3 DEF StoreType, New
      <4> HIDE DEF e, B
      <4>2. store'.cond \in Seq(B) /\ Len(store'.cond) = Len(store.cond) + 1
        BY <4>1
      <4>3. QED
        BY <4>2 DEF B
    <3>4. QED
      BY <1>1, <1>2, <2>2, <3>1, <3>2, <3>3 DEF StoreType, Kinds
  <2>3. QED
    BY <2>1, <2>2
<1>5. names' \in [Kinds -> Nat] /\ hnd' \in [Procs -> HandleType]
  <2>1. names'[k] \in Nat
    BY <1>1, <1>3 DEF IInv, TypeOK
  <2>2. QED
    BY <1>1, <2>1 DEF IInv, TypeOK, HandleType
<1>6. ASSUME NEW j \in Kinds, NEW q \in Procs
      PROVE  names'[j] <= Len(store'[j]) /\ hnd'[q][j] <= Len(store'[j])
  <2>1. names[j] <= Len(store[j]) /\ hnd[q][j] <= Len(store[j]) /\ hnd[q][j] \in Nat
        /\ hnd \in [Procs -> HandleType] /\ names[j] \in Nat
    BY DEF IInv, TypeOK, HandleType
  <2>2. hnd'[q][j] \in {hnd[q][j], names'[k]} /\ (j # k => hnd'[q][j] = hnd[q][j])
    BY <1>1, <2>1 DEF HandleType
  <2>3. CASE j # k
    BY <1>1, <2>1, <2>2, <2>3
  <2>4. CASE j = k
    <3>1. CASE names[k] = 0
      BY <1>1, <1>3, <1>4, <2>1, <2>2, <2>4, <3>1
    <3>2. CASE names[k] # 0
      BY <1>1, <2>1, <2>2, <2>4, <3>2
    <3>3. QED
      BY <3>1, <3>2
  <2>5. QED
    BY <2>3, <2>4
<1>7. \A i \in 1 .. Len(store'.dict) :
        /\ DOMAIN store'.dict[i].slot \subseteq Procs
        /\ store'.dict[i].stale \subseteq Range(store'.dict[i].slot)
        /\ IsInjective(store'.dict[i].slot)
  BY <1>4, DictFacts DEF StoreType, Dicts
<1>8. store'.dict = store.dict
  BY <1>1 DEF Kinds
<1>9. TypeOK'
  BY <1>4, <1>5, <1>6, <1>7 DEF IInv, TypeOK, StoreType, HandleType
<1>10. QED
  BY <1>4, <1>8, <1>9 DEF StoreType

(* The lock of those who have one open does not change when one is made. *)
LEMMA LocksStay ==
  ASSUME IInv, NEW p \in Procs, NEW k \in {"lock", "block", "cond"}, OpenOrMake(p, k)
  PROVE  \A q \in Procs : Inside(q) => store'.lock[hnd[q].lock] = Of(q, "lock")
<1>1. SUFFICES ASSUME NEW q \in Procs, Inside(q)
               PROVE  store'.lock[hnd[q].lock] = Of(q, "lock")
  OBVIOUS
<1>2. hnd[q].lock \in 1 .. Len(store.lock) /\ store.lock \in Seq(Procs \cup {Nobody})
  BY <1>1, LockIndex DEF IInv, TypeOK
<1>3. store'.lock = store.lock \/ store'.lock = Append(store.lock, Nobody)
  BY OpenFacts DEF IInv, Kinds, New
<1>4. QED
  <2> DEFINE s == store.lock
             i == hnd[q].lock
  <2>1. i \in 1 .. Len(s) /\ s \in Seq(Procs \cup {Nobody})
        /\ (store'.lock = s \/ store'.lock = Append(s, Nobody))
    BY <1>2, <1>3
  <2>2. store'.lock[i] = s[i]
    <3> HIDE DEF s, i
    <3>1. QED
      BY <2>1
  <2>3. QED
    BY <2>2 DEF Of

LEMMA OpenLockKeeps ==
  ASSUME IInv, NEW p \in Procs, OpenLock(p)
  PROVE  IInv'
<1>1. /\ pc[p] \in {"out", "missing"} /\ pc'[p] \in {"tryLock", "makeLock"}
      /\ pc' \in [Procs -> Places] /\ \A q \in Procs \ {p} : pc'[q] = pc[q]
      /\ OpenOrMake(p, "lock") /\ UNCHANGED <<creator, faults, mistaken, split, unclean>>
  BY DEF IInv, TypeOK, OpenLock, Go, history, Places
<1>2. hnd[p] = None
  BY <1>1 DEF IInv, HandleInv
<1>3. /\ \A q \in Procs \ {p} : hnd'[q] = hnd[q]
      /\ hnd'[p].block = 0 /\ hnd'[p].dict = 0 /\ hnd'[p].slot = 0
      /\ hnd'[p].lock = names'.lock
      /\ names'.block = names.block /\ names'.dict = names.dict /\ names'.cond = names.cond
      /\ names.lock # 0 => names'.lock = names.lock
      /\ names.lock = 0 => names'.lock = Len(store.lock) + 1
  BY <1>1, <1>2, OpenFacts, NoneFacts DEF IInv, Kinds
<1>4. names'.lock # 0
  BY <1>3 DEF IInv, TypeOK
<1>5. TypeOK' /\ store'.dict \in Seq(Dicts) /\ store'.dict = store.dict
  <2>1. creator' \subseteq Procs
    BY <1>1 DEF IInv, TypeOK
  <2>2. QED
    BY <1>1, <2>1, TypeOpened
<1>6. Others(p)
  BY <1>1, <1>3 DEF Others
<1>7. HandleInv'
  BY <1>1, <1>3, <1>4, <1>6 DEF IInv, HandleInv, Others, Inside, BlockPlaces, EntryPlaces
<1>8. OwnSlotInv' /\ OrderlyInv'
  BY <1>1, <1>3, <1>5, <1>6, EntriesKept DEF Beats, EntryPlaces
<1>9. HolderInv'
  <2>1. ASSUME NEW q \in Procs, pc'[q] \in HoldingPlaces
        PROVE  q # p /\ pc[q] \in HoldingPlaces /\ Inside(q) /\ hnd'[q] = hnd[q]
    BY <1>1, <1>6, <2>1 DEF Others, HoldingPlaces, Inside
  <2>2. \A q \in Procs : Inside(q) => store'.lock[hnd[q].lock] = Of(q, "lock")
    BY <1>1, LocksStay
  <2>3. QED
    BY <2>1, <2>2 DEF IInv, HolderInv, Of
<1>10. SameLockInv'
  <2>1. ASSUME ~split, NEW q \in Procs \ {p}, Inside(q)'
        PROVE  hnd'[q].lock = names'.lock
    <3>1. Inside(q) /\ hnd'[q] = hnd[q]
      BY <1>6, <2>1 DEF Inside, Others
    <3>2. hnd[q].lock = names.lock /\ hnd[q].lock # 0
      BY <2>1, <3>1 DEF IInv, SameLockInv, HandleInv
    <3>3. QED
      BY <1>3, <3>1, <3>2
  <2>2. QED
    BY <1>1, <1>3, <2>1 DEF SameLockInv
<1>11. SharedInv'
  BY <1>1, <1>3, <1>6 DEF IInv, SharedInv, Disturbed, Others, BlockPlaces, EntryPlaces
<1>12. KeptInv'
  BY <1>1, <1>3, <1>6 DEF IInv, KeptInv, Disturbed, Others, KeepingPlaces, BlockPlaces, EntryPlaces
<1>13. QED
  BY <1>5, <1>7, <1>8, <1>9, <1>10, <1>11, <1>12 DEF IInv

LEMMA AttachBlockKeeps ==
  ASSUME IInv, NEW p \in Procs, AttachBlock(p)
  PROVE  IInv'
<1>1. /\ \/ names.block # 0 /\ pc[p] = "tryBlock" /\ pc'[p] = "tryDict"
         \/ pc[p] = "makeBlock" /\ pc'[p] = "makeDict"
      /\ pc' \in [Procs -> Places] /\ \A q \in Procs \ {p} : pc'[q] = pc[q]
      /\ OpenOrMake(p, "block") /\ UNCHANGED <<faults, mistaken, split, unclean>>
      /\ creator' \subseteq Procs
  BY DEF IInv, TypeOK, AttachBlock, Go, history, Places
<1>2. /\ \A q \in Procs \ {p} : hnd'[q] = hnd[q]
      /\ hnd'[p].lock = hnd[p].lock /\ hnd'[p].dict = hnd[p].dict /\ hnd'[p].slot = hnd[p].slot
      /\ hnd'[p].block = names'.block
      /\ names'.lock = names.lock /\ names'.dict = names.dict /\ names'.cond = names.cond
      /\ names.block # 0 => names'.block = names.block
      /\ names.block = 0 => names'.block = Len(store.block) + 1
  BY <1>1, OpenFacts DEF IInv, Kinds
<1>3. names'.block # 0
  BY <1>2 DEF IInv, TypeOK
<1>4. TypeOK' /\ store'.dict \in Seq(Dicts) /\ store'.dict = store.dict
  BY <1>1, TypeOpened
<1>5. Others(p)
  BY <1>1, <1>2 DEF Others
<1>6. HandleInv'
  BY <1>1, <1>2, <1>3, <1>5 DEF IInv, HandleInv, Others, Inside, BlockPlaces, EntryPlaces
<1>7. OwnSlotInv' /\ OrderlyInv'
  BY <1>1, <1>2, <1>4, <1>5, EntriesKept DEF Beats, EntryPlaces
<1>8. HolderInv'
  <2>1. ASSUME NEW q \in Procs, pc'[q] \in HoldingPlaces
        PROVE  pc[q] \in HoldingPlaces /\ Inside(q) /\ hnd'[q].lock = hnd[q].lock
    BY <1>1, <1>2, <1>5, <2>1 DEF Others, HoldingPlaces, Inside
  <2>2. \A q \in Procs : Inside(q) => store'.lock[hnd[q].lock] = Of(q, "lock")
    BY <1>1, LocksStay
  <2>3. QED
    BY <2>1, <2>2 DEF IInv, HolderInv, Of
<1>9. SameLockInv'
  BY <1>1, <1>2, <1>5 DEF IInv, SameLockInv, Others, Inside
<1>10. ASSUME ~Disturbed, names.block = 0
       PROVE  \A q \in Procs : pc[q] \notin BlockPlaces
  BY <1>10 DEF IInv, SharedInv, HandleInv
<1>11. SharedInv'
  BY <1>1, <1>2, <1>5, <1>10 DEF IInv, SharedInv, Disturbed, Others, BlockPlaces, EntryPlaces
<1>12. KeptInv'
  <2>1. SUFFICES ASSUME ~unclean', ~Disturbed'
                 PROVE  KeptInv'
    BY DEF KeptInv
  <2>2. ~unclean /\ ~Disturbed /\ (\A q \in Procs : pc[q] \in HoldingPlaces => q = p)
    BY <1>1, <2>1, Exclusion DEF Disturbed, HoldingPlaces
  <2>3. pc'[p] \in KeepingPlaces
    BY <1>1 DEF KeepingPlaces, BlockPlaces
  <2>4. names.block # 0 => names.dict # 0
    BY <1>1, <2>2 DEF IInv, KeptInv, HoldingPlaces
  <2>5. names'.dict = 0 => pc'[p] = "makeDict"
    BY <1>1, <1>2, <2>4
  <2>6. names.dict # 0 => names.cond # 0
    BY <1>1, <2>2 DEF IInv, KeptInv, HoldingPlaces
  <2>7. QED
    BY <1>2, <2>3, <2>5, <2>6 DEF KeptInv
<1>13. QED
  BY <1>4, <1>6, <1>7, <1>8, <1>9, <1>11, <1>12 DEF IInv

LEMMA AttachConditionKeeps ==
  ASSUME IInv, NEW p \in Procs, AttachCondition(p)
  PROVE  IInv'
<1>1. /\ \/ names.cond # 0 /\ pc[p] = "tryCond" /\ pc'[p] = "tryUnlock"
         \/ pc[p] = "makeCond" /\ pc'[p] = "makeUnlock"
      /\ pc' \in [Procs -> Places] /\ \A q \in Procs \ {p} : pc'[q] = pc[q]
      /\ OpenOrMake(p, "cond") /\ UNCHANGED <<creator, faults, mistaken, split, unclean>>
  BY DEF IInv, TypeOK, AttachCondition, Go, history, Places
<1>2. /\ \A q \in Procs \ {p} : hnd'[q] = hnd[q]
      /\ hnd'[p].lock = hnd[p].lock /\ hnd'[p].dict = hnd[p].dict /\ hnd'[p].slot = hnd[p].slot
      /\ hnd'[p].block = hnd[p].block
      /\ names'.lock = names.lock /\ names'.dict = names.dict /\ names'.block = names.block
      /\ names.cond # 0 => names'.cond = names.cond
      /\ names.cond = 0 => names'.cond = Len(store.cond) + 1
  BY <1>1, OpenFacts DEF IInv, Kinds
<1>3. names'.cond # 0
  BY <1>2 DEF IInv, TypeOK
<1>4. TypeOK' /\ store'.dict \in Seq(Dicts) /\ store'.dict = store.dict
  <2>1. creator' \subseteq Procs
    BY <1>1 DEF IInv, TypeOK
  <2>2. QED
    BY <1>1, <2>1, TypeOpened
<1>5. Others(p)
  BY <1>1, <1>2 DEF Others
<1>6. HandleInv'
  BY <1>1, <1>2, <1>3, <1>5 DEF IInv, HandleInv, Others, Inside, BlockPlaces, EntryPlaces
<1>7. OwnSlotInv' /\ OrderlyInv'
  BY <1>1, <1>2, <1>4, <1>5, EntriesKept DEF Beats, EntryPlaces
<1>8. HolderInv'
  <2>1. ASSUME NEW q \in Procs, pc'[q] \in HoldingPlaces
        PROVE  pc[q] \in HoldingPlaces /\ Inside(q) /\ hnd'[q].lock = hnd[q].lock
    BY <1>1, <1>2, <1>5, <2>1 DEF Others, HoldingPlaces, Inside
  <2>2. \A q \in Procs : Inside(q) => store'.lock[hnd[q].lock] = Of(q, "lock")
    BY <1>1, LocksStay
  <2>3. QED
    BY <2>1, <2>2 DEF IInv, HolderInv, Of
<1>9. SameLockInv'
  BY <1>1, <1>2, <1>5 DEF IInv, SameLockInv, Others, Inside
<1>10. ASSUME ~Disturbed
       PROVE  \A q \in Procs : pc[q] \notin {"unlinking", "unlinkBlock"}
  BY <1>1, <1>10 DEF IInv, SharedInv, EntryPlaces
<1>11. SharedInv'
  BY <1>1, <1>2, <1>5, <1>10 DEF IInv, SharedInv, Disturbed, Others, BlockPlaces, EntryPlaces
<1>12. KeptInv'
  BY <1>1, <1>2, <1>3, <1>5 DEF IInv, KeptInv, Disturbed, Others, KeepingPlaces, BlockPlaces, EntryPlaces
<1>13. QED
  BY <1>4, <1>6, <1>7, <1>8, <1>9, <1>11, <1>12 DEF IInv

-----------------------------------------------------------------------------
(* Steps that change entries *)

(* d has lost the entries of ps. *)
Popped(d, ps) ==
  \A e \in 1 .. Len(store.dict) :
    IF e # d THEN store'.dict[e] = store.dict[e]
    ELSE /\ DOMAIN store'.dict[e].slot = DOMAIN store.dict[e].slot \ ps
         /\ \A q \in DOMAIN store.dict[e].slot \ ps :
              store'.dict[e].slot[q] = store.dict[e].slot[q]

LEMMA EntriesPopped ==
  ASSUME IInv, NEW p \in Procs, Others(p), NEW d \in 1 .. Len(store.dict), NEW ps,
         Popped(d, ps), Len(store'.dict) = Len(store.dict),
         mistaken \subseteq mistaken', pc'[p] # "dead", ~unclean' => ~unclean,
         \A q \in Procs \ mistaken' :
           Beats(q)' => /\ Beats(q) /\ hnd'[q].dict = hnd[q].dict /\ hnd'[q].slot = hnd[q].slot
                        /\ q \in ps => hnd[q].dict # d,
         pc[p] \in EntryPlaces => \/ pc'[p] \in EntryPlaces /\ hnd'[p].dict = hnd[p].dict
                                  \/ p \in ps /\ hnd[p].dict = d
  PROVE  OwnSlotInv' /\ OrderlyInv'
<1>1. \A q \in Procs : Beats(q) => hnd[q].dict \in 1 .. Len(store.dict)
  <2>1. SUFFICES ASSUME NEW q \in Procs, Beats(q)
                 PROVE  hnd[q].dict \in 1 .. Len(store.dict)
    OBVIOUS
  <2>2. hnd[q].slot # 0 /\ pc[q] # "dead"
    BY <2>1 DEF Beats
  <2>3. Inside(q)
    BY <2>2, NoneFacts DEF IInv, HandleInv, Inside
  <2>4. hnd[q].dict # 0
    BY <2>2, <2>3 DEF IInv, HandleInv
  <2>5. hnd[q].dict \in Nat /\ hnd[q].dict <= Len(store.dict)
    BY DEF IInv, TypeOK, Kinds
  <2>6. QED
    BY <2>4, <2>5, LenFacts DEF IInv, Kinds
<1>2. OwnSlotInv'
  <2>1. SUFFICES ASSUME NEW q \in Procs \ mistaken', Beats(q)'
                 PROVE  /\ q \in DOMAIN store'.dict[hnd'[q].dict].slot
                        /\ store'.dict[hnd'[q].dict].slot[q] = hnd'[q].slot
    BY DEF OwnSlotInv, Of
  <2>2. /\ Beats(q) /\ hnd'[q].dict = hnd[q].dict /\ hnd'[q].slot = hnd[q].slot
        /\ q \in ps => hnd[q].dict # d
    BY <2>1
  <2>3. /\ q \in DOMAIN store.dict[hnd[q].dict].slot
        /\ store.dict[hnd[q].dict].slot[q] = hnd[q].slot
    BY <2>1, <2>2 DEF IInv, OwnSlotInv, Of
  <2>4. QED
    BY <1>1, <2>2, <2>3 DEF Popped
<1>3. ASSUME ~unclean'
      PROVE  /\ \A q \in Procs : pc'[q] # "dead"
             /\ \A e \in 1 .. Len(store'.dict) : \A q \in DOMAIN store'.dict[e].slot :
                  pc'[q] \in EntryPlaces /\ hnd'[q].dict = e
  <2>1. \A q \in Procs : pc'[q] # "dead"
    BY <1>3 DEF IInv, OrderlyInv, Others
  <2>2. SUFFICES ASSUME NEW e \in 1 .. Len(store.dict), NEW q \in DOMAIN store'.dict[e].slot
                 PROVE  pc'[q] \in EntryPlaces /\ hnd'[q].dict = e
    BY <2>1
  <2>3. q \in DOMAIN store.dict[e].slot /\ (e = d => q \notin ps)
    BY <2>2 DEF Popped
  <2>4. q \in Procs /\ pc[q] \in EntryPlaces /\ hnd[q].dict = e
    BY <1>3, <2>3 DEF IInv, OrderlyInv, TypeOK
  <2>5. QED
    BY <2>3, <2>4 DEF Others
<1>4. QED
  BY <1>2, <1>3 DEF OrderlyInv

LEMMA DictIndex ==
  ASSUME IInv, NEW p \in Procs, hnd[p].dict # 0
  PROVE  hnd[p].dict \in 1 .. Len(store.dict)
<1>1. hnd[p].dict \in Nat /\ hnd[p].dict <= Len(store.dict)
  BY DEF IInv, TypeOK, Kinds
<1>2. QED
  BY <1>1, LenFacts DEF IInv, Kinds

LEMMA StopKeepAliveKeeps ==
  ASSUME IInv, NEW p \in Procs, StopKeepAlive(p)
  PROVE  IInv'
<1>1. /\ pc[p] = "stopping" /\ pc'[p] = "counting" /\ Others(p)
      /\ pc' = [pc EXCEPT ![p] = "counting"] /\ hnd' = [hnd EXCEPT ![p].slot = 0]
      /\ UNCHANGED <<names, creator, faults, mistaken, split, unclean>> /\ Unregister(p)
  BY DEF IInv, TypeOK, StopKeepAlive, Go, Others, history
<1>2. /\ hnd'[p].lock = hnd[p].lock /\ hnd'[p].block = hnd[p].block
      /\ hnd'[p].dict = hnd[p].dict /\ hnd'[p].slot = 0
  BY <1>1 DEF IInv, TypeOK, Kinds
<1> DEFINE d == hnd[p].dict
<1>3. d \in 1 .. Len(store.dict)
  BY <1>1, DictIndex DEF IInv, HandleInv, EntryPlaces
<1>4. /\ DOMAIN store' = Kinds
      /\ store'.dict = [store.dict EXCEPT ![d] = Pop(store.dict[d], {p})]
      /\ store'.lock = store.lock /\ store'.block = store.block /\ store'.cond = store.cond
  BY <1>1, UnregisterFacts DEF IInv
<1>5. store.lock \in Seq(Procs \cup {Nobody})
  BY DEF IInv, TypeOK
<1> HIDE DEF d
<1>6. StoreType(store') /\ SameLengths(store, store') /\ Popped(d, {p})
  BY <1>3, <1>4, <1>5, StorePopped DEF Popped
<1>7. TypeOK' /\ store'.dict \in Seq(Dicts)
  <2>1. "counting" \in Places
    BY DEF Places
  <2>2. mistaken' \subseteq Procs /\ faults' \in 0 .. MaxFaults
        /\ split' \in BOOLEAN /\ unclean' \in BOOLEAN
    BY <1>1 DEF IInv, TypeOK
  <2>3. QED
    BY <1>1, <1>6, <2>1, <2>2, TypeClosed
<1>8. HandleInv'
  BY <1>1, <1>2 DEF IInv, HandleInv, Others, Inside, BlockPlaces, EntryPlaces
<1>9. OwnSlotInv' /\ OrderlyInv'
  <2>1. Len(store'.dict) = Len(store.dict)
    BY <1>6 DEF SameLengths, Kinds
  <2>2. \A q \in Procs \ mistaken' :
           Beats(q)' => /\ Beats(q) /\ hnd'[q].dict = hnd[q].dict /\ hnd'[q].slot = hnd[q].slot
                        /\ q \in {p} => hnd[q].dict # d
    BY <1>1, <1>2 DEF Beats, Others
  <2>3. QED
    BY <1>1, <1>3, <1>6, <2>1, <2>2, EntriesPopped DEF d
<1>10. HolderInv'
  BY <1>1, <1>2, <1>4, LockKept DEF Others, HoldingPlaces
<1>11. SameLockInv'
  BY <1>1, <1>2 DEF IInv, SameLockInv, Others, Inside
<1>12. SharedInv'
  BY <1>1, <1>2 DEF IInv, SharedInv, Disturbed, Others, BlockPlaces, EntryPlaces
<1>13. KeptInv'
  BY <1>1 DEF IInv, KeptInv, Disturbed, Others, KeepingPlaces, BlockPlaces, EntryPlaces
<1>14. QED
  BY <1>7, <1>8, <1>9, <1>10, <1>11, <1>12, <1>13 DEF IInv

LEMMA CleanupWithoutCoordinationKeeps ==
  ASSUME IInv, NEW p \in Procs, CleanupWithoutCoordination(p)
  PROVE  IInv'
<1>1. /\ pc[p] = "closing" /\ pc'[p] = "closed" /\ Others(p)
      /\ pc' = [pc EXCEPT ![p] = "closed"] /\ hnd' = [hnd EXCEPT ![p] = None]
      /\ hnd'[p] = None /\ unclean' = TRUE
      /\ UNCHANGED <<names, creator, faults, mistaken, split>> /\ Unregister(p)
  BY DEF IInv, TypeOK, CleanupWithoutCoordination, Go, Others
<1> DEFINE d == hnd[p].dict
<1>3. d \in 1 .. Len(store.dict)
  BY <1>1, DictIndex DEF IInv, HandleInv, EntryPlaces
<1>4. /\ DOMAIN store' = Kinds
      /\ store'.dict = [store.dict EXCEPT ![d] = Pop(store.dict[d], {p})]
      /\ store'.lock = store.lock /\ store'.block = store.block /\ store'.cond = store.cond
  BY <1>1, UnregisterFacts DEF IInv
<1>5. store.lock \in Seq(Procs \cup {Nobody})
  BY DEF IInv, TypeOK
<1> HIDE DEF d
<1>6. StoreType(store') /\ SameLengths(store, store') /\ Popped(d, {p})
  BY <1>3, <1>4, <1>5, StorePopped DEF Popped
<1>7. TypeOK' /\ store'.dict \in Seq(Dicts)
  <2>1. "closed" \in Places
    BY DEF Places
  <2>2. mistaken' \subseteq Procs /\ faults' \in 0 .. MaxFaults
        /\ split' \in BOOLEAN /\ unclean' \in BOOLEAN
    BY <1>1 DEF IInv, TypeOK
  <2>3. QED
    BY <1>1, <1>6, <2>1, <2>2, TypeClosed
<1>8. HandleInv'
  BY <1>1, NoneFacts DEF IInv, HandleInv, Others, Inside, BlockPlaces, EntryPlaces
<1>9. OwnSlotInv' /\ OrderlyInv'
  <2>1. Len(store'.dict) = Len(store.dict)
    BY <1>6 DEF SameLengths, Kinds
  <2>2. \A q \in Procs \ mistaken' :
           Beats(q)' => /\ Beats(q) /\ hnd'[q].dict = hnd[q].dict /\ hnd'[q].slot = hnd[q].slot
                        /\ q \in {p} => hnd[q].dict # d
    BY <1>1, NoneFacts DEF Beats, Others
  <2>3. QED
    BY <1>1, <1>3, <1>6, <2>1, <2>2, EntriesPopped DEF d
<1>10. HolderInv'
  BY <1>1, <1>4, LockKept DEF Others, HoldingPlaces
<1>11. SameLockInv'
  BY <1>1 DEF IInv, SameLockInv, Others, Inside
<1>12. SharedInv'
  BY <1>1 DEF IInv, SharedInv, Disturbed, Others, BlockPlaces, EntryPlaces
<1>13. KeptInv'
  BY <1>1 DEF KeptInv
<1>14. QED
  BY <1>7, <1>8, <1>9, <1>10, <1>11, <1>12, <1>13 DEF IInv

LEMMA MissingKeeps ==
  ASSUME IInv, NEW p \in Procs, Missing(p)
  PROVE  IInv'
<1>1. /\ pc[p] \in {"tryBlock", "tryDict", "tryCond"} /\ pc'[p] = "missing" /\ Others(p)
      /\ pc' = [pc EXCEPT ![p] = "missing"] /\ hnd' = [hnd EXCEPT ![p] = None]
      /\ hnd'[p] = None
      /\ UNCHANGED <<names, creator, faults, mistaken, split, unclean>>
      /\ pc[p] = "tryBlock" => names.block = 0
      /\ pc[p] = "tryDict" => names.dict = 0
      /\ pc[p] = "tryCond" => names.cond = 0
  BY DEF IInv, TypeOK, Missing, Others, history
<1> DEFINE d == hnd[p].dict
<1>2. /\ DOMAIN store' = Kinds
      /\ store'.lock = [store.lock EXCEPT ![hnd[p].lock] = Nobody]
      /\ store'.block = store.block /\ store'.cond = store.cond
      /\ d = 0 => store'.dict = store.dict
      /\ d # 0 => store'.dict = [store.dict EXCEPT ![d] = Pop(store.dict[d], {p})]
  BY DEF IInv, TypeOK, Missing, Kinds
<1>3. store'.lock \in Seq(Procs \cup {Nobody}) /\ Len(store'.lock) = Len(store.lock)
  <2> DEFINE S == Procs \cup {Nobody}
             s == store.lock
             i == hnd[p].lock
  <2>1. s \in Seq(S) /\ Nobody \in S /\ store'.lock = [s EXCEPT ![i] = Nobody]
    BY <1>2 DEF IInv, TypeOK
  <2> HIDE DEF S, s, i
  <2>2. store'.lock \in Seq(S) /\ Len(store'.lock) = Len(s)
    BY <2>1, SeqSet
  <2>3. QED
    BY <2>2 DEF S, s
<1>4. d # 0 => d \in 1 .. Len(store.dict)
  BY DictIndex
<1> HIDE DEF d
<1>5. /\ StoreType(store') /\ SameLengths(store, store')
      /\ d # 0 => Popped(d, {p})
  <2>1. CASE d = 0
    <3>1. StoreType(store)
      BY StoreTyped
    <3>2. QED
      BY <1>2, <1>3, <2>1, <3>1 DEF StoreType, SameLengths, Kinds
  <2>2. CASE d # 0
    BY <1>2, <1>3, <1>4, <2>2, StorePopped DEF Popped
  <2>3. QED
    BY <2>1, <2>2
<1>6. TypeOK' /\ store'.dict \in Seq(Dicts)
  <2>1. "missing" \in Places
    BY DEF Places
  <2>2. mistaken' \subseteq Procs /\ faults' \in 0 .. MaxFaults
        /\ split' \in BOOLEAN /\ unclean' \in BOOLEAN
    BY <1>1 DEF IInv, TypeOK
  <2>3. QED
    BY <1>1, <1>5, <2>1, <2>2, TypeClosed
<1>7. HandleInv'
  BY <1>1, NoneFacts DEF IInv, HandleInv, Others, Inside, BlockPlaces, EntryPlaces
<1>8. OwnSlotInv' /\ OrderlyInv'
  <2>1. CASE d = 0
    <3>1. pc[p] \notin EntryPlaces
      BY <2>1 DEF IInv, HandleInv, d
    <3>2. QED
      BY <1>1, <1>2, <2>1, <3>1, NoneFacts, EntriesKept DEF Beats
  <2>2. CASE d # 0
    <3>1. Len(store'.dict) = Len(store.dict)
      BY <1>5 DEF SameLengths, Kinds
    <3>2. \A q \in Procs \ mistaken' :
             Beats(q)' => /\ Beats(q) /\ hnd'[q].dict = hnd[q].dict /\ hnd'[q].slot = hnd[q].slot
                          /\ q \in {p} => hnd[q].dict # d
      BY <1>1, NoneFacts DEF Beats, Others
    <3>3. QED
      BY <1>1, <1>4, <1>5, <2>2, <3>1, <3>2, EntriesPopped DEF d
  <2>3. QED
    BY <2>1, <2>2
<1>9. HolderInv'
  BY <1>1, <1>2, LockReleased DEF Others, HoldingPlaces
<1>10. SameLockInv'
  BY <1>1 DEF IInv, SameLockInv, Others, Inside
<1>11. SharedInv'
  BY <1>1 DEF IInv, SharedInv, Disturbed, Others, BlockPlaces, EntryPlaces
<1>12. KeptInv'
  <2>1. SUFFICES ASSUME ~unclean', ~Disturbed'
                 PROVE  KeptInv'
    BY DEF KeptInv
  <2>2. ~unclean /\ ~Disturbed /\ (\A q \in Procs : pc[q] \in HoldingPlaces => q = p)
    BY <1>1, <2>1, Exclusion DEF Disturbed, HoldingPlaces
  <2>3. pc[p] = "tryBlock"
    <3>1. pc[p] = "tryDict" => names.dict = 0 /\ names.block # 0
      BY <1>1, <2>2 DEF IInv, SharedInv, HandleInv, BlockPlaces
    <3>2. pc[p] = "tryCond" => names.cond = 0 /\ names.dict # 0
      BY <1>1, <2>2 DEF IInv, SharedInv, HandleInv, EntryPlaces
    <3>3. QED
      BY <1>1, <2>2, <3>1, <3>2 DEF IInv, KeptInv, HoldingPlaces
  <2>4. names.block = 0 /\ names.dict = 0
    BY <1>1, <2>2, <2>3 DEF IInv, SharedInv
  <2>5. QED
    BY <1>1, <2>4 DEF KeptInv
<1>13. QED
  BY <1>6, <1>7, <1>8, <1>9, <1>10, <1>11, <1>12 DEF IInv

LEMMA AnyProcessAliveKeeps ==
  ASSUME IInv, NEW p \in Procs, AnyProcessAlive(p)
  PROVE  IInv'
<1> DEFINE d  == hnd[p].dict
           ps == Late(store.dict[d])
<1>1. /\ pc[p] = "counting" /\ pc'[p] = IF AllLate(store.dict[d]) THEN "unlinking" ELSE "leaving"
      /\ \A q \in Procs \ {p} : pc'[q] = pc[q]
      /\ pc' = [pc EXCEPT ![p] = pc'[p]]
      /\ mistaken' = mistaken \cup Alive(ps)
      /\ UNCHANGED <<names, hnd, creator, faults, split, unclean>>
  BY DEF IInv, TypeOK, AnyProcessAlive, Of
<1>2. d \in 1 .. Len(store.dict)
  BY <1>1, DictIndex DEF IInv, HandleInv
<1>3. /\ DOMAIN store' = Kinds
      /\ store'.dict = [store.dict EXCEPT ![d] = Pop(store.dict[d], ps)]
      /\ store'.lock = store.lock /\ store'.block = store.block /\ store'.cond = store.cond
  BY DEF IInv, TypeOK, AnyProcessAlive, Kinds
<1>4. store.lock \in Seq(Procs \cup {Nobody}) /\ DOMAIN store.dict[d].slot \subseteq Procs
  BY <1>2 DEF IInv, TypeOK
<1>5. ps \subseteq DOMAIN store.dict[d].slot
  BY DEF Late
<1> HIDE DEF d, ps
<1>6. StoreType(store') /\ SameLengths(store, store') /\ Popped(d, ps)
  BY <1>2, <1>3, <1>4, StorePopped DEF Popped
<1>7. Others(p)
  BY <1>1 DEF Others
<1>8. pc'[p] \in {"unlinking", "leaving"}
  BY <1>1
<1>9. TypeOK' /\ store'.dict \in Seq(Dicts)
  <2>1. pc'[p] \in Places
    BY <1>8 DEF Places
  <2>2. Alive(ps) \subseteq Procs
    BY <1>4, <1>5 DEF Alive
  <2>3. mistaken' \subseteq Procs /\ faults' \in 0 .. MaxFaults
        /\ split' \in BOOLEAN /\ unclean' \in BOOLEAN
    BY <1>1, <2>2 DEF IInv, TypeOK
  <2>4. QED
    BY <1>1, <1>6, <2>1, <2>3, TypeClosed
<1>10. HandleInv'
  BY <1>1, <1>7, <1>8 DEF IInv, HandleInv, Others, Inside, BlockPlaces, EntryPlaces
<1>11. OwnSlotInv' /\ OrderlyInv'
  <2>1. Len(store'.dict) = Len(store.dict)
    BY <1>6 DEF SameLengths, Kinds
  <2>2. \A q \in Procs : Beats(q)' => Beats(q) /\ pc[q] # "dead"
    BY <1>1, <1>7 DEF Beats, Others
  <2>3. \A q \in Procs \ mistaken' :
           Beats(q)' => /\ Beats(q) /\ hnd'[q].dict = hnd[q].dict /\ hnd'[q].slot = hnd[q].slot
                        /\ q \in ps => hnd[q].dict # d
    BY <1>1, <2>2 DEF Alive
  <2>4. pc[p] \notin EntryPlaces /\ pc'[p] # "dead"
    BY <1>1, <1>8 DEF EntryPlaces
  <2>5. QED
    BY <1>1, <1>2, <1>6, <1>7, <2>1, <2>3, <2>4, EntriesPopped
<1>12. HolderInv'
  BY <1>1, <1>3, <1>7, LockKept DEF Others, HoldingPlaces
<1>13. SameLockInv'
  BY <1>1, <1>7, <1>8 DEF IInv, SameLockInv, Others, Inside
<1>14. ASSUME ~Disturbed', AllLate(store.dict[d]), NEW q \in Procs, pc[q] \in EntryPlaces
       PROVE  FALSE
  <2>1. ~Disturbed /\ mistaken = {} /\ Alive(ps) = {}
    BY <1>1, <1>14 DEF Disturbed
  <2>2. hnd[q].dict = d
    BY <1>1, <1>14, <2>1 DEF IInv, SharedInv, d
  <2>3. Beats(q)
    BY <1>14 DEF IInv, HandleInv, Beats, Inside, EntryPlaces
  <2>4. q \in DOMAIN store.dict[d].slot
    BY <2>1, <2>2, <2>3 DEF IInv, OwnSlotInv, Of
  <2>5. q \in ps
    BY <1>14, <2>4 DEF AllLate, ps
  <2>6. QED
    BY <2>1, <2>3, <2>5 DEF Alive, Beats
<1>15. SharedInv'
  <2>1. SUFFICES ASSUME ~Disturbed'
                 PROVE  SharedInv'
    BY DEF SharedInv
  <2>2. ~Disturbed
    BY <1>1, <2>1 DEF Disturbed
  <2>3. pc'[p] = "unlinking" => \A q \in Procs : pc[q] \notin EntryPlaces
    BY <1>1, <1>14, <2>1
  <2>4. QED
    BY <1>1, <1>7, <1>8, <2>1, <2>2, <2>3 DEF IInv, SharedInv, Others, BlockPlaces, EntryPlaces
<1>16. KeptInv'
  <2>1. SUFFICES ASSUME ~unclean', ~Disturbed'
                 PROVE  KeptInv'
    BY DEF KeptInv
  <2>2. ~unclean /\ ~Disturbed
    BY <1>1, <2>1 DEF Disturbed
  <2>3. \E q \in Procs : pc'[q] \in KeepingPlaces
    <3>1. CASE AllLate(store.dict[d])
      BY <1>1, <3>1 DEF KeepingPlaces
    <3>2. CASE ~AllLate(store.dict[d])
      <4>1. PICK q \in DOMAIN store.dict[d].slot : TRUE
        BY <3>2 DEF AllLate, Late
      <4>2. q \in Procs /\ pc[q] \in EntryPlaces
        BY <1>2, <1>4, <2>2 DEF IInv, OrderlyInv
      <4>3. q # p
        BY <1>1, <4>2 DEF EntryPlaces
      <4>4. QED
        BY <1>1, <4>2, <4>3 DEF KeepingPlaces, BlockPlaces
    <3>3. QED
      BY <3>1, <3>2
  <2>4. QED
    BY <1>1, <1>8, <2>2, <2>3 DEF IInv, KeptInv
<1>17. QED
  BY <1>9, <1>10, <1>11, <1>12, <1>13, <1>15, <1>16 DEF IInv

LEMMA IsCreatorAliveKeeps ==
  ASSUME IInv, NEW p \in Procs, IsCreatorAlive(p)
  PROVE  IInv'
<1> DEFINE d == hnd[p].dict
<1>1. PICK c \in creator \cap Late(Of(p, "dict")) :
        /\ store' = [store EXCEPT !.dict[hnd[p].dict] = Pop(@, {c})]
        /\ mistaken' = mistaken \cup Alive({c})
  BY DEF IsCreatorAlive
<1>2. pc[p] = "waiting" /\ UNCHANGED <<pc, names, hnd, creator, faults, split, unclean>>
  BY DEF IsCreatorAlive
<1>3. d \in 1 .. Len(store.dict)
  BY <1>2, DictIndex DEF IInv, HandleInv, EntryPlaces
<1>4. /\ DOMAIN store' = Kinds
      /\ store'.dict = [store.dict EXCEPT ![d] = Pop(store.dict[d], {c})]
      /\ store'.lock = store.lock /\ store'.block = store.block /\ store'.cond = store.cond
  BY <1>1 DEF IInv, TypeOK, Kinds
<1>5. store.lock \in Seq(Procs \cup {Nobody}) /\ c \in Procs
  BY DEF IInv, TypeOK
<1> HIDE DEF d
<1>6. StoreType(store') /\ SameLengths(store, store') /\ Popped(d, {c})
  BY <1>3, <1>4, <1>5, StorePopped DEF Popped
<1>7. Others(p)
  BY <1>2 DEF Others
<1>8. TypeOK' /\ store'.dict \in Seq(Dicts)
  <2>1. pc' = [pc EXCEPT ![p] = "waiting"] /\ "waiting" \in Places
    BY <1>2 DEF IInv, TypeOK, Places
  <2>2. mistaken' \subseteq Procs /\ faults' \in 0 .. MaxFaults
        /\ split' \in BOOLEAN /\ unclean' \in BOOLEAN
    BY <1>1, <1>2, <1>5 DEF IInv, TypeOK, Alive
  <2>3. QED
    BY <1>2, <1>6, <2>1, <2>2, TypeClosed
<1>9. OwnSlotInv' /\ OrderlyInv'
  <2>1. Len(store'.dict) = Len(store.dict)
    BY <1>6 DEF SameLengths, Kinds
  <2>2. \A q \in Procs \ mistaken' :
           Beats(q)' => /\ Beats(q) /\ hnd'[q].dict = hnd[q].dict /\ hnd'[q].slot = hnd[q].slot
                        /\ q \in {c} => hnd[q].dict # d
    BY <1>1, <1>2 DEF Beats, Alive
  <2>3. pc'[p] # "dead" /\ (pc'[p] \in EntryPlaces <=> pc[p] \in EntryPlaces)
        /\ mistaken \subseteq mistaken' /\ hnd'[p].dict = hnd[p].dict
    BY <1>1, <1>2
  <2>4. QED
    BY <1>2, <1>3, <1>6, <1>7, <2>1, <2>2, <2>3, EntriesPopped
<1>10. (HandleInv /\ SameLockInv)'
  BY <1>2 DEF IInv, HandleInv, SameLockInv, Inside
<1>11. HolderInv'
  BY <1>2, <1>4, LockKept
<1>12. ~Disturbed' => ~Disturbed
  BY <1>1, <1>2 DEF Disturbed
<1>13. SharedInv' /\ KeptInv'
  BY <1>2, <1>12 DEF IInv, SharedInv, KeptInv
<1>14. QED
  BY <1>8, <1>9, <1>10, <1>11, <1>13 DEF IInv

LEMMA DieKeeps ==
  ASSUME IInv, NEW p \in Procs, Die(p)
  PROVE  IInv'
<1> DEFINE x == IF Of(p, "lock") = p THEN Nobody ELSE Of(p, "lock")
<1>1. /\ Inside(p) /\ pc' = [pc EXCEPT ![p] = "dead"] /\ unclean' = TRUE
      /\ UNCHANGED <<names, hnd, creator, mistaken, split>>
      /\ faults < MaxFaults /\ faults' = faults + 1
      /\ pc'[p] = "dead" /\ Others(p)
  BY DEF IInv, TypeOK, Die, Fault, Others
<1>2. Locked(p, x)
  BY DEF Die, Locked, Of
<1>3. x \in Procs \cup {Nobody}
  <2> DEFINE s == store.lock
             i == hnd[p].lock
  <2>1. i \in 1 .. Len(s) /\ s \in Seq(Procs \cup {Nobody})
    BY <1>1, LockIndex DEF IInv, TypeOK
  <2>2. s[i] \in Procs \cup {Nobody}
    <3> HIDE DEF s, i
    <3>1. QED
      BY <2>1
  <2>3. QED
    BY <2>2 DEF Of
<1>4. StoreType(store') /\ SameLengths(store, store')
  <2> HIDE DEF x
  <2>1. QED
    BY <1>2, <1>3, StoreLocked
<1>5. store'.dict = store.dict
  <2> HIDE DEF x
  <2>1. QED
    BY <1>2, LockedFacts DEF IInv
<1>6. TypeOK' /\ store'.dict \in Seq(Dicts)
  <2>1. "dead" \in Places
    BY DEF Places
  <2>2. mistaken' \subseteq Procs /\ faults' \in 0 .. MaxFaults
        /\ split' \in BOOLEAN /\ unclean' \in BOOLEAN
    BY <1>1, ProcsAssumption DEF IInv, TypeOK
  <2>3. QED
    BY <1>1, <1>4, <2>1, <2>2, TypeClosed
<1>7. HandleInv'
  BY <1>1 DEF IInv, HandleInv, Others, Inside, BlockPlaces, EntryPlaces
<1>8. OwnSlotInv'
  BY <1>1, <1>5 DEF IInv, OwnSlotInv, Beats, Others, Of
<1>9. OrderlyInv' /\ KeptInv'
  BY <1>1 DEF OrderlyInv, KeptInv
<1>10. HolderInv'
  <2>1. ASSUME NEW q \in Procs, pc'[q] \in HoldingPlaces
        PROVE  q # p /\ Inside(q) /\ Of(q, "lock") = q /\ hnd'[q] = hnd[q]
    BY <1>1, <2>1 DEF IInv, HolderInv, Others, HoldingPlaces, Inside
  <2>2. \A q \in Procs : Inside(q) =>
           store'.lock[hnd[q].lock] = IF hnd[q].lock = hnd[p].lock THEN x ELSE Of(q, "lock")
    <3> HIDE DEF x
    <3>1. QED
      BY <1>1, <1>2, <1>3, LockedAt
  <2>3. \A q \in Procs : hnd[q].lock = hnd[p].lock => Of(q, "lock") = Of(p, "lock")
    BY DEF Of
  <2>4. ASSUME NEW q \in Procs, pc'[q] \in HoldingPlaces
        PROVE  store'.lock[hnd'[q].lock] = q
    <3>1. q # p /\ Inside(q) /\ Of(q, "lock") = q /\ hnd'[q] = hnd[q]
      BY <2>1, <2>4
    <3>2. CASE hnd[q].lock = hnd[p].lock
      <4>1. Of(p, "lock") = q
        BY <2>3, <3>1, <3>2
      <4>2. store'.lock[hnd[q].lock] = x /\ x = q
        BY <2>2, <3>1, <3>2, <4>1
      <4>3. QED
        BY <3>1, <4>2
    <3>3. CASE hnd[q].lock # hnd[p].lock
      <4>1. store'.lock[hnd[q].lock] = Of(q, "lock")
        BY <2>2, <3>1, <3>3
      <4>2. QED
        BY <3>1, <4>1
    <3>4. QED
      BY <3>2, <3>3
  <2>5. QED
    BY <2>4 DEF HolderInv, Of
<1>11. SameLockInv'
  BY <1>1 DEF IInv, SameLockInv, Others, Inside
<1>12. SharedInv'
  BY <1>1 DEF IInv, SharedInv, Disturbed, Others, BlockPlaces, EntryPlaces
<1>13. QED
  BY <1>6, <1>7, <1>8, <1>9, <1>10, <1>11, <1>12 DEF IInv

(* A heartbeat, or none for too long: only the stale slots change. *)
LEMMA StaleKeeps ==
  ASSUME IInv, NEW p \in Procs,
         UNCHANGED <<pc, names, hnd, creator, mistaken, split, unclean>>,
         faults' \in 0 .. MaxFaults, NEW d \in 1 .. Len(store.dict),
         NEW T, T \subseteq Range(store.dict[d].slot),
         store' = [store EXCEPT !.dict[d].stale = T]
  PROVE  IInv'
<1> DEFINE x == [slot |-> store.dict[d].slot, stale |-> T]
<1>1. StoreType(store)
  BY StoreTyped
<1>2. store.dict[d] \in Dicts
  BY <1>1 DEF StoreType
<1>3. x \in Dicts
  <2>1. \A q \in DOMAIN store.dict[d].slot : store.dict[d].slot[q] \in Nat
    BY <1>2, DictFacts
  <2>2. T \subseteq Nat
    BY <2>1 DEF Range
  <2>3. QED
    BY <1>2, <2>2 DEF Dicts
<1>4. /\ DOMAIN store' = Kinds /\ store'.dict = [store.dict EXCEPT ![d] = x]
      /\ store'.lock = store.lock /\ store'.block = store.block /\ store'.cond = store.cond
  <2>1. [store.dict[d] EXCEPT !.stale = T] = x
    BY <1>2 DEF Dicts
  <2>2. DOMAIN store = Kinds
    BY <1>1 DEF StoreType
  <2>3. store' = [store EXCEPT !.dict = [store.dict EXCEPT ![d] =
                                           [store.dict[d] EXCEPT !.stale = T]]]
    OBVIOUS
  <2> HIDE DEF x
  <2>4. QED
    BY <2>1, <2>2, <2>3 DEF Kinds
<1>5. /\ store'.dict \in Seq(Dicts) /\ Len(store'.dict) = Len(store.dict)
      /\ \A e \in 1 .. Len(store.dict) :
           store'.dict[e] = IF e = d THEN x ELSE store.dict[e]
  <2> HIDE DEF x
  <2>1. store.dict \in Seq(Dicts)
    BY <1>1 DEF StoreType
  <2>2. /\ [store.dict EXCEPT ![d] = x] \in Seq(Dicts)
        /\ Len([store.dict EXCEPT ![d] = x]) = Len(store.dict)
        /\ \A e \in 1 .. Len(store.dict) :
             [store.dict EXCEPT ![d] = x][e] = IF e = d THEN x ELSE store.dict[e]
    BY <1>3, <2>1, SeqSet
  <2>3. QED
    BY <1>4, <2>2
<1>6. \A e \in 1 .. Len(store.dict) : store'.dict[e].slot = store.dict[e].slot
  BY <1>5
<1>7. StoreType(store') /\ SameLengths(store, store')
  BY <1>1, <1>4, <1>5 DEF StoreType, SameLengths, Kinds
<1>8. TypeOK' /\ store'.dict \in Seq(Dicts)
  <2>1. /\ pc' \in [Procs -> Places] /\ names' \in [Kinds -> Nat] /\ hnd' \in [Procs -> HandleType]
        /\ mistaken' \subseteq Procs /\ split' \in BOOLEAN /\ unclean' \in BOOLEAN
    BY DEF IInv, TypeOK, HandleType
  <2>2. /\ \A k \in Kinds : names'[k] \in {0, names[k]}
        /\ \A q \in Procs, k \in Kinds : hnd'[q][k] \in {0, hnd[q][k]}
    OBVIOUS
  <2>3. QED
    BY <1>7, <2>1, <2>2, TypeKept
<1>9. (HandleInv /\ SameLockInv)'
  BY DEF IInv, HandleInv, SameLockInv, Inside
<1>10. HolderInv'
  BY <1>4, LockKept
<1>11. SharedInv' /\ KeptInv'
  BY DEF IInv, SharedInv, KeptInv, Disturbed
<1>12. OwnSlotInv'
  <2>1. SUFFICES ASSUME NEW q \in Procs \ mistaken, Beats(q)
                 PROVE  /\ q \in DOMAIN store'.dict[hnd[q].dict].slot
                        /\ store'.dict[hnd[q].dict].slot[q] = hnd[q].slot
    BY DEF OwnSlotInv, Of, Beats
  <2>2. hnd[q].dict \in 1 .. Len(store.dict)
    <3>1. hnd[q].slot # 0 /\ pc[q] # "dead"
      BY <2>1 DEF Beats
    <3>2. hnd[q].dict # 0
      BY <3>1, NoneFacts DEF IInv, HandleInv, Inside
    <3>3. QED
      BY <3>2, DictIndex
  <2>3. QED
    BY <1>6, <2>1, <2>2 DEF IInv, OwnSlotInv, Of
<1>13. OrderlyInv'
  BY <1>5, <1>6 DEF IInv, OrderlyInv
<1>14. QED
  BY <1>8, <1>9, <1>10, <1>11, <1>12, <1>13 DEF IInv

LEMMA LapseKeeps ==
  ASSUME IInv, NEW p \in Procs, Lapse(p)
  PROVE  IInv'
<1>1. PICK d \in 1 .. Len(store.dict) :
        /\ p \in DOMAIN store.dict[d].slot \ Late(store.dict[d])
        /\ UNCHANGED faults \/ Fault
        /\ store' = [store EXCEPT !.dict[d].stale = @ \cup {store.dict[d].slot[p]}]
        /\ UNCHANGED <<pc, names, hnd, creator, history>>
  BY DEF Lapse
<1>2. faults' \in 0 .. MaxFaults
  BY <1>1, ProcsAssumption DEF IInv, TypeOK, Fault
<1> DEFINE T == store.dict[d].stale \cup {store.dict[d].slot[p]}
<1>3. T \subseteq Range(store.dict[d].slot)
  BY <1>1 DEF IInv, TypeOK, Range
<1>4. store' = [store EXCEPT !.dict[d].stale = T]
  BY <1>1
<1> HIDE DEF T
<1>5. QED
  BY <1>1, <1>2, <1>3, <1>4, StaleKeeps DEF history

LEMMA BeatKeeps ==
  ASSUME IInv, NEW p \in Procs, Beat(p)
  PROVE  IInv'
<1> DEFINE d == hnd[p].dict
           T == store.dict[d].stale \ {hnd[p].slot}
<1>1. /\ Beats(p) /\ UNCHANGED <<pc, names, hnd, creator, faults, history>>
      /\ store' = [store EXCEPT !.dict[d].stale = T]
  BY DEF Beat
<1>2. d \in 1 .. Len(store.dict)
  <2>1. hnd[p].slot # 0 /\ pc[p] # "dead"
    BY <1>1 DEF Beats
  <2>2. hnd[p].dict # 0
    BY <2>1, NoneFacts DEF IInv, HandleInv, Inside
  <2>3. QED
    BY <2>2, DictIndex
<1>3. T \subseteq Range(store.dict[d].slot) /\ faults' \in 0 .. MaxFaults
  BY <1>1, <1>2 DEF IInv, TypeOK
<1> HIDE DEF d, T
<1>4. QED
  BY <1>1, <1>2, <1>3, StaleKeeps DEF history

LEMMA RegisterKeeps ==
  ASSUME IInv, NEW p \in Procs, Register(p)
  PROVE  IInv'
<1> DEFINE n    == Len(store.dict)
           made == n + 1
           d    == IF names.dict = 0 THEN made ELSE names.dict
           old  == IF names.dict = 0 THEN New.dict ELSE store.dict[d]
           new  == Registered(old, p)
           s    == PrepareSlot(old, p)
<1>1. /\ \/ names.dict # 0 /\ pc[p] = "tryDict" /\ pc'[p] = "tryCond"
         \/ pc[p] = "makeDict" /\ pc'[p] = "makeCond"
      /\ pc' = [pc EXCEPT ![p] = pc'[p]] /\ \A q \in Procs \ {p} : pc'[q] = pc[q]
      /\ UNCHANGED <<creator, faults, mistaken, split, unclean>>
  BY DEF IInv, TypeOK, Register, Go, history
<1>2. /\ names' = [names EXCEPT !.dict = d]
      /\ hnd' = [hnd EXCEPT ![p].dict = d, ![p].slot = s]
      /\ store' = [store EXCEPT !.dict =
                     IF d = made THEN Append(@, new) ELSE [store.dict EXCEPT ![d] = Registered(@, p)]]
  BY DEF Register
<1>3. n \in Nat /\ names.dict \in Nat /\ names.dict <= n /\ store.dict \in Seq(Dicts)
  BY LenFacts DEF IInv, TypeOK, Kinds
<1>4. d \in 1 .. made /\ (d = made <=> names.dict = 0) /\ d # 0 /\ d \in Nat
  BY <1>3
<1>5. old \in Dicts
  <2>1. CASE names.dict = 0
    BY <2>1, NewDict
  <2>2. CASE names.dict # 0
    BY <1>3, <2>2
  <2>3. QED
    BY <2>1, <2>2
<1>6. /\ new \in Dicts /\ s \in Nat \ {0}
      /\ DOMAIN new.slot = DOMAIN old.slot \cup {p} /\ new.slot[p] = s
      /\ \A q \in DOMAIN old.slot \ {p} : new.slot[q] = old.slot[q]
  <2> HIDE DEF old
  <2>1. QED
    BY <1>5, RegisteredFacts, PrepareSlotFacts
<1>7. /\ DOMAIN store' = Kinds
      /\ store'.lock = store.lock /\ store'.block = store.block /\ store'.cond = store.cond
      /\ store'.dict = IF d = made THEN Append(store.dict, new) ELSE [store.dict EXCEPT ![d] = new]
  <2>1. d # made => Registered(store.dict[d], p) = new
    BY <1>4
  <2>2. DOMAIN store = Kinds
    BY DEF IInv, TypeOK
  <2> HIDE DEF d, new, made
  <2>3. QED
    BY <1>2, <2>1, <2>2 DEF Kinds
<1>8. /\ names'.dict = d /\ names'.lock = names.lock /\ names'.block = names.block
      /\ names'.cond = names.cond /\ names' \in [Kinds -> Nat]
  <2>1. names \in [Kinds -> Nat] /\ d \in Nat
    BY <1>4 DEF IInv, TypeOK
  <2> HIDE DEF d
  <2>2. QED
    BY <1>2, <2>1 DEF Kinds
<1>9. /\ \A q \in Procs \ {p} : hnd'[q] = hnd[q]
      /\ hnd'[p].dict = d /\ hnd'[p].slot = s
      /\ hnd'[p].lock = hnd[p].lock /\ hnd'[p].block = hnd[p].block /\ hnd'[p].cond = hnd[p].cond
      /\ hnd' \in [Procs -> HandleType]
  <2>1. d \in Nat /\ s \in Nat /\ hnd \in [Procs -> HandleType]
    <3>1. hnd \in [Procs -> HandleType]
      BY DEF IInv, TypeOK, HandleType
    <3> HIDE DEF d, s
    <3>2. QED
      BY <1>4, <1>6, <3>1
  <2> HIDE DEF d, s
  <2>2. QED
    BY <1>2, <2>1 DEF HandleType, Kinds
<1> HIDE DEF old, new, s
<1>10. /\ store'.dict \in Seq(Dicts) /\ Len(store'.dict) \in Nat
       /\ Len(store'.dict) = IF d = made THEN n + 1 ELSE n
       /\ d \in 1 .. Len(store'.dict) /\ store'.dict[d] = new
       /\ \A e \in 1 .. n : e # d => store'.dict[e] = store.dict[e]
  <2>1. CASE d = made
    <3>1. store'.dict = Append(store.dict, new)
      BY <1>7, <2>1
    <3>2. QED
      BY <1>3, <1>6, <2>1, <3>1
  <2>2. CASE d # made
    <3>1. store'.dict = [store.dict EXCEPT ![d] = new]
      BY <1>7, <2>2
    <3>2. d \in 1 .. n
      BY <1>3, <1>4, <2>2
    <3> HIDE DEF d, made
    <3>3. QED
      BY <1>3, <1>6, <2>2, <3>1, <3>2, SeqSet
  <2>3. QED
    BY <2>1, <2>2
<1>11. DOMAIN old.slot = IF d = made THEN {} ELSE DOMAIN store.dict[d].slot
  BY <1>4, NewDict DEF old
<1>12. d # made => old = store.dict[d]
  BY <1>4 DEF old
<1>13. names.dict # 0 => d = names.dict
  OBVIOUS
<1> HIDE DEF d
<1>14. StoreType(store')
  BY <1>7, <1>10 DEF StoreType, IInv, TypeOK
<1>15. TypeOK'
  <2>1. \A i \in 1 .. Len(store'.dict) :
          /\ DOMAIN store'.dict[i].slot \subseteq Procs
          /\ store'.dict[i].stale \subseteq Range(store'.dict[i].slot)
          /\ IsInjective(store'.dict[i].slot)
    BY <1>10, DictFacts DEF Dicts
  <2>2. ASSUME NEW k \in Kinds, NEW q \in Procs
        PROVE  names'[k] <= Len(store'[k]) /\ hnd'[q][k] <= Len(store'[k])
    <3>1. names[k] <= Len(store[k]) /\ hnd[q][k] <= Len(store[k]) /\ hnd[q][k] \in Nat
      BY DEF IInv, TypeOK
    <3>2. CASE k # "dict"
      <4>1. store'[k] = store[k] /\ names'[k] = names[k]
        BY <1>7, <1>8, <3>2 DEF Kinds
      <4>2. hnd'[q][k] = hnd[q][k]
        BY <1>9, <3>2 DEF Kinds
      <4>3. QED
        BY <3>1, <4>1, <4>2
    <3>3. CASE k = "dict"
      <4>1. names'.dict = d /\ hnd'[q].dict \in {d, hnd[q].dict}
        BY <1>8, <1>9
      <4>2. n <= Len(store'.dict) /\ d <= Len(store'.dict) /\ hnd[q].dict <= n
            /\ hnd[q].dict \in Nat
        BY <1>3, <1>10, <3>1, <3>3
      <4>3. QED
        BY <1>3, <1>10, <3>3, <4>1, <4>2
    <3>4. QED
      BY <3>2, <3>3
  <2>3. pc' \in [Procs -> Places]
    <3>1. pc'[p] \in Places
      BY <1>1 DEF Places
    <3>2. QED
      BY <1>1, <3>1 DEF IInv, TypeOK
  <2>4. creator' \cup mistaken' \subseteq Procs /\ faults' \in 0 .. MaxFaults
        /\ split' \in BOOLEAN /\ unclean' \in BOOLEAN
    BY <1>1 DEF IInv, TypeOK
  <2>5. \A k \in Kinds : /\ names'[k] <= Len(store'[k])
                         /\ \A q \in Procs : hnd'[q][k] <= Len(store'[k])
    BY <2>2
  <2>6. QED
    BY <1>8, <1>9, <1>14, <2>1, <2>3, <2>4, <2>5 DEF TypeOK, StoreType, HandleType
<1>16. Others(p)
  BY <1>1, <1>9 DEF Others
<1>17. HandleInv'
  BY <1>1, <1>4, <1>6, <1>9, <1>16 DEF IInv, HandleInv, Others, Inside, BlockPlaces, EntryPlaces
<1>18. OwnSlotInv'
  <2>1. SUFFICES ASSUME NEW q \in Procs \ mistaken, Beats(q)'
                 PROVE  /\ q \in DOMAIN store'.dict[hnd'[q].dict].slot
                        /\ store'.dict[hnd'[q].dict].slot[q] = hnd'[q].slot
    BY <1>1 DEF OwnSlotInv, Of
  <2>2. CASE q = p
    BY <1>6, <1>9, <1>10, <2>2
  <2>3. CASE q # p
    <3>1. hnd'[q] = hnd[q] /\ Beats(q)
      BY <1>16, <2>1, <2>3 DEF Others, Beats
    <3>2. /\ q \in DOMAIN store.dict[hnd[q].dict].slot
          /\ store.dict[hnd[q].dict].slot[q] = hnd[q].slot
      BY <2>1, <3>1 DEF IInv, OwnSlotInv, Of
    <3>3. hnd[q].dict \in 1 .. n
      <4>1. hnd[q].slot # 0 /\ pc[q] # "dead"
        BY <3>1 DEF Beats
      <4>2. hnd[q].dict # 0
        BY <4>1, NoneFacts DEF IInv, HandleInv, Inside
      <4>3. QED
        BY <4>2, DictIndex
    <3>4. CASE hnd[q].dict = d
      <4>1. d # made
        BY <1>3, <3>3, <3>4
      <4>2. QED
        BY <1>6, <1>10, <1>12, <2>3, <3>1, <3>2, <3>4, <4>1
    <3>5. CASE hnd[q].dict # d
      BY <1>10, <3>1, <3>2, <3>3, <3>5
    <3>6. QED
      BY <3>4, <3>5
  <2>4. QED
    BY <2>2, <2>3
<1>19. OrderlyInv'
  <2>1. SUFFICES ASSUME ~unclean
                 PROVE  /\ \A q \in Procs : pc'[q] # "dead"
                        /\ \A e \in 1 .. Len(store'.dict) : \A q \in DOMAIN store'.dict[e].slot :
                             pc'[q] \in EntryPlaces /\ hnd'[q].dict = e
    BY <1>1 DEF OrderlyInv
  <2>2. \A q \in Procs : pc'[q] # "dead"
    BY <1>1, <2>1 DEF IInv, OrderlyInv
  <2>3. pc'[p] \in EntryPlaces /\ pc[p] \notin EntryPlaces
    BY <1>1 DEF EntryPlaces
  <2>4. \A e \in 1 .. n : \A q \in DOMAIN store.dict[e].slot :
          q \in Procs \ {p} /\ pc'[q] \in EntryPlaces /\ hnd'[q].dict = e
    <3>1. SUFFICES ASSUME NEW e \in 1 .. n, NEW q \in DOMAIN store.dict[e].slot
                   PROVE  q \in Procs \ {p} /\ pc'[q] \in EntryPlaces /\ hnd'[q].dict = e
      OBVIOUS
    <3>2. q \in Procs /\ pc[q] \in EntryPlaces /\ hnd[q].dict = e
      BY <2>1 DEF IInv, OrderlyInv, TypeOK
    <3>3. QED
      BY <1>16, <2>3, <3>2 DEF Others
  <2>5. SUFFICES ASSUME NEW e \in 1 .. Len(store'.dict), NEW q \in DOMAIN store'.dict[e].slot
                 PROVE  pc'[q] \in EntryPlaces /\ hnd'[q].dict = e
    BY <2>2
  <2>6. CASE e # d
    <3>1. e \in 1 .. n
      BY <1>3, <1>10, <2>6
    <3>2. QED
      BY <1>10, <2>4, <2>5, <2>6, <3>1
  <2>7. CASE e = d
    <3>1. q = p \/ q \in DOMAIN old.slot
      BY <1>6, <1>10, <2>5, <2>7
    <3>2. CASE q = p
      BY <1>9, <2>3, <2>7, <3>2
    <3>3. CASE q # p
      <4>1. d # made /\ q \in DOMAIN store.dict[d].slot
        BY <1>11, <3>1, <3>3
      <4>2. d \in 1 .. n
        BY <1>3, <1>4, <4>1
      <4>3. QED
        BY <2>4, <2>7, <4>1, <4>2
    <3>4. QED
      BY <3>2, <3>3
  <2>8. QED
    BY <2>6, <2>7
<1>20. HolderInv'
  BY <1>1, <1>7, <1>9, <1>16, LockKept DEF Others, HoldingPlaces
<1>21. SameLockInv'
  BY <1>1, <1>8, <1>9, <1>16 DEF IInv, SameLockInv, Others, Inside
<1>22. ASSUME ~Disturbed, NEW q \in Procs
       PROVE  /\ pc[q] \in HoldingPlaces => q = p
              /\ names.dict = 0 => pc[q] \notin EntryPlaces \cup {"counting"}
  <2>1. ~split /\ pc[p] \in HoldingPlaces
    BY <1>1, <1>22 DEF Disturbed, HoldingPlaces
  <2>2. QED
    BY <1>22, <2>1, Exclusion DEF IInv, SharedInv, HandleInv
<1>23. SharedInv'
  <2>1. SUFFICES ASSUME ~Disturbed
                 PROVE  SharedInv'
    BY <1>1 DEF SharedInv, Disturbed
  <2>2. /\ names.block # 0
        /\ \A q \in Procs : pc[q] \notin {"unlinking", "unlinkBlock"}
    <3>1. hnd[p].block # 0 /\ hnd[p].block = names.block
      BY <1>1, <2>1 DEF IInv, SharedInv, HandleInv, BlockPlaces
    <3>2. QED
      BY <1>1, <1>22, <2>1, <3>1 DEF HoldingPlaces
  <2>3. \A q \in Procs : pc'[q] \in BlockPlaces => hnd'[q].block = names'.block
    BY <1>1, <1>8, <1>9, <1>16, <2>1 DEF IInv, SharedInv, Others, BlockPlaces
  <2>4. \A q \in Procs : pc'[q] \in EntryPlaces \cup {"counting"} => hnd'[q].dict = names'.dict
    BY <1>1, <1>8, <1>9, <1>13, <1>16, <1>22, <2>1 DEF IInv, SharedInv, Others
  <2>5. \A q \in Procs : pc'[q] \notin {"unlinking", "unlinkBlock"}
    BY <1>1, <1>16, <2>2 DEF Others
  <2>6. QED
    BY <1>8, <2>2, <2>3, <2>4, <2>5 DEF SharedInv
<1>24. KeptInv'
  <2>1. SUFFICES ASSUME ~unclean', ~Disturbed'
                 PROVE  KeptInv'
    BY DEF KeptInv
  <2>2. ~unclean /\ ~Disturbed
    BY <1>1, <2>1 DEF Disturbed
  <2>3. pc'[p] \in KeepingPlaces
    BY <1>1 DEF KeepingPlaces, BlockPlaces, EntryPlaces
  <2>4. names'.dict # 0 /\ (names.dict # 0 => names.cond # 0 \/ pc[p] = "makeDict")
    <3>1. names.dict # 0 /\ names.cond = 0 => \E q \in Procs : pc[q] = "makeCond"
      BY <2>2 DEF IInv, KeptInv
    <3>2. \A q \in Procs : pc[q] = "makeCond" => q = p
      BY <1>22, <2>2 DEF HoldingPlaces
    <3>3. QED
      BY <1>1, <1>4, <1>8, <3>1, <3>2
  <2>5. names'.cond = 0 => pc'[p] = "makeCond"
    BY <1>1, <1>8, <2>4
  <2>6. QED
    BY <2>3, <2>4, <2>5 DEF KeptInv
<1>25. QED
  BY <1>10, <1>15, <1>17, <1>18, <1>19, <1>20, <1>21, <1>23, <1>24 DEF IInv

-----------------------------------------------------------------------------
(* The invariant holds *)

LEMMA InitHolds == Init => IInv
<1> SUFFICES ASSUME Init
             PROVE  IInv
  OBVIOUS
<1>1. /\ pc = [p \in Procs |-> "out"] /\ names = [k \in Kinds |-> 0]
      /\ hnd = [p \in Procs |-> None] /\ store = [k \in Kinds |-> <<>>]
      /\ creator = {} /\ faults = 0 /\ mistaken = {} /\ split = FALSE /\ unclean = FALSE
  BY DEF Init
<1>2. /\ store.lock = <<>> /\ store.block = <<>> /\ store.dict = <<>> /\ store.cond = <<>>
      /\ DOMAIN store = Kinds /\ \A k \in Kinds : Len(store[k]) = 0
  BY <1>1 DEF Kinds
<1>3. /\ names.block = 0 /\ names.dict = 0 /\ names.cond = 0
      /\ \A p \in Procs : pc[p] = "out" /\ hnd[p] = None
  BY <1>1 DEF Kinds
<1>4. names \in [Kinds -> Nat] /\ \A k \in Kinds : names[k] = 0
  BY <1>1
<1>5. None \in HandleType /\ \A k \in Kinds : None[k] = 0
  BY DEF None, HandleType
<1>6. hnd \in [Procs -> HandleType] /\ \A p \in Procs, k \in Kinds : hnd[p][k] = 0
  BY <1>1, <1>5
<1>7. pc \in [Procs -> Places]
  BY <1>1 DEF Places
<1>8. StoreType(store)
  BY <1>2 DEF StoreType
<1>9. creator \cup mistaken \subseteq Procs /\ faults \in 0 .. MaxFaults
  BY <1>1, ProcsAssumption
<1>10. split \in BOOLEAN /\ unclean \in BOOLEAN
  BY <1>1
<1>11. \A k \in Kinds : /\ names[k] <= Len(store[k])
                        /\ \A p \in Procs : hnd[p][k] <= Len(store[k])
  BY <1>2, <1>4, <1>6
<1>12. 1 .. Len(store.dict) = {}
  BY <1>2
<1>13. TypeOK
  BY <1>4, <1>6, <1>7, <1>8, <1>9, <1>10, <1>11, <1>12 DEF TypeOK, StoreType, HandleType
<1>14. HandleInv /\ OwnSlotInv /\ HolderInv /\ SameLockInv
  BY <1>3, NoneFacts
  DEF HandleInv, OwnSlotInv, HolderInv, SameLockInv, Beats, Inside, HoldingPlaces,
      BlockPlaces, EntryPlaces
<1>15. SharedInv /\ KeptInv
  BY <1>3 DEF SharedInv, KeptInv, BlockPlaces, EntryPlaces
<1>16. OrderlyInv
  BY <1>3, <1>12 DEF OrderlyInv
<1>17. QED
  BY <1>8, <1>13, <1>14, <1>15, <1>16 DEF IInv, StoreType

LEMMA StutterKeeps == IInv /\ UNCHANGED vars => IInv'
<1> SUFFICES ASSUME IInv, UNCHANGED vars
             PROVE  IInv'
  OBVIOUS
<1>1. UNCHANGED <<pc, names, hnd, store, creator, faults, mistaken, split, unclean>>
  BY DEF vars
<1>2. TypeOK' /\ store'.dict \in Seq(Dicts)
  BY <1>1 DEF IInv, TypeOK
<1>3. (HandleInv /\ OwnSlotInv /\ HolderInv /\ SameLockInv)'
  BY <1>1 DEF IInv, HandleInv, OwnSlotInv, HolderInv, SameLockInv, Of, Beats, Inside
<1>4. (SharedInv /\ OrderlyInv /\ KeptInv)'
  BY <1>1 DEF IInv, SharedInv, OrderlyInv, KeptInv, Disturbed
<1>5. QED
  BY <1>2, <1>3, <1>4 DEF IInv

LEMMA StepKeeps == IInv /\ [Next]_vars => IInv'
<1> SUFFICES ASSUME IInv, [Next]_vars
             PROVE  IInv'
  OBVIOUS
<1>1. ASSUME NEW p \in Procs, Step(p)
      PROVE  IInv'
  BY <1>1, OpenLockKeeps, AcquireMainKeeps, TimeOutKeeps, MissingKeeps, AttachBlockKeeps,
     RegisterKeeps, AttachConditionKeeps, ReleaseMainKeeps, WriteVersionHeaderKeeps,
     ValidateVersionKeeps, NotifyReadyKeeps, WaitForReadyKeeps, TryAcquireLockKeeps,
     CleanupWithoutCoordinationKeeps, StopKeepAliveKeeps, AnyProcessAliveKeeps, LeaveKeeps,
     UnlinkDictKeeps, UnlinkBlockKeeps, CloseLockKeeps, UnlinkLockKeeps
  DEF Step
<1>2. ASSUME NEW p \in Procs, Close(p) \/ IsCreatorAlive(p) \/ Die(p) \/ Lapse(p) \/ Beat(p)
      PROVE  IInv'
  BY <1>2, CloseKeeps, IsCreatorAliveKeeps, DieKeeps, LapseKeeps, BeatKeeps
<1>3. CASE Next
  BY <1>1, <1>2, <1>3 DEF Next
<1>4. CASE UNCHANGED vars
  BY <1>4, StutterKeeps
<1>5. QED
  BY <1>3, <1>4

LEMMA Invariance == Spec => []IInv
BY InitHolds, StepKeeps, PTL DEF Spec

-----------------------------------------------------------------------------
(* Whatever the processes do, every name and every handle leads to an object
   that was made, no two entries of a dictionary share a slot, and only slots
   in use are stale. *)
THEOREM TypeCorrect == Spec => []TypeOK
<1>1. IInv => TypeOK
  BY DEF IInv
<1>2. QED
  BY <1>1, Invariance, PTL

(* As long as no live process was taken for dead and no lock file unlinked under
   its users, nobody takes away the block under a process that is attached, and
   whoever closes sees its entry: FlexibleSharedMemory.close unlinks only when
   it really is the last. *)
THEOREM BlockStays == Spec => []BlockStaysWhileUsed
<1>1. IInv => BlockStaysWhileUsed
  <2>1. SUFFICES ASSUME IInv, ~Disturbed, NEW p \in Procs, Attached(p)
                 PROVE  names.block = hnd[p].block /\ p \in DOMAIN Of(p, "dict").slot
    BY DEF BlockStaysWhileUsed
  <2>2. pc[p] \in EntryPlaces /\ pc[p] \in BlockPlaces
    BY <2>1 DEF Attached, EntryPlaces, BlockPlaces
  <2>3. hnd[p].block = names.block
    BY <2>1, <2>2 DEF IInv, SharedInv
  <2>4. Beats(p)
    BY <2>1, <2>2 DEF IInv, HandleInv, Beats, Inside, EntryPlaces
  <2>5. p \in DOMAIN Of(p, "dict").slot
    BY <2>1, <2>4 DEF IInv, OwnSlotInv, Disturbed
  <2>6. QED
    BY <2>3, <2>5
<1>2. QED
  BY <1>1, Invariance, PTL

(* The heartbeats of a process that nobody took for dead keep its own entry
   fresh and no others: prepare_slot gives no slot out twice, and pop gives one
   back only with the entry. *)
THEOREM HeartbeatsStayOwn == Spec => []HeartbeatsAreOwn
<1>1. IInv => HeartbeatsAreOwn
  <2>1. SUFFICES ASSUME IInv, NEW p \in Procs \ mistaken, Beats(p),
                        NEW q \in DOMAIN Of(p, "dict").slot \ {p}
                 PROVE  Of(p, "dict").slot[q] # hnd[p].slot
    BY DEF HeartbeatsAreOwn
  <2>2. /\ p \in DOMAIN Of(p, "dict").slot
        /\ Of(p, "dict").slot[p] = hnd[p].slot
    BY <2>1 DEF IInv, OwnSlotInv
  <2>3. hnd[p].dict \in 1 .. Len(store.dict)
    <3>1. hnd[p].slot # 0 /\ pc[p] # "dead"
      BY <2>1 DEF Beats
    <3>2. hnd[p].dict # 0
      BY <2>1, <3>1, NoneFacts DEF IInv, HandleInv, Inside
    <3>3. QED
      BY <2>1, <3>2, DictIndex
  <2>4. IsInjective(Of(p, "dict").slot)
    BY <2>1, <2>3 DEF IInv, TypeOK, Of
  <2>5. QED
    BY <2>1, <2>2, <2>4 DEF IsInjective
<1>2. QED
  BY <1>1, Invariance, PTL

(* When all have left in good order nothing of the block and the dictionary is
   left behind: somebody was the last, and knew it. *)
THEOREM LastOneCleans == Spec => []LastExitCleans
<1>1. IInv => LastExitCleans
  <2>1. SUFFICES ASSUME IInv, \A p \in Procs : ~Inside(p), ~unclean, ~Disturbed
                 PROVE  names.block = 0 /\ names.dict = 0
    BY DEF LastExitCleans
  <2>2. \A p \in Procs : pc[p] \notin KeepingPlaces
    BY <2>1 DEF Inside, KeepingPlaces, BlockPlaces, EntryPlaces
  <2>3. names.block = 0
    BY <2>1, <2>2 DEF IInv, KeptInv
  <2>4. QED
    BY <2>1, <2>3 DEF IInv, SharedInv
<1>2. QED
  BY <1>1, Invariance, PTL
=============================================================================
