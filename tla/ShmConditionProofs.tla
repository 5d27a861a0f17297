------------------------- MODULE ShmConditionProofs -------------------------
(***************************************************************************)
(* For every set of waiters and any number of deaths: no wakeup is lost,   *)
(* the holder of the condition's lock never sleeps on his semaphore, and   *)
(* the condition implements the latch of ReadyLatch.                       *)
(***************************************************************************)
EXTENDS ShmCondition, TLAPS

(* Inside the with block of the condition's lock. *)
InSection(p) ==
  pc[p] \in IF p = Notifier THEN {"locked", "ready", "notifying", "signalling"}
                            ELSE {"locked", "opened", "taken"}

LockInv == \A p \in Procs : InSection(p) => lock = p

(* A waiter's semaphore is the one of its name, from the time it is opened to
   the time it is closed. *)
HandleInv ==
  /\ \A w \in Waiters : /\ handle[w] # 0 => handle[w] = named[w]
                        /\ handle[w] # 0 <=> pc[w] \in {"opened", "taken", "testing",
                                                        "asleep", "leaving"}
  /\ handle[Notifier] # 0 <=> pc[Notifier] = "signalling"

(* No two names belong to one semaphore. *)
NamesInv == \A v, w \in Waiters : named[v] = named[w] /\ named[v] # 0 => v = w

(* Who sleeps is on the list, and the notifier works from the list. *)
ListInv ==
  /\ \A w \in Waiters : pc[w] \in {"testing", "asleep", "leaving"} => w \in Range(list)
  /\ Range(todo) \subseteq Range(list)
  /\ pc[Notifier] = "signalling" => todo # <<>>

(* Before it registers for the first time a waiter's name is its own. *)
FirstLifeInv ==
  \A w \in Waiters : w \notin reused =>
    /\ pc[w] \in {"out", "calling", "locked", "opened", "taken"} => w \notin Range(list)
    /\ pc[w] \in {"out", "calling", "locked"} => named[w] = 0
    /\ pc[w] = "opened" => value[handle[w]] > 0

(* The flag is up from the notifier's first step under the lock. *)
FlagInv ==
  /\ pc[Notifier] \in {"out", "calling", "locked"} => ~ready
  /\ pc[Notifier] \in {"ready", "notifying", "signalling", "returned"} => ready
  /\ \A w \in Waiters : pc[w] = "leaving" => ready

IInv ==
  /\ TypeOK
  /\ LockInv
  /\ HandleInv
  /\ NamesInv
  /\ ListInv
  /\ FirstLifeInv
  /\ FlagInv
  /\ NoLostWakeup

-----------------------------------------------------------------------------
(* Sequences *)

LEMMA RangeOfAppend ==
  ASSUME NEW S, NEW s \in Seq(S), NEW e \in S
  PROVE  Append(s, e) \in Seq(S) /\ Range(Append(s, e)) = Range(s) \cup {e}
<1>1. /\ Append(s, e) \in Seq(S) /\ DOMAIN Append(s, e) = 1 .. Len(s) + 1
      /\ Len(s) \in Nat /\ DOMAIN s = 1 .. Len(s)
      /\ \A i \in 1 .. Len(s) : Append(s, e)[i] = s[i]
      /\ Append(s, e)[Len(s) + 1] = e
  OBVIOUS
<1>2. QED
  BY <1>1 DEF Range

LEMMA RangeOfTail ==
  ASSUME NEW S, NEW s \in Seq(S), s # <<>>
  PROVE  /\ Head(s) \in S /\ Tail(s) \in Seq(S)
         /\ Range(s) = {Head(s)} \cup Range(Tail(s))
<1>1. /\ Head(s) \in S /\ Tail(s) \in Seq(S)
      /\ Len(s) \in Nat \ {0} /\ DOMAIN s = 1 .. Len(s) /\ Head(s) = s[1]
      /\ DOMAIN Tail(s) = 1 .. Len(s) - 1
      /\ \A i \in 1 .. Len(s) - 1 : Tail(s)[i] = s[i + 1]
  OBVIOUS
<1>2. ASSUME NEW x \in Range(s)
      PROVE  x = Head(s) \/ x \in Range(Tail(s))
  <2>1. PICK i \in 1 .. Len(s) : x = s[i]
    BY <1>1 DEF Range
  <2>2. CASE i = 1
    BY <1>1, <2>1, <2>2
  <2>3. CASE i # 1
    <3>1. i - 1 \in 1 .. Len(s) - 1 /\ x = Tail(s)[i - 1]
      BY <1>1, <2>1, <2>3
    <3>2. QED
      BY <1>1, <3>1 DEF Range
  <2>4. QED
    BY <2>2, <2>3
<1>3. Head(s) \in Range(s)
  BY <1>1 DEF Range
<1>4. Range(Tail(s)) \subseteq Range(s)
  <2>1. \A i \in 1 .. Len(s) - 1 : i + 1 \in 1 .. Len(s)
    BY <1>1
  <2>2. QED
    BY <1>1, <2>1 DEF Range
<1>5. QED
  BY <1>1, <1>2, <1>3, <1>4

LEMMA RangeOfNothing == Range(<<>>) = {}
BY DEF Range

(* What a semaphore operation leaves in value. *)
LEMMA ValueAppended ==
  ASSUME NEW v \in Seq(Nat), NEW x \in Nat
  PROVE  /\ Append(v, x) \in Seq(Nat) /\ Len(v) \in Nat
         /\ Len(Append(v, x)) = Len(v) + 1
         /\ \A i \in 1 .. Len(v) : Append(v, x)[i] = v[i]
         /\ Append(v, x)[Len(v) + 1] = x
OBVIOUS

LEMMA ValueSet ==
  ASSUME NEW v \in Seq(Nat), NEW i \in 1 .. Len(v), NEW x \in Nat
  PROVE  /\ [v EXCEPT ![i] = x] \in Seq(Nat)
         /\ Len([v EXCEPT ![i] = x]) = Len(v)
         /\ \A j \in 1 .. Len(v) : [v EXCEPT ![i] = x][j] = IF j = i THEN x ELSE v[j]
OBVIOUS

(* The semaphore operations *)

LEMMA OpenSemaphoreFacts ==
  ASSUME TypeOK, NEW p \in Procs, NEW w \in Waiters, OpenSemaphore(p, w)
  PROVE  /\ value' \in Seq(Nat) /\ Len(value) \in Nat /\ Len(value') \in Nat
         /\ Len(value') >= Len(value)
         /\ \A i \in 1 .. Len(value) : value'[i] = value[i]
         /\ named'[w] \in 1 .. Len(value')
         /\ named' = [named EXCEPT ![w] = named'[w]]
         /\ handle' = [handle EXCEPT ![p] = named'[w]]
         /\ named[w] # 0 => UNCHANGED <<value, named>>
         /\ named[w] = 0 => named'[w] = Len(value) + 1 /\ value'[named'[w]] = 1
<1>1. value \in Seq(Nat) /\ named \in [Waiters -> 0 .. Len(value)] /\ Len(value) \in Nat
  BY DEF TypeOK
<1>2. CASE named[w] # 0
  BY <1>1, <1>2 DEF OpenSemaphore
<1>3. CASE named[w] = 0
  <2>1. /\ value' = Append(value, 1)
        /\ named' = [named EXCEPT ![w] = Len(value) + 1]
        /\ handle' = [handle EXCEPT ![p] = Len(value) + 1]
    BY <1>3 DEF OpenSemaphore
  <2>2. named'[w] = Len(value) + 1
    BY <1>1, <2>1
  <2>3. QED
    BY <1>1, <1>3, <2>1, <2>2, ValueAppended
<1>4. QED
  BY <1>2, <1>3

LEMMA TakeFacts ==
  ASSUME TypeOK, NEW p \in Procs, handle[p] # 0, Take(p)
  PROVE  /\ value[handle[p]] > 0 /\ handle[p] \in 1 .. Len(value)
         /\ value' \in Seq(Nat) /\ Len(value') = Len(value) /\ Len(value) \in Nat
         /\ \A j \in 1 .. Len(value) :
              value'[j] = IF j = handle[p] THEN value[j] - 1 ELSE value[j]
<1>1. value \in Seq(Nat) /\ handle[p] \in 1 .. Len(value) /\ Len(value) \in Nat
  BY DEF TypeOK
<1>2. value[handle[p]] \in Nat /\ value[handle[p]] > 0
      /\ value' = [value EXCEPT ![handle[p]] = value[handle[p]] - 1]
  BY <1>1 DEF Take
<1>3. QED
  BY <1>1, <1>2, ValueSet

LEMMA SignalFacts ==
  ASSUME TypeOK, NEW p \in Procs, handle[p] # 0, Signal(p)
  PROVE  /\ handle[p] \in 1 .. Len(value)
         /\ value' \in Seq(Nat) /\ Len(value') = Len(value) /\ Len(value) \in Nat
         /\ \A j \in 1 .. Len(value) :
              value'[j] = IF j = handle[p] THEN value[j] + 1 ELSE value[j]
<1>1. value \in Seq(Nat) /\ handle[p] \in 1 .. Len(value) /\ Len(value) \in Nat
  BY DEF TypeOK
<1>2. value[handle[p]] \in Nat
      /\ value' = [value EXCEPT ![handle[p]] = value[handle[p]] + 1]
  BY <1>1 DEF Signal
<1>3. QED
  BY <1>1, <1>2, ValueSet


LEMMA CallWaitKeeps ==
  ASSUME IInv, NEW w \in Waiters, CallWait(w)
  PROVE  IInv'
<1>1. TypeOK'
  BY RolesAssumption, FaultsAssumption
  DEF IInv, TypeOK, WaiterPlaces, NotifierPlaces, Procs, Go, CallWait
<1>2. (LockInv /\ HandleInv /\ NamesInv /\ ListInv /\ FirstLifeInv /\ FlagInv)'
  BY RolesAssumption
  DEF IInv, TypeOK, LockInv, InSection, HandleInv, NamesInv, ListInv, FirstLifeInv, FlagInv,
      Procs, Go, CallWait
<1>3. NoLostWakeup'
  BY RolesAssumption
  DEF IInv, TypeOK, FlagInv, NoLostWakeup, StillToBeSignalled, Procs, Go, CallWait
<1>4. QED
  BY <1>1, <1>2, <1>3 DEF IInv

LEMMA LockWaiterKeeps ==
  ASSUME IInv, NEW w \in Waiters, LockWaiter(w)
  PROVE  IInv'
<1>1. TypeOK'
  BY RolesAssumption, FaultsAssumption
  DEF IInv, TypeOK, WaiterPlaces, NotifierPlaces, Procs, Go, LockWaiter, Acquire
<1>2. (LockInv /\ HandleInv /\ NamesInv /\ ListInv /\ FirstLifeInv /\ FlagInv)'
  BY RolesAssumption
  DEF IInv, TypeOK, LockInv, InSection, HandleInv, NamesInv, ListInv, FirstLifeInv, FlagInv,
      Procs, Go, LockWaiter, Acquire
<1>3. NoLostWakeup'
  BY RolesAssumption
  DEF IInv, TypeOK, FlagInv, NoLostWakeup, StillToBeSignalled, Procs, Go, LockWaiter, Acquire
<1>4. QED
  BY <1>1, <1>2, <1>3 DEF IInv

LEMMA AlreadyReadyKeeps ==
  ASSUME IInv, NEW w \in Waiters, AlreadyReady(w)
  PROVE  IInv'
<1>1. TypeOK'
  BY RolesAssumption, FaultsAssumption
  DEF IInv, TypeOK, WaiterPlaces, NotifierPlaces, Procs, Go, AlreadyReady, Release
<1>2. (LockInv /\ HandleInv /\ NamesInv /\ ListInv /\ FirstLifeInv /\ FlagInv)'
  BY RolesAssumption
  DEF IInv, TypeOK, LockInv, InSection, HandleInv, NamesInv, ListInv, FirstLifeInv, FlagInv,
      Procs, Go, AlreadyReady, Release
<1>3. NoLostWakeup'
  BY RolesAssumption
  DEF IInv, TypeOK, FlagInv, NoLostWakeup, StillToBeSignalled, Procs, Go, AlreadyReady, Release
<1>4. QED
  BY <1>1, <1>2, <1>3 DEF IInv

LEMMA RegisterKeeps ==
  ASSUME IInv, NEW w \in Waiters, Register(w)
  PROVE  IInv'
<1>1. Append(list, w) \in Seq(Waiters) /\ Range(Append(list, w)) = Range(list) \cup {w}
  BY RangeOfAppend DEF IInv, TypeOK
<1>2. TypeOK'
  BY <1>1, RolesAssumption, FaultsAssumption
  DEF IInv, TypeOK, WaiterPlaces, NotifierPlaces, Procs, Go, Register, Release
<1>3. (LockInv /\ HandleInv /\ NamesInv /\ ListInv /\ FirstLifeInv /\ FlagInv)'
  BY <1>1, RolesAssumption
  DEF IInv, TypeOK, LockInv, InSection, HandleInv, NamesInv, ListInv, FirstLifeInv, FlagInv,
      Procs, Go, Register, Release
<1>4. NoLostWakeup'
  BY <1>1, RolesAssumption
  DEF IInv, TypeOK, FlagInv, NoLostWakeup, StillToBeSignalled, Procs, Go, Register, Release
<1>5. QED
  BY <1>2, <1>3, <1>4 DEF IInv

LEMMA TestKeeps ==
  ASSUME IInv, NEW w \in Waiters, Test(w)
  PROVE  IInv'
<1>1. TypeOK'
  BY RolesAssumption, FaultsAssumption
  DEF IInv, TypeOK, WaiterPlaces, NotifierPlaces, Procs, Go, Test
<1>2. (LockInv /\ HandleInv /\ NamesInv /\ ListInv /\ FirstLifeInv /\ FlagInv)'
  BY RolesAssumption
  DEF IInv, TypeOK, LockInv, InSection, HandleInv, NamesInv, ListInv, FirstLifeInv, FlagInv,
      Procs, Go, Test
<1>3. NoLostWakeup'
  BY RolesAssumption
  DEF IInv, TypeOK, FlagInv, NoLostWakeup, StillToBeSignalled, Procs, Go, Test
<1>4. QED
  BY <1>1, <1>2, <1>3 DEF IInv

LEMMA RestartKeeps ==
  ASSUME IInv, NEW w \in Waiters, Restart(w)
  PROVE  IInv'
<1>1. TypeOK'
  BY RolesAssumption, FaultsAssumption
  DEF IInv, TypeOK, WaiterPlaces, NotifierPlaces, Procs, Go, Restart
<1>2. (LockInv /\ HandleInv /\ NamesInv /\ ListInv /\ FirstLifeInv /\ FlagInv)'
  BY RolesAssumption
  DEF IInv, TypeOK, LockInv, InSection, HandleInv, NamesInv, ListInv, FirstLifeInv, FlagInv,
      Procs, Go, Restart
<1>3. NoLostWakeup'
  BY RolesAssumption
  DEF IInv, TypeOK, FlagInv, NoLostWakeup, StillToBeSignalled, Procs, Go, Restart
<1>4. QED
  BY <1>1, <1>2, <1>3 DEF IInv

LEMMA CallNotifyKeeps ==
  ASSUME IInv, CallNotify
  PROVE  IInv'
<1>1. TypeOK'
  BY RolesAssumption, FaultsAssumption
  DEF IInv, TypeOK, WaiterPlaces, NotifierPlaces, Procs, Go, CallNotify
<1>2. (LockInv /\ HandleInv /\ NamesInv /\ ListInv /\ FirstLifeInv /\ FlagInv)'
  BY RolesAssumption
  DEF IInv, TypeOK, LockInv, InSection, HandleInv, NamesInv, ListInv, FirstLifeInv, FlagInv,
      Procs, Go, CallNotify
<1>3. NoLostWakeup'
  BY RolesAssumption
  DEF IInv, TypeOK, FlagInv, NoLostWakeup, StillToBeSignalled, Procs, Go, CallNotify
<1>4. QED
  BY <1>1, <1>2, <1>3 DEF IInv

LEMMA LockNotifierKeeps ==
  ASSUME IInv, LockNotifier
  PROVE  IInv'
<1>1. TypeOK'
  BY RolesAssumption, FaultsAssumption
  DEF IInv, TypeOK, WaiterPlaces, NotifierPlaces, Procs, Go, LockNotifier, Acquire
<1>2. (LockInv /\ HandleInv /\ NamesInv /\ ListInv /\ FirstLifeInv /\ FlagInv)'
  BY RolesAssumption
  DEF IInv, TypeOK, LockInv, InSection, HandleInv, NamesInv, ListInv, FirstLifeInv, FlagInv,
      Procs, Go, LockNotifier, Acquire
<1>3. NoLostWakeup'
  BY RolesAssumption
  DEF IInv, TypeOK, FlagInv, NoLostWakeup, StillToBeSignalled, Procs, Go, LockNotifier, Acquire
<1>4. QED
  BY <1>1, <1>2, <1>3 DEF IInv

LEMMA SetReadyKeeps ==
  ASSUME IInv, SetReady
  PROVE  IInv'
<1>1. TypeOK'
  BY RolesAssumption, FaultsAssumption
  DEF IInv, TypeOK, WaiterPlaces, NotifierPlaces, Procs, Go, SetReady
<1>2. (LockInv /\ HandleInv /\ NamesInv /\ ListInv /\ FirstLifeInv /\ FlagInv)'
  BY RolesAssumption
  DEF IInv, TypeOK, LockInv, InSection, HandleInv, NamesInv, ListInv, FirstLifeInv, FlagInv,
      Procs, Go, SetReady
<1>3. NoLostWakeup'
  BY RolesAssumption
  DEF IInv, TypeOK, ListInv, FlagInv, NoLostWakeup, StillToBeSignalled, Procs, Go,
      SetReady
<1>4. QED
  BY <1>1, <1>2, <1>3 DEF IInv

LEMMA ReadListKeeps ==
  ASSUME IInv, ReadList
  PROVE  IInv'
<1>1. TypeOK'
  BY RolesAssumption, FaultsAssumption
  DEF IInv, TypeOK, WaiterPlaces, NotifierPlaces, Procs, Go, ReadList
<1>2. (LockInv /\ HandleInv /\ NamesInv /\ ListInv /\ FirstLifeInv /\ FlagInv)'
  BY RolesAssumption
  DEF IInv, TypeOK, LockInv, InSection, HandleInv, NamesInv, ListInv, FirstLifeInv, FlagInv,
      Procs, Go, ReadList
<1>3. NoLostWakeup'
  BY RolesAssumption
  DEF IInv, TypeOK, FlagInv, NoLostWakeup, StillToBeSignalled, Procs, Go, ReadList
<1>4. QED
  BY <1>1, <1>2, <1>3 DEF IInv

LEMMA DeliveryFailsKeeps ==
  ASSUME IInv, DeliveryFails
  PROVE  IInv'
<1>1. /\ Head(todo) \in Waiters /\ Tail(todo) \in Seq(Waiters)
      /\ Range(todo) = {Head(todo)} \cup Range(Tail(todo))
  BY RangeOfTail DEF IInv, TypeOK, DeliveryFails
<1>2. TypeOK'
  BY <1>1, RolesAssumption, FaultsAssumption
  DEF IInv, TypeOK, WaiterPlaces, NotifierPlaces, Procs, Go, DeliveryFails
<1>3. (LockInv /\ HandleInv /\ NamesInv /\ ListInv /\ FirstLifeInv /\ FlagInv)'
  BY <1>1, RolesAssumption
  DEF IInv, TypeOK, LockInv, InSection, HandleInv, NamesInv, ListInv, FirstLifeInv, FlagInv,
      Procs, Go, DeliveryFails
<1>4. NoLostWakeup'
  BY <1>1, RolesAssumption
  DEF IInv, TypeOK, FlagInv, NoLostWakeup, StillToBeSignalled, Procs, Go, DeliveryFails
<1>5. QED
  BY <1>2, <1>3, <1>4 DEF IInv

LEMMA NotifiedKeeps ==
  ASSUME IInv, Notified
  PROVE  IInv'
<1>1. TypeOK'
  BY RolesAssumption, FaultsAssumption
  DEF IInv, TypeOK, WaiterPlaces, NotifierPlaces, Procs, Go, Notified, Release
<1>2. (LockInv /\ HandleInv /\ NamesInv /\ ListInv /\ FirstLifeInv /\ FlagInv)'
  BY RolesAssumption
  DEF IInv, TypeOK, LockInv, InSection, HandleInv, NamesInv, ListInv, FirstLifeInv, FlagInv,
      Procs, Go, Notified, Release
<1>3. NoLostWakeup'
  BY RangeOfNothing, RolesAssumption
  DEF IInv, TypeOK, FlagInv, NoLostWakeup, StillToBeSignalled, Procs, Go, Notified, Release
<1>4. QED
  BY <1>1, <1>2, <1>3 DEF IInv

LEMMA DieKeeps ==
  ASSUME IInv, NEW p \in Procs, Die(p)
  PROVE  IInv'
<1>1. TypeOK'
  BY RolesAssumption, FaultsAssumption
  DEF IInv, TypeOK, WaiterPlaces, NotifierPlaces, Procs, Go, Die, Release
<1>2. (LockInv /\ HandleInv /\ NamesInv /\ ListInv /\ FirstLifeInv /\ FlagInv)'
  BY RolesAssumption
  DEF IInv, TypeOK, LockInv, InSection, HandleInv, NamesInv, ListInv, FirstLifeInv, FlagInv,
      Procs, Go, Die, Release
<1>3. NoLostWakeup'
  BY RolesAssumption
  DEF IInv, TypeOK, FlagInv, NoLostWakeup, StillToBeSignalled, Procs, Go, Die, Release
<1>4. QED
  BY <1>1, <1>2, <1>3 DEF IInv

LEMMA TakeOwnKeeps ==
  ASSUME IInv, NEW w \in Waiters, TakeOwn(w)
  PROVE  IInv'
<1>1. handle[w] # 0 /\ w \in Procs /\ w # Notifier
  BY RolesAssumption DEF IInv, HandleInv, Procs, Go, TakeOwn
<1>2. /\ value[handle[w]] > 0 /\ handle[w] \in 1 .. Len(value)
      /\ value' \in Seq(Nat) /\ Len(value') = Len(value) /\ Len(value) \in Nat
      /\ \A j \in 1 .. Len(value) :
           value'[j] = IF j = handle[w] THEN value[j] - 1 ELSE value[j]
  BY <1>1, TakeFacts DEF IInv, TakeOwn
<1>3. \A v \in Waiters \ {w} :
        handle[v] # 0 => handle[v] # handle[w] /\ handle[v] \in 1 .. Len(value)
  BY <1>1 DEF IInv, TypeOK, HandleInv, NamesInv, Procs
<1>4. \A v \in Waiters \ {w} :
        /\ handle'[v] = handle[v] /\ pc'[v] = pc[v]
        /\ handle[v] # 0 => value'[handle'[v]] = value[handle[v]]
  BY <1>1, <1>2, <1>3 DEF IInv, TypeOK, Procs, Go, TakeOwn
<1>5. TypeOK'
  BY <1>1, <1>2 DEF IInv, TypeOK, WaiterPlaces, NotifierPlaces, Procs, Go, TakeOwn
<1>6. (LockInv /\ HandleInv /\ NamesInv /\ ListInv /\ FlagInv)'
  BY <1>1 DEF IInv, TypeOK, LockInv, InSection, HandleInv, NamesInv, ListInv, FlagInv, Procs,
     Go, TakeOwn
<1>7. FirstLifeInv'
  BY <1>1, <1>4 DEF IInv, TypeOK, HandleInv, FirstLifeInv, Procs, Go, TakeOwn
<1>8. NoLostWakeup'
  BY <1>1, <1>4 DEF IInv, TypeOK, HandleInv, NoLostWakeup, StillToBeSignalled, Procs, Go, TakeOwn
<1>9. QED
  BY <1>5, <1>6, <1>7, <1>8 DEF IInv

LEMMA WakeKeeps ==
  ASSUME IInv, NEW w \in Waiters, Wake(w)
  PROVE  IInv'
<1>1. handle[w] # 0 /\ w \in Procs /\ w # Notifier
  BY RolesAssumption DEF IInv, HandleInv, Procs, Go, Wake
<1>2. /\ value[handle[w]] > 0 /\ handle[w] \in 1 .. Len(value)
      /\ value' \in Seq(Nat) /\ Len(value') = Len(value) /\ Len(value) \in Nat
      /\ \A j \in 1 .. Len(value) :
           value'[j] = IF j = handle[w] THEN value[j] - 1 ELSE value[j]
  BY <1>1, TakeFacts DEF IInv, Wake
<1>3. \A v \in Waiters \ {w} :
        handle[v] # 0 => handle[v] # handle[w] /\ handle[v] \in 1 .. Len(value)
  BY <1>1 DEF IInv, TypeOK, HandleInv, NamesInv, Procs
<1>4. \A v \in Waiters \ {w} :
        /\ handle'[v] = handle[v] /\ pc'[v] = pc[v]
        /\ handle[v] # 0 => value'[handle'[v]] = value[handle[v]]
  BY <1>1, <1>2, <1>3 DEF IInv, TypeOK, Procs, Go, Wake
<1>5. TypeOK'
  BY <1>1, <1>2 DEF IInv, TypeOK, WaiterPlaces, NotifierPlaces, Procs, Go, Wake
<1>6. (LockInv /\ HandleInv /\ NamesInv /\ ListInv /\ FlagInv)'
  BY <1>1 DEF IInv, TypeOK, LockInv, InSection, HandleInv, NamesInv, ListInv, FlagInv, Procs,
     Go, Wake
<1>7. FirstLifeInv'
  BY <1>1, <1>4 DEF IInv, TypeOK, HandleInv, FirstLifeInv, Procs, Go, Wake
<1>8. NoLostWakeup'
  BY <1>1, <1>4 DEF IInv, TypeOK, HandleInv, NoLostWakeup, StillToBeSignalled, Procs, Go, Wake
<1>9. QED
  BY <1>5, <1>6, <1>7, <1>8 DEF IInv

LEMMA LeaveKeeps ==
  ASSUME IInv, NEW w \in Waiters, Leave(w)
  PROVE  IInv'
<1>1. handle[w] # 0 /\ w \in Procs /\ w # Notifier
  BY RolesAssumption DEF IInv, HandleInv, Procs, Go, Leave
<1>2. /\ handle[w] \in 1 .. Len(value)
      /\ value' \in Seq(Nat) /\ Len(value') = Len(value) /\ Len(value) \in Nat
      /\ \A j \in 1 .. Len(value) :
           value'[j] = IF j = handle[w] THEN value[j] + 1 ELSE value[j]
  BY <1>1, SignalFacts DEF IInv, Leave
<1>3. \A v \in Waiters \ {w} :
        handle[v] # 0 => handle[v] # handle[w] /\ handle[v] \in 1 .. Len(value)
  BY <1>1 DEF IInv, TypeOK, HandleInv, NamesInv, Procs
<1>4. \A v \in Waiters \ {w} :
        /\ handle'[v] = handle[v] /\ pc'[v] = pc[v]
        /\ handle[v] # 0 => value'[handle'[v]] = value[handle[v]]
  BY <1>1, <1>2, <1>3 DEF IInv, TypeOK, Procs, Go, Leave
<1>5. TypeOK'
  BY <1>1, <1>2 DEF IInv, TypeOK, WaiterPlaces, NotifierPlaces, Procs, Go, Leave
<1>6. (LockInv /\ HandleInv /\ NamesInv /\ ListInv /\ FlagInv)'
  BY <1>1 DEF IInv, TypeOK, LockInv, InSection, HandleInv, NamesInv, ListInv, FlagInv, Procs,
     Go, Leave
<1>7. FirstLifeInv'
  BY <1>1, <1>4 DEF IInv, TypeOK, HandleInv, FirstLifeInv, Procs, Go, Leave
<1>8. NoLostWakeup'
  BY <1>1, <1>4 DEF IInv, TypeOK, HandleInv, NoLostWakeup, StillToBeSignalled, Procs, Go, Leave
<1>9. QED
  BY <1>5, <1>6, <1>7, <1>8 DEF IInv

LEMMA OpenOwnKeeps ==
  ASSUME IInv, NEW w \in Waiters, OpenOwn(w)
  PROVE  IInv'
<1>1. handle[w] = 0 /\ w \in Procs /\ w # Notifier /\ pc[w] = "locked" /\ OpenSemaphore(w, w)
  BY RolesAssumption DEF IInv, HandleInv, Procs, Go, OpenOwn
<1>2. /\ value' \in Seq(Nat) /\ Len(value) \in Nat /\ Len(value') \in Nat
      /\ Len(value') >= Len(value)
      /\ \A i \in 1 .. Len(value) : value'[i] = value[i]
      /\ named'[w] \in 1 .. Len(value')
      /\ named' = [named EXCEPT ![w] = named'[w]]
      /\ handle' = [handle EXCEPT ![w] = named'[w]]
      /\ named[w] # 0 => UNCHANGED <<value, named>>
      /\ named[w] = 0 => named'[w] = Len(value) + 1 /\ value'[named'[w]] = 1
  BY <1>1, OpenSemaphoreFacts DEF IInv
<1>3. \A v \in Waiters \ {w} :
        /\ handle'[v] = handle[v] /\ named'[v] = named[v] /\ pc'[v] = pc[v]
        /\ handle[v] # 0 => value'[handle'[v]] = value[handle[v]]
        /\ named[v] # named'[w]
  <2>1. \A v \in Waiters : handle[v] \in 0 .. Len(value) /\ named[v] \in 0 .. Len(value)
    BY DEF IInv, TypeOK, Procs
  <2>2. \A v \in Waiters \ {w} :
          /\ handle'[v] = handle[v] /\ named'[v] = named[v] /\ pc'[v] = pc[v]
          /\ handle[v] # 0 => value'[handle'[v]] = value[handle[v]]
    BY <1>1, <1>2, <2>1 DEF IInv, TypeOK, Procs, Go, OpenOwn
  <2>3. ASSUME NEW v \in Waiters \ {w}
        PROVE  named[v] # named'[w]
    <3>1. CASE named[w] # 0
      BY <1>2, <3>1 DEF IInv, NamesInv
    <3>2. CASE named[w] = 0
      BY <1>2, <2>1, <3>2
    <3>3. QED
      BY <3>1, <3>2
  <2>4. QED
    BY <2>2, <2>3
<1>4. handle'[w] = named'[w] /\ handle'[w] # 0 /\ pc'[w] = "opened"
  BY <1>1, <1>2 DEF IInv, TypeOK, Procs, Go, OpenOwn
<1>5. TypeOK'
  <2>0. named \in [Waiters -> 0 .. Len(value')]
    BY <1>2 DEF IInv, TypeOK
  <2>1. named' \in [Waiters -> 0 .. Len(value')]
    BY <1>2, <2>0
  <2>2. handle' \in [Procs -> 0 .. Len(value')]
    BY <1>1, <1>2 DEF IInv, TypeOK
  <2>3. QED
    BY <1>1, <1>2, <2>1, <2>2
    DEF IInv, TypeOK, WaiterPlaces, NotifierPlaces, Procs, Go, OpenOwn
<1>6. (LockInv /\ HandleInv /\ ListInv /\ FlagInv)'
  <2>1. pc'[Notifier] = pc[Notifier] /\ handle'[Notifier] = handle[Notifier]
    BY <1>1, <1>2, RolesAssumption DEF IInv, TypeOK, Procs, Go, OpenOwn
  <2>2. HandleInv'
    BY <1>3, <1>4, <2>1 DEF IInv, HandleInv
  <2>3. (LockInv /\ ListInv /\ FlagInv)'
    BY <1>1, <1>3, <1>4, <2>1
    DEF IInv, LockInv, InSection, ListInv, FlagInv, Procs, OpenOwn
  <2>4. QED
    BY <2>2, <2>3
<1>7. NamesInv'
  BY <1>3, <1>4 DEF IInv, NamesInv
<1>8. FirstLifeInv'
  <2>1. w \notin reused => value'[handle'[w]] > 0 /\ w \notin Range(list)
    BY <1>1, <1>2, <1>4 DEF IInv, FirstLifeInv
  <2>2. QED
    BY <1>1, <1>3, <1>4, <2>1 DEF IInv, TypeOK, HandleInv, FirstLifeInv, Procs, Go, OpenOwn
<1>9. NoLostWakeup'
  BY <1>1, <1>3, <1>4
  DEF IInv, TypeOK, HandleInv, NoLostWakeup, StillToBeSignalled, Procs, Go, OpenOwn
<1>10. QED
  BY <1>5, <1>6, <1>7, <1>8, <1>9 DEF IInv

LEMMA OpenTheirsKeeps ==
  ASSUME IInv, OpenTheirs
  PROVE  IInv'
<1> DEFINE w == Head(todo)
<1>1. /\ w \in Waiters /\ Tail(todo) \in Seq(Waiters)
      /\ Range(todo) = {w} \cup Range(Tail(todo))
  BY RangeOfTail DEF IInv, TypeOK, OpenTheirs
<1>2. handle[Notifier] = 0 /\ Notifier \in Procs /\ Notifier \notin Waiters
      /\ pc[Notifier] = "notifying" /\ OpenSemaphore(Notifier, w)
  BY RolesAssumption DEF IInv, HandleInv, Procs, Go, OpenTheirs
<1>3. w \in Range(list)
  BY <1>1 DEF IInv, ListInv
<1> HIDE DEF w
<1>4. /\ value' \in Seq(Nat) /\ Len(value) \in Nat /\ Len(value') \in Nat
      /\ Len(value') >= Len(value)
      /\ \A i \in 1 .. Len(value) : value'[i] = value[i]
      /\ named'[w] \in 1 .. Len(value')
      /\ named' = [named EXCEPT ![w] = named'[w]]
      /\ handle' = [handle EXCEPT ![Notifier] = named'[w]]
      /\ named[w] # 0 => UNCHANGED <<value, named>>
      /\ named[w] = 0 => named'[w] = Len(value) + 1 /\ value'[named'[w]] = 1
  BY <1>1, <1>2, OpenSemaphoreFacts DEF IInv
<1>5. \A v \in Waiters :
        /\ handle'[v] = handle[v] /\ pc'[v] = pc[v]
        /\ handle[v] # 0 => value'[handle'[v]] = value[handle[v]] /\ named'[v] = named[v]
        /\ v # w => named'[v] = named[v] /\ named[v] # named'[w]
  <2>1. \A v \in Waiters : handle[v] \in 0 .. Len(value) /\ named[v] \in 0 .. Len(value)
    BY DEF IInv, TypeOK, Procs
  <2>2. \A v \in Waiters :
          /\ handle'[v] = handle[v] /\ pc'[v] = pc[v]
          /\ handle[v] # 0 => value'[handle'[v]] = value[handle[v]]
          /\ v # w => named'[v] = named[v]
    <3>1. \A v \in Waiters : handle'[v] = handle[v] /\ pc'[v] = pc[v]
      BY <1>2, <1>4 DEF IInv, TypeOK, Procs, Go, OpenTheirs
    <3>2. \A v \in Waiters : v # w => named'[v] = named[v]
      BY <1>1, <1>4 DEF IInv, TypeOK
    <3>3. QED
      BY <1>4, <2>1, <3>1, <3>2
  <2>3. handle[w] # 0 => named'[w] = named[w]
    BY <1>1, <1>4 DEF IInv, HandleInv
  <2>4. ASSUME NEW v \in Waiters, v # w
        PROVE  named[v] # named'[w]
    <3>1. CASE named[w] # 0
      BY <1>1, <1>4, <2>4, <3>1 DEF IInv, NamesInv
    <3>2. CASE named[w] = 0
      BY <1>4, <2>1, <3>2
    <3>3. QED
      BY <3>1, <3>2
  <2>5. QED
    BY <2>2, <2>3, <2>4
<1>6. handle'[Notifier] = named'[w] /\ named'[w] # 0 /\ pc'[Notifier] = "signalling"
  BY <1>2, <1>4 DEF IInv, TypeOK, Go, OpenTheirs
<1>7. TypeOK'
  <2>0. named \in [Waiters -> 0 .. Len(value')]
    BY <1>4 DEF IInv, TypeOK
  <2>1. named' \in [Waiters -> 0 .. Len(value')]
    BY <1>4, <2>0
  <2>2. handle' \in [Procs -> 0 .. Len(value')]
    BY <1>2, <1>4 DEF IInv, TypeOK
  <2>3. QED
    BY <1>2, <1>4, <2>1, <2>2
    DEF IInv, TypeOK, WaiterPlaces, NotifierPlaces, Procs, Go, OpenTheirs
<1>8. (LockInv /\ HandleInv /\ ListInv /\ FlagInv)'
  BY <1>2, <1>5, <1>6
  DEF IInv, TypeOK, LockInv, InSection, HandleInv, ListInv, FlagInv, Procs, Go, OpenTheirs
<1>9. NamesInv'
  BY <1>5, <1>6 DEF IInv, NamesInv
<1>10. FirstLifeInv'
  <2>1. ASSUME NEW v \in Waiters, v \notin reused
        PROVE  /\ pc[v] \in {"out", "calling", "locked"} => named'[v] = 0
               /\ pc[v] = "opened" => value'[handle'[v]] > 0
    BY <1>3, <1>5, <2>1 DEF IInv, HandleInv, FirstLifeInv
  <2>2. QED
    BY <1>5, <2>1 DEF IInv, FirstLifeInv, OpenTheirs
<1>11. NoLostWakeup'
  <2>1. ASSUME NEW v \in Waiters, pc[v] = "asleep", v \in Range(todo)
        PROVE  handle'[Notifier] = handle'[v] \/ v \in Range(Tail(todo))
    BY <1>1, <1>5, <1>6, <2>1 DEF IInv, HandleInv
  <2>2. QED
    BY <1>2, <1>5, <1>6, <2>1
    DEF IInv, TypeOK, HandleInv, NoLostWakeup, StillToBeSignalled, Procs, Go, OpenTheirs
<1>12. QED
  BY <1>7, <1>8, <1>9, <1>10, <1>11 DEF IInv

LEMMA SignalTheirsKeeps ==
  ASSUME IInv, SignalTheirs
  PROVE  IInv'
<1>1. /\ Head(todo) \in Waiters /\ Tail(todo) \in Seq(Waiters)
      /\ Range(todo) = {Head(todo)} \cup Range(Tail(todo))
  BY RangeOfTail DEF IInv, TypeOK, ListInv, Go, SignalTheirs
<1>2. handle[Notifier] # 0 /\ Notifier \in Procs /\ Notifier \notin Waiters
      /\ pc[Notifier] = "signalling"
  BY RolesAssumption DEF IInv, HandleInv, Procs, Go, SignalTheirs
<1>3. /\ handle[Notifier] \in 1 .. Len(value)
      /\ value' \in Seq(Nat) /\ Len(value') = Len(value) /\ Len(value) \in Nat
      /\ \A j \in 1 .. Len(value) :
           value'[j] = IF j = handle[Notifier] THEN value[j] + 1 ELSE value[j]
  BY <1>2, SignalFacts DEF IInv, SignalTheirs
<1>4. \A v \in Waiters :
        /\ handle'[v] = handle[v] /\ pc'[v] = pc[v]
        /\ handle[v] # 0 => value'[handle'[v]] > 0 \/ value'[handle'[v]] = value[handle[v]]
        /\ handle[v] # 0 /\ value[handle[v]] > 0 => value'[handle'[v]] > 0
        /\ handle[v] = handle[Notifier] => value'[handle'[v]] > 0
  <2>1. \A v \in Waiters : handle[v] # 0 => handle[v] \in 1 .. Len(value)
    BY DEF IInv, TypeOK, Procs
  <2>2. \A j \in 1 .. Len(value) : value[j] \in Nat
    BY DEF IInv, TypeOK
  <2>3. \A v \in Waiters : handle'[v] = handle[v] /\ pc'[v] = pc[v]
    BY <1>2 DEF IInv, TypeOK, Procs, Go, SignalTheirs
  <2>4. ASSUME NEW v \in Waiters
        PROVE  /\ handle[v] # 0 => value'[handle'[v]] > 0 \/ value'[handle'[v]] = value[handle[v]]
               /\ handle[v] # 0 /\ value[handle[v]] > 0 => value'[handle'[v]] > 0
               /\ handle[v] = handle[Notifier] => value'[handle'[v]] > 0
    <3>1. CASE handle[v] = 0
      BY <1>2, <3>1
    <3>2. CASE handle[v] # 0
      <4>1. handle[v] \in 1 .. Len(value) /\ value[handle[v]] \in Nat
        BY <2>1, <2>2, <3>2
      <4>2. value'[handle[v]] = IF handle[v] = handle[Notifier] THEN value[handle[v]] + 1
                                                               ELSE value[handle[v]]
        BY <1>3, <4>1
      <4>3. QED
        BY <2>3, <4>1, <4>2
    <3>3. QED
      BY <3>1, <3>2
  <2>5. QED
    BY <2>3, <2>4
<1>5. TypeOK'
  <2>0. handle \in [Procs -> 0 .. Len(value')]
    BY <1>3 DEF IInv, TypeOK
  <2>1. handle' \in [Procs -> 0 .. Len(value')]
    <3>1. handle' = [handle EXCEPT ![Notifier] = 0]
      BY DEF SignalTheirs
    <3>2. 0 \in 0 .. Len(value')
      BY <1>3
    <3>3. QED
      BY <2>0, <3>1, <3>2
  <2>2. named' \in [Waiters -> 0 .. Len(value')]
    BY <1>3 DEF IInv, TypeOK, SignalTheirs
  <2>3. QED
    BY <1>1, <1>2, <1>3, <2>1, <2>2
    DEF IInv, TypeOK, WaiterPlaces, NotifierPlaces, Procs, Go, SignalTheirs
<1>6. (LockInv /\ HandleInv /\ NamesInv /\ ListInv /\ FlagInv)'
  BY <1>1, <1>2, <1>4
  DEF IInv, TypeOK, LockInv, InSection, HandleInv, NamesInv, ListInv, FlagInv, Procs, Go,
      SignalTheirs
<1>7. FirstLifeInv'
  BY <1>2, <1>4 DEF IInv, TypeOK, HandleInv, FirstLifeInv, Procs, Go, SignalTheirs
<1>8. NoLostWakeup'
  <2>1. ASSUME NEW v \in Waiters, pc[v] = "asleep", ready, value'[handle'[v]] = 0
        PROVE  v \in Range(Tail(todo)) \/ v \in missed
    <3>1. value[handle[v]] = 0 /\ handle[v] # handle[Notifier]
      BY <1>4, <2>1 DEF IInv, HandleInv
    <3>2. QED
      BY <1>2, <2>1, <3>1 DEF IInv, NoLostWakeup, StillToBeSignalled
  <2>2. pc'[Notifier] = "notifying" /\ todo' = Tail(todo) /\ UNCHANGED <<ready, missed>>
    BY <1>2 DEF IInv, TypeOK, Go, SignalTheirs
  <2>3. QED
    BY <1>4, <2>1, <2>2 DEF NoLostWakeup, StillToBeSignalled
<1>9. QED
  BY <1>5, <1>6, <1>7, <1>8 DEF IInv

-----------------------------------------------------------------------------
LEMMA InitHolds == Init => IInv
<1> SUFFICES ASSUME Init
             PROVE  IInv
  OBVIOUS
<1>1. TypeOK
  <2>1. value \in Seq(Nat) /\ list \in Seq(Waiters) /\ todo \in Seq(Waiters)
    BY DEF Init
  <2>2. 0 \in 0 .. Len(value)
    BY DEF Init
  <2>3. pc \in [Procs -> WaiterPlaces \cup NotifierPlaces]
        /\ \A p \in Procs : pc[p] = "out"
    BY DEF Init, WaiterPlaces
  <2>4. named \in [Waiters -> 0 .. Len(value)] /\ handle \in [Procs -> 0 .. Len(value)]
    BY <2>2 DEF Init
  <2>5. (\A w \in Waiters : pc[w] \in WaiterPlaces) /\ pc[Notifier] \in NotifierPlaces
    BY <2>3 DEF Procs, WaiterPlaces, NotifierPlaces
  <2>6. lock \in Procs \cup {Nobody} /\ missed \subseteq Waiters /\ reused \subseteq Waiters
    BY DEF Init
  <2>7. ready \in BOOLEAN
    BY DEF Init
  <2>8. faults \in 0 .. MaxFaults
    BY FaultsAssumption DEF Init
  <2>9. QED
    BY <2>1, <2>3, <2>4, <2>5, <2>6, <2>7, <2>8 DEF TypeOK
<1>2. LockInv /\ HandleInv /\ NamesInv /\ FirstLifeInv /\ FlagInv /\ NoLostWakeup
  BY RangeOfNothing, RolesAssumption
  DEF Init, Procs, LockInv, InSection, HandleInv, NamesInv, FirstLifeInv, FlagInv, NoLostWakeup
<1>3. ListInv
  BY RangeOfNothing, RolesAssumption DEF Init, Procs, ListInv
<1>4. QED
  BY <1>1, <1>2, <1>3 DEF IInv

LEMMA StepKeeps == IInv /\ [Next]_vars => IInv'
<1> SUFFICES ASSUME IInv, [Next]_vars
             PROVE  IInv'
  OBVIOUS
<1>1. ASSUME NEW w \in Waiters, CallWait(w)  PROVE IInv'
  BY <1>1, CallWaitKeeps
<1>2. ASSUME NEW w \in Waiters, WaiterStep(w)  PROVE IInv'
  BY <1>2, LockWaiterKeeps, AlreadyReadyKeeps, OpenOwnKeeps, TakeOwnKeeps, RegisterKeeps,
     TestKeeps, WakeKeeps, LeaveKeeps DEF WaiterStep
<1>3. ASSUME NEW w \in Waiters, Restart(w)  PROVE IInv'
  BY <1>3, RestartKeeps
<1>4. CASE NotifierStep
  BY <1>4, LockNotifierKeeps, SetReadyKeeps, ReadListKeeps, OpenTheirsKeeps,
     SignalTheirsKeeps, NotifiedKeeps DEF NotifierStep
<1>5. ASSUME NEW p \in Procs, Die(p)  PROVE IInv'
  BY <1>5, DieKeeps
<1>6. CASE UNCHANGED vars
  BY <1>6 DEF vars, IInv, TypeOK, LockInv, InSection, HandleInv, NamesInv, ListInv,
     FirstLifeInv, FlagInv, NoLostWakeup, StillToBeSignalled
<1>7. QED
  BY <1>1, <1>2, <1>3, <1>4, <1>5, <1>6, CallNotifyKeeps, DeliveryFailsKeeps DEF Next

LEMMA Invariance == Spec => []IInv
BY InitHolds, StepKeeps, PTL DEF Spec

(* Every variable keeps its type: above all, the indices kept under names and
   in open handles are those of semaphores that exist. *)
THEOREM TypeCorrect == Spec => []TypeOK
<1>1. IInv => TypeOK
  BY DEF IInv
<1>2. QED
  BY <1>1, Invariance, PTL

(* The condition's file lock excludes: no two processes are inside the with
   block of wait_for_ready and notify_ready together, whoever dies. *)
MutualExclusion == \A p, q \in Procs : InSection(p) /\ InSection(q) => p = q

THEOREM LockExcludes == Spec => []MutualExclusion
<1>1. IInv => MutualExclusion
  BY DEF IInv, LockInv, MutualExclusion
<1>2. QED
  BY <1>1, Invariance, PTL

(* wait_for_ready and notify_ready lose no wakeup: who sleeps on an empty
   semaphore with the flag up is still to be signalled, unless the notifier
   died or could not deliver the signal. *)
THEOREM NoLostWakeupAlways == Spec => []NoLostWakeup
<1>1. IInv => NoLostWakeup
  BY DEF IInv
<1>2. QED
  BY <1>1, Invariance, PTL

(* The first acquire of a waiter's semaphore, made under the condition's lock,
   does not block, unless the waiter has the pid of a dead one. *)
THEOREM HolderNeverSleepsAlways == Spec => []HolderNeverSleeps
<1>1. IInv => HolderNeverSleeps
  BY DEF IInv, FirstLifeInv, HolderNeverSleeps
<1>2. QED
  BY <1>1, Invariance, PTL

-----------------------------------------------------------------------------
(* The latch *)

WhereBar == [w \in Waiters |->
               IF pc[w] \in {"out", "returned", "dead"} THEN pc[w] ELSE "waiting"]

LEMMA LatchInit == Init => Latch!Init
BY DEF Init, Latch!Init, Procs

LEMMA Moves ==
  ASSUME TypeOK, NEW p \in Procs, NEW place, pc' = [pc EXCEPT ![p] = place]
  PROVE  /\ p \in Waiters =>
              WhereBar' = [WhereBar EXCEPT ![p] = IF place \in {"out", "returned", "dead"}
                                                   THEN place ELSE "waiting"]
         /\ p \notin Waiters => WhereBar' = WhereBar
BY DEF TypeOK, WhereBar, Procs

LEMMA LatchStep == IInv /\ [Next]_vars => [Latch!Next]_(Latch!latchVars)
<1> SUFFICES ASSUME IInv, [Next]_vars
             PROVE  [Latch!Next]_(Latch!latchVars)
  OBVIOUS
<1> USE RolesAssumption DEF Procs
<1>1. ASSUME NEW w \in Waiters, CallWait(w)
      PROVE  Latch!Wait(w)
  BY <1>1, Moves DEF CallWait, Go, WhereBar, Latch!Wait, Latch!Move, IInv
<1>2. ASSUME NEW w \in Waiters, WaiterStep(w)
      PROVE  Latch!Return(w) \/ UNCHANGED <<ready, WhereBar>>
  <2>1. CASE AlreadyReady(w)
    BY <2>1, Moves DEF AlreadyReady, Go, WhereBar, Latch!Return, Latch!Move, IInv
  <2>2. CASE Leave(w)
    BY <2>2, Moves DEF Leave, Go, WhereBar, Latch!Return, Latch!Move, IInv, FlagInv
  <2>3. CASE LockWaiter(w) \/ OpenOwn(w) \/ TakeOwn(w) \/ Register(w) \/ Test(w) \/ Wake(w)
    BY <2>3 DEF LockWaiter, OpenOwn, TakeOwn, Register, Test, Wake, Go, WhereBar, IInv, TypeOK
  <2>4. QED
    BY <1>2, <2>1, <2>2, <2>3 DEF WaiterStep
<1>3. ASSUME NEW w \in Waiters, Restart(w)
      PROVE  Latch!Restart(w)
  BY <1>3, Moves DEF Restart, Go, WhereBar, Latch!Restart, Latch!Move, IInv
<1>4. CASE SetReady
  BY <1>4, Moves DEF SetReady, Go, WhereBar, Latch!Set, IInv, Latch!Next
<1>5. CASE CallNotify \/ LockNotifier \/ ReadList \/ OpenTheirs \/ SignalTheirs
           \/ DeliveryFails \/ Notified
  <2>1. UNCHANGED <<ready, WhereBar>>
    BY <1>5 DEF CallNotify, LockNotifier, ReadList, OpenTheirs, SignalTheirs, DeliveryFails,
       Notified, Go, WhereBar, IInv, TypeOK
  <2>2. QED
    BY <2>1 DEF WhereBar, Latch!latchVars
<1>6. ASSUME NEW p \in Procs, Die(p)
      PROVE  [Latch!Next]_(Latch!latchVars)
  <2>1. CASE p \in Waiters
    BY <1>6, <2>1, Moves DEF Die, WhereBar, Latch!Die, Latch!Next, IInv
  <2>2. CASE p \notin Waiters
    BY <1>6, <2>2, Moves DEF Die, WhereBar, Latch!latchVars, IInv
  <2>3. QED
    BY <2>1, <2>2
<1>7. CASE UNCHANGED vars
  BY <1>7 DEF vars, Latch!latchVars
<1>8. QED
  BY <1>1, <1>2, <1>3, <1>4, <1>5, <1>6, <1>7
  DEF Next, NotifierStep, Latch!Next, Latch!latchVars, WhereBar

(* The condition implements the latch: wait_for_ready returns only to a process
   that called it and only once notify_ready has raised the flag, whatever
   wakes, deaths and reused pids come in between. *)
THEOREM LatchImplemented == Spec => ImplementsLatch
BY LatchInit, LatchStep, Invariance, PTL DEF Spec, ImplementsLatch, Latch!Spec
=============================================================================
