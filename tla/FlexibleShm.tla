----------------------------- MODULE FlexibleShm -----------------------------
(***************************************************************************)
(* The coordination block of processes that share weights                  *)
(* (shm/coordinator.py over shm/flexible_shm.py).                          *)
(*                                                                         *)
(* Four names are involved: the main lock file, the block, the keep-alive  *)
(* dictionary and the segment of the notification condition.  A name leads *)
(* to an object; unlinking removes the name and leaves the object to those *)
(* who hold it, and the next open makes a new one.  Objects are numbered   *)
(* in the order they are made, 0 is none.                                  *)
(*                                                                         *)
(* Whoever makes the block is the creator, the others follow: they check   *)
(* its header and wait until it is ready.  The last process to close, by   *)
(* the heartbeats in the dictionary, unlinks the names.  What goes on      *)
(* inside wait_for_ready and notify_ready is module ShmCondition; here     *)
(* only its flag counts.                                                   *)
(*                                                                         *)
(* The dictionary gives every registered process a slot for the time of    *)
(* its last heartbeat; of the times only those older than the timeout are  *)
(* told apart, the stale slots.  hnd[p].slot is where the heartbeat thread *)
(* of p writes, whether or not the entry is still its own.                 *)
(***************************************************************************)
EXTENDS Naturals, Sequences, FiniteSets, Functions

CONSTANTS Procs,     \* each opens the coordination block once
          Nobody,    \* the holder of a free lock
          MaxFaults  \* bound on deaths and late heartbeats

ASSUME ProcsAssumption == Nobody \notin Procs /\ MaxFaults \in Nat

Kinds == {"lock", "block", "dict", "cond"}

VARIABLES
  pc,       \* where each process is
  names,    \* kind -> the object its name leads to
  hnd,      \* process -> kind -> the object it has open, and its slot
  store,    \* kind -> the contents of every object made so far
  creator,  \* processes that made the block they are attached to
  faults,
  mistaken, \* history: processes taken for dead that were alive
  split,    \* history: a lock file was unlinked while others had it open
  unclean   \* history: a process died or closed without the lock

history == <<mistaken, split, unclean>>
vars == <<pc, names, hnd, store, creator, faults, mistaken, split, unclean>>

(* What an object holds when it is made. *)
New == [lock |-> Nobody, block |-> [header |-> FALSE, notified |-> FALSE],
        dict |-> [slot |-> << >>, stale |-> {}], cond |-> FALSE]

None == [k \in Kinds \cup {"slot"} |-> 0]

Init ==
  /\ pc = [p \in Procs |-> "out"]
  /\ names = [k \in Kinds |-> 0]
  /\ hnd = [p \in Procs |-> None]
  /\ store = [k \in Kinds |-> <<>>]
  /\ creator = {}
  /\ faults = 0
  /\ mistaken = {} /\ split = FALSE /\ unclean = FALSE

Go(p, from, to) == pc[p] = from /\ pc' = [pc EXCEPT ![p] = to]

Alive(ps) == {p \in ps : pc[p] # "dead"}

Of(p, k) == store[k][hnd[p][k]]

(* KeepAliveDict: prepare_slot takes the first gap, or the next slot; pop
   gives a slot back. *)
FreeSlotByCount(d) == Cardinality(DOMAIN d.slot) + 1
FreeSlot(d) ==
  LET free == (1 .. Cardinality(DOMAIN d.slot) + 1) \ Range(d.slot)
  IN  CHOOSE i \in free : \A j \in free : i <= j
PrepareSlot(d, p) == IF p \in DOMAIN d.slot THEN d.slot[p] ELSE FreeSlot(d)
Registered(d, p) ==
  [slot  |-> [q \in DOMAIN d.slot \cup {p} |-> IF q = p THEN PrepareSlot(d, p) ELSE d.slot[q]],
   stale |-> d.stale \ {PrepareSlot(d, p)}]
Pop(d, ps) ==
  [slot  |-> Restrict(d.slot, DOMAIN d.slot \ ps),
   stale |-> d.stale \ {d.slot[q] : q \in ps \cap DOMAIN d.slot}]
Late(d) == {q \in DOMAIN d.slot : d.slot[q] \in d.stale}
AllLate(d) == Late(d) = DOMAIN d.slot

(* Slip: takes it for granted that somebody has made it. *)
OpenOnly(p, k) ==
  LET o == IF names[k] = 0 THEN Len(store[k]) + 1 ELSE names[k]
  IN  /\ hnd' = [hnd EXCEPT ![p][k] = o]
      /\ names' = [names EXCEPT ![k] = o]
      /\ UNCHANGED store

(* Opens what the name leads to, and makes it first where there is nothing. *)
OpenOrMake(p, k) ==
  LET made == Len(store[k]) + 1
      o    == IF names[k] = 0 THEN made ELSE names[k]
  IN  /\ hnd' = [hnd EXCEPT ![p][k] = o]
      /\ names' = [names EXCEPT ![k] = o]
      /\ store' = IF names[k] = 0
                    THEN [store EXCEPT ![k] = Append(@, New[k])]
                    ELSE store

-----------------------------------------------------------------------------
(* FlexibleSharedMemory(name, size).  The coordinator first tries size 0,
   which connects only ("try"), and on FileNotFoundError a positive size,
   which makes what is missing ("make"). *)

OpenLock(p) ==
  /\ \/ Go(p, "out", "tryLock")
     \/ Go(p, "missing", "makeLock")
  /\ OpenOrMake(p, "lock")
  /\ UNCHANGED <<creator, faults, history>>

Locked(p, on) == store' = [store EXCEPT !.lock[hnd[p].lock] = on]

AcquireMain(p) ==
  /\ Go(p, "tryLock", "tryBlock") \/ Go(p, "makeLock", "makeBlock")
  /\ Of(p, "lock") = Nobody
  /\ Locked(p, p)
  /\ UNCHANGED <<names, hnd, creator, faults, history>>

TimeOut(p) ==
  /\ Go(p, "tryLock", "failed") \/ Go(p, "makeLock", "failed")
  /\ Of(p, "lock") # Nobody
  /\ hnd' = [hnd EXCEPT ![p] = None]
  /\ UNCHANGED <<names, store, creator, faults, history>>

(* A name is missing: leave the dictionary if need be, free the lock and come
   back with a positive size. *)
Missing(p) ==
  /\ \/ pc[p] = "tryBlock" /\ names.block = 0
     \/ pc[p] = "tryDict" /\ names.dict = 0
     \/ pc[p] = "tryCond" /\ names.cond = 0
  /\ pc' = [pc EXCEPT ![p] = "missing"]
  /\ store' = [store EXCEPT !.lock[hnd[p].lock] = Nobody,
                            !.dict = IF hnd[p].dict = 0 THEN store.dict
                                     ELSE [store.dict EXCEPT ![hnd[p].dict] = Pop(@, {p})]]
  /\ hnd' = [hnd EXCEPT ![p] = None]
  /\ UNCHANGED <<names, creator, faults, history>>

AttachBlock(p) ==
  /\ \/ names.block # 0 /\ Go(p, "tryBlock", "tryDict")
     \/ Go(p, "makeBlock", "makeDict")
  /\ OpenOrMake(p, "block")
  /\ creator' = IF names.block = 0 THEN creator \cup {p} ELSE creator
  /\ UNCHANGED <<faults, history>>

(* KeepAlive(...): connect or make, and take a slot with a first heartbeat. *)
Register(p) ==
  /\ \/ names.dict # 0 /\ Go(p, "tryDict", "tryCond")
     \/ Go(p, "makeDict", "makeCond")
  /\ LET made == Len(store.dict) + 1
         d    == IF names.dict = 0 THEN made ELSE names.dict
         old  == IF names.dict = 0 THEN New.dict ELSE store.dict[d]
     IN  /\ names' = [names EXCEPT !.dict = d]
         /\ hnd' = [hnd EXCEPT ![p].dict = d, ![p].slot = PrepareSlot(old, p)]
         /\ store' = [store EXCEPT !.dict =
                        IF d = made THEN Append(@, Registered(old, p))
                        ELSE [store.dict EXCEPT ![d] = Registered(@, p)]]
  /\ UNCHANGED <<creator, faults, history>>

AttachCondition(p) ==
  /\ \/ names.cond # 0 /\ Go(p, "tryCond", "tryUnlock")
     \/ Go(p, "makeCond", "makeUnlock")
  /\ OpenOrMake(p, "cond")
  /\ UNCHANGED <<creator, faults, history>>

ReleaseMain(p) ==
  /\ \/ Go(p, "tryUnlock", "tryValidate")
     \/ Go(p, "makeUnlock", IF p \in creator THEN "heading" ELSE "makeValidate")
  /\ Locked(p, Nobody)
  /\ UNCHANGED <<names, hnd, creator, faults, history>>

-----------------------------------------------------------------------------
(* ShmCoordinator *)

WriteVersionHeader(p) ==
  /\ Go(p, "heading", "providing")
  /\ store' = [store EXCEPT !.block[hnd[p].block].header = TRUE]
  /\ UNCHANGED <<names, hnd, creator, faults, history>>

(* A header that is not there yet counts as another version.  The process that
   only connected closes the block again; in the other branch nothing does,
   and its heartbeat goes on. *)
ValidateVersion(p) ==
  /\ pc[p] \in {"tryValidate", "makeValidate"}
  /\ pc' = [pc EXCEPT ![p] = IF Of(p, "block").header THEN "waiting"
                            ELSE IF @ = "tryValidate" THEN "closing" ELSE "refused"]
  /\ UNCHANGED <<names, hnd, store, creator, faults, history>>

(* write_profile, then notify_ready: the flag, and for the properties that
   this block's own creator raised it. *)
NotifyReady(p) ==
  /\ Go(p, "providing", "serving")
  /\ store' = [store EXCEPT !.cond[hnd[p].cond] = TRUE,
                            !.block[hnd[p].block].notified = TRUE]
  /\ UNCHANGED <<names, hnd, creator, faults, history>>

WaitForReady(p) ==
  /\ Go(p, "waiting", "using")
  /\ Of(p, "cond")
  /\ UNCHANGED <<names, hnd, store, creator, faults, history>>

(* is_creator_alive: a late heartbeat costs the creator its entry. *)
IsCreatorAlive(p) ==
  /\ pc[p] = "waiting"
  /\ \E c \in creator \cap Late(Of(p, "dict")) :
       /\ hnd[c].block = hnd[p].block
       /\ store' = [store EXCEPT !.dict[hnd[p].dict] = Pop(@, {c})]
       /\ mistaken' = mistaken \cup Alive({c})
  /\ UNCHANGED <<pc, names, hnd, creator, faults, split, unclean>>

-----------------------------------------------------------------------------
(* close *)

(* notification_condition.close() comes first, so that the unlink() of the
   last process finds nothing to unlink: the condition's name stays. *)
Close(p) ==
  /\ pc[p] \in {"providing", "serving", "waiting", "using"}
  /\ pc' = [pc EXCEPT ![p] = "closing"]
  /\ UNCHANGED <<names, hnd, store, creator, faults, history>>

TryAcquireLock(p) ==
  /\ Go(p, "closing", "stopping")
  /\ Of(p, "lock") = Nobody
  /\ Locked(p, p)
  /\ UNCHANGED <<names, hnd, creator, faults, history>>

(* stop: the thread ends, then the entry goes *)
Unregister(p) == store' = [store EXCEPT !.dict[hnd[p].dict] = Pop(@, {p})]

(* Fifty attempts in five seconds: give up and leave the names alone. *)
CleanupWithoutCoordination(p) ==
  /\ Go(p, "closing", "closed")
  /\ Of(p, "lock") # Nobody
  /\ Unregister(p)
  /\ hnd' = [hnd EXCEPT ![p] = None]
  /\ unclean' = TRUE
  /\ UNCHANGED <<names, creator, faults, mistaken, split>>

StopKeepAlive(p) ==
  /\ Go(p, "stopping", "counting")
  /\ Unregister(p)
  /\ hnd' = [hnd EXCEPT ![p].slot = 0]
  /\ UNCHANGED <<names, creator, faults, history>>

(* Slip: the closing process finds its own entry and never is the last. *)
CountOneself(p) ==
  /\ pc[p] = "counting"
  /\ store' = [store EXCEPT !.dict[hnd[p].dict] = Pop(@, Late(@))]
  /\ mistaken' = mistaken \cup Alive(Late(Of(p, "dict")))
  /\ pc' = [pc EXCEPT ![p] = "leaving"]
  /\ UNCHANGED <<names, hnd, creator, faults, split, unclean>>

(* Slip: the main lock is given back before the names are unlinked. *)
AnyAliveUnlocked(p) ==
  /\ pc[p] = "counting"
  /\ pc' = [pc EXCEPT ![p] = IF AllLate(Of(p, "dict")) THEN "unlinking" ELSE "leaving"]
  /\ store' = [store EXCEPT !.dict[hnd[p].dict] = Pop(@, Late(@)), !.lock[hnd[p].lock] = Nobody]
  /\ mistaken' = mistaken \cup Alive(Late(Of(p, "dict")))
  /\ UNCHANGED <<names, hnd, creator, faults, split, unclean>>

(* any_process_alive drops the entries of late processes and counts the rest. *)
AnyProcessAlive(p) ==
  /\ pc[p] = "counting"
  /\ pc' = [pc EXCEPT ![p] = IF AllLate(Of(p, "dict")) THEN "unlinking" ELSE "leaving"]
  /\ store' = [store EXCEPT !.dict[hnd[p].dict] = Pop(@, Late(@))]
  /\ mistaken' = mistaken \cup Alive(Late(Of(p, "dict")))
  /\ UNCHANGED <<names, hnd, creator, faults, split, unclean>>

Leave(p) ==
  /\ Go(p, "leaving", "closed")
  /\ Locked(p, Nobody)
  /\ hnd' = [hnd EXCEPT ![p] = None]
  /\ UNCHANGED <<names, creator, faults, history>>

(* The last process: one name after the other. *)
Unlink(p, from, k, to) ==
  /\ Go(p, from, to)
  /\ names' = [names EXCEPT ![k] = 0]

UnlinkDict(p) ==
  /\ Unlink(p, "unlinking", "dict", "unlinkBlock")
  /\ UNCHANGED <<hnd, store, creator, faults, history>>

UnlinkBlock(p) ==
  /\ Unlink(p, "unlinkBlock", "block", "closeLock")
  /\ UNCHANGED <<hnd, store, creator, faults, history>>

(* ProcessFileLock.unlink closes the file, which frees the lock, before it
   removes the name. *)
CloseLock(p) ==
  /\ Go(p, "closeLock", "unlinkLock")
  /\ Locked(p, Nobody)
  /\ UNCHANGED <<names, hnd, creator, faults, history>>

Inside(p) == pc[p] \notin {"out", "missing", "closed", "failed", "dead"}

UnlinkLock(p) ==
  /\ Unlink(p, "unlinkLock", "lock", "closed")
  /\ hnd' = [hnd EXCEPT ![p] = None]
  /\ split' = (split \/ \E q \in Procs \ {p} : Inside(q))
  /\ UNCHANGED <<store, creator, faults, mistaken, unclean>>

-----------------------------------------------------------------------------
Fault == faults < MaxFaults /\ faults' = faults + 1

(* The kernel frees the lock; the entry in the dictionary stays. *)
Die(p) ==
  /\ Inside(p)
  /\ Fault
  /\ pc' = [pc EXCEPT ![p] = "dead"]
  /\ store' = [store EXCEPT !.lock[hnd[p].lock] = IF @ = p THEN Nobody ELSE @]
  /\ unclean' = TRUE
  /\ UNCHANGED <<names, hnd, creator, mistaken, split>>

Beats(p) == hnd[p].slot # 0 /\ pc[p] # "dead"

(* No heartbeat for keep_alive_seconds: always so for the dead, and so for the
   living when no thread that writes to the slot gets to run. *)
Lapse(q) ==
  \E d \in 1 .. Len(store.dict) :
    /\ q \in DOMAIN store.dict[d].slot \ Late(store.dict[d])
    /\ LET s == store.dict[d].slot[q]
       IN  /\ IF \A p \in Procs : ~(Beats(p) /\ hnd[p].dict = d /\ hnd[p].slot = s)
              THEN UNCHANGED faults ELSE Fault
           /\ store' = [store EXCEPT !.dict[d].stale = @ \cup {s}]
    /\ UNCHANGED <<pc, names, hnd, creator, history>>

(* The thread does not take the lock and does not look whose slot it is. *)
Beat(p) ==
  /\ Beats(p) /\ hnd[p].slot \in Of(p, "dict").stale
  /\ store' = [store EXCEPT !.dict[hnd[p].dict].stale = @ \ {hnd[p].slot}]
  /\ UNCHANGED <<pc, names, hnd, creator, faults, history>>

Step(p) ==
  \/ OpenLock(p)
  \/ AcquireMain(p)
  \/ TimeOut(p)
  \/ Missing(p)
  \/ AttachBlock(p)
  \/ Register(p)
  \/ AttachCondition(p)
  \/ ReleaseMain(p)
  \/ WriteVersionHeader(p)
  \/ ValidateVersion(p)
  \/ NotifyReady(p)
  \/ WaitForReady(p)
  \/ TryAcquireLock(p)
  \/ CleanupWithoutCoordination(p)
  \/ StopKeepAlive(p)
  \/ AnyProcessAlive(p)
  \/ Leave(p)
  \/ UnlinkDict(p)
  \/ UnlinkBlock(p)
  \/ CloseLock(p)
  \/ UnlinkLock(p)

Next ==
  \E p \in Procs :
    \/ Step(p)
    \/ Close(p)
    \/ IsCreatorAlive(p)
    \/ Die(p)
    \/ Lapse(p)
    \/ Beat(p)

Spec == Init /\ [][Next]_vars

-----------------------------------------------------------------------------
Places ==
  {"out", "missing", "closed", "failed", "dead",
   "tryLock", "tryBlock", "tryDict", "tryCond",
   "makeLock", "makeBlock", "makeDict", "makeCond",
   "tryUnlock", "makeUnlock", "tryValidate", "makeValidate", "refused",
   "heading", "providing", "serving", "waiting", "using",
   "closing", "stopping", "counting", "leaving",
   "unlinking", "unlinkBlock", "closeLock", "unlinkLock"}

TypeOK ==
  /\ pc \in [Procs -> Places]
  /\ DOMAIN store = Kinds
  /\ store.lock \in Seq(Procs \cup {Nobody})
  /\ store.block \in Seq([header : BOOLEAN, notified : BOOLEAN])
  /\ \A i \in 1 .. Len(store.dict) :
       /\ DOMAIN store.dict[i].slot \subseteq Procs
       /\ store.dict[i].stale \subseteq Range(store.dict[i].slot)
       /\ IsInjective(store.dict[i].slot)
  /\ store.cond \in Seq(BOOLEAN)
  /\ names \in [Kinds -> Nat]
  /\ hnd \in [Procs -> [Kinds \cup {"slot"} -> Nat]]
  /\ \A k \in Kinds : /\ names[k] <= Len(store[k])
                      /\ \A p \in Procs : hnd[p][k] <= Len(store[k])
  /\ creator \cup mistaken \subseteq Procs
  /\ faults \in 0 .. MaxFaults
  /\ split \in BOOLEAN /\ unclean \in BOOLEAN

(* A process that uses the block; while it waits for the lock to close it, it
   still counts as alive. *)
Attached(p) ==
  pc[p] \in {"tryUnlock", "makeUnlock", "tryValidate", "makeValidate", "refused",
             "heading", "providing", "serving", "waiting", "using", "closing"}

(* The two ways in which the code itself lets the protocol down: a live process
   was taken for dead (when it closes later it unlinks by name what its
   successors have made), or a lock file was unlinked while others had it open
   (they and the newcomers then hold two locks). *)
Disturbed == split \/ mistaken # {}

(* Nobody takes away the block under a process that is attached: its name
   still leads to it, so whoever comes next shares it; and the process that
   closes can see every one that is attached. *)
BlockStaysWhileUsed ==
  ~Disturbed =>
    \A p \in Procs :
      Attached(p) => names.block = hnd[p].block /\ p \in DOMAIN Of(p, "dict").slot

(* The entry of a process is kept fresh by its own heartbeats and no others, so
   that it expires once the process has died: slots are given back and taken
   again without two threads writing to one.  Except for a process that was
   taken for dead, which goes on writing to a slot that is no longer its own. *)
HeartbeatsAreOwn ==
  \A p \in Procs \ mistaken :
    Beats(p) => \A q \in DOMAIN Of(p, "dict").slot \ {p} : Of(p, "dict").slot[q] # hnd[p].slot

(* When all have left in good order the block and the dictionary are gone. *)
LastExitCleans ==
  (\A p \in Procs : ~Inside(p)) /\ ~unclean /\ ~Disturbed
    => names.block = 0 /\ names.dict = 0

(* A follower goes on only once the creator of its block has notified. *)
ReadyMeansNotified ==
  \A p \in Procs : pc[p] = "using" => Of(p, "block").notified
=============================================================================
