---------------------------- MODULE ShmCondition ----------------------------
(***************************************************************************)
(* MultiprocessCondition (shm/multiprocess_condition.py): one process      *)
(* calls notify_ready, others wait_for_ready.                              *)
(*                                                                         *)
(* They share a flag and a list of pids in a memory segment, a file lock   *)
(* around it, and one named POSIX semaphore per waiting pid.  A waiter     *)
(* registers under the lock, and then sleeps on its own semaphore outside  *)
(* it; the notifier raises the flag and signals every registered pid while *)
(* it holds the lock.  Processes may die anywhere: the kernel then frees   *)
(* the file lock, but named semaphores outlive them.                       *)
(***************************************************************************)
EXTENDS Naturals, Sequences, SequencesExt

CONSTANTS Waiters,     \* processes that wait, each with a pid of its own
          Notifier,    \* the process that notifies
          Nobody,      \* the holder of a free lock
          MaxFaults    \* bound on deaths and failed deliveries

ASSUME RolesAssumption ==
  Notifier \notin Waiters /\ Nobody \notin Waiters \cup {Notifier}
ASSUME FaultsAssumption == MaxFaults \in Nat

Procs == Waiters \cup {Notifier}

VARIABLES
  pc,      \* where each process is
  lock,    \* the process holding the condition's lock
  ready,   \* the flag of the notification list
  list,    \* the pids appended to the notification list
  value,   \* values of the semaphores created so far, named or not
  named,   \* pid -> index in value of the semaphore of that name, 0: none
  handle,  \* process -> the semaphore it has open, 0: none
  todo,    \* pids the notifier has still to signal
  missed,  \* history: waiters whose signal could not be delivered
  reused,  \* history: pids of dead waiters that a new waiter has
  faults

vars == <<pc, lock, ready, list, value, named, handle, todo, missed, reused, faults>>

Init ==
  /\ pc = [p \in Procs |-> "out"]
  /\ lock = Nobody
  /\ ready = FALSE
  /\ list = <<>> /\ todo = <<>>
  /\ value = <<>>
  /\ named = [w \in Waiters |-> 0]
  /\ handle = [p \in Procs |-> 0]
  /\ missed = {} /\ reused = {}
  /\ faults = 0

Go(p, from, to) == pc[p] = from /\ pc' = [pc EXCEPT ![p] = to]

Acquire(p) == lock = Nobody /\ lock' = p
Release(p) == lock' = IF lock = p THEN Nobody ELSE lock

(* Slip: the semaphore is created empty. *)
OpenSemaphoreEmpty(p, w) ==
  IF named[w] # 0
    THEN handle' = [handle EXCEPT ![p] = named[w]] /\ UNCHANGED <<value, named>>
    ELSE LET new == Len(value) + 1
         IN  /\ value' = Append(value, 0)
             /\ named' = [named EXCEPT ![w] = new]
             /\ handle' = [handle EXCEPT ![p] = new]

(* SemaphoreLock(name, locked=False): O_CREAT, initial value 1. *)
OpenSemaphore(p, w) ==
  IF named[w] # 0
    THEN handle' = [handle EXCEPT ![p] = named[w]] /\ UNCHANGED <<value, named>>
    ELSE LET new == Len(value) + 1
         IN  /\ value' = Append(value, 1)
             /\ named' = [named EXCEPT ![w] = new]
             /\ handle' = [handle EXCEPT ![p] = new]

(* sem_wait returns. *)
Take(p)   == value[handle[p]] > 0 /\ value' = [value EXCEPT ![handle[p]] = @ - 1]
Signal(p) == value' = [value EXCEPT ![handle[p]] = @ + 1]

-----------------------------------------------------------------------------
(* wait_for_ready *)

CallWait(w) ==
  /\ Go(w, "out", "calling")
  /\ UNCHANGED <<lock, ready, list, value, named, handle, todo, missed, reused, faults>>

LockWaiter(w) ==
  /\ Go(w, "calling", "locked")
  /\ Acquire(w)
  /\ UNCHANGED <<ready, list, value, named, handle, todo, missed, reused, faults>>

AlreadyReady(w) ==
  /\ ready
  /\ Go(w, "locked", "returned")
  /\ Release(w)
  /\ UNCHANGED <<ready, list, value, named, handle, todo, missed, reused, faults>>

OpenOwn(w) ==
  /\ ~ready
  /\ Go(w, "locked", "opened")
  /\ OpenSemaphore(w, w)
  /\ UNCHANGED <<lock, ready, list, todo, missed, reused, faults>>

(* locked=True: the first acquire, still under the condition's lock. *)
TakeOwn(w) ==
  /\ Go(w, "opened", "taken")
  /\ Take(w)
  /\ UNCHANGED <<lock, ready, list, named, handle, todo, missed, reused, faults>>

(* Slip: the waiter goes to sleep inside the with block. *)
RegisterHolding(w) ==
  /\ Go(w, "taken", "testing")
  /\ list' = Append(list, w)
  /\ UNCHANGED <<lock, ready, value, named, handle, todo, missed, reused, faults>>

Register(w) ==
  /\ Go(w, "taken", "testing")
  /\ list' = Append(list, w)
  /\ Release(w)
  /\ UNCHANGED <<ready, value, named, handle, todo, missed, reused, faults>>

(* Slip: the flag is not looked at again before the waiter goes. *)
TestForgotten(w) ==
  /\ Go(w, "testing", "leaving")
  /\ UNCHANGED <<lock, ready, list, value, named, handle, todo, missed, reused, faults>>

(* The loop's condition, read without the lock. *)
Test(w) ==
  /\ Go(w, "testing", IF ready THEN "leaving" ELSE "asleep")
  /\ UNCHANGED <<lock, ready, list, value, named, handle, todo, missed, reused, faults>>

Wake(w) ==
  /\ Go(w, "asleep", "testing")
  /\ Take(w)
  /\ UNCHANGED <<lock, ready, list, named, handle, todo, missed, reused, faults>>

(* unlink the name if it is still there, then close, which gives back the
   unit taken. *)
Leave(w) ==
  /\ Go(w, "leaving", "returned")
  /\ named' = [named EXCEPT ![w] = 0]
  /\ Signal(w)
  /\ handle' = [handle EXCEPT ![w] = 0]
  /\ UNCHANGED <<lock, ready, list, todo, missed, reused, faults>>

-----------------------------------------------------------------------------
(* notify_ready *)

CallNotify ==
  /\ Go(Notifier, "out", "calling")
  /\ UNCHANGED <<lock, ready, list, value, named, handle, todo, missed, reused, faults>>

LockNotifier ==
  /\ Go(Notifier, "calling", "locked")
  /\ Acquire(Notifier)
  /\ UNCHANGED <<ready, list, value, named, handle, todo, missed, reused, faults>>

SetReady ==
  /\ Go(Notifier, "locked", "ready")
  /\ ready' = TRUE
  /\ UNCHANGED <<lock, list, value, named, handle, todo, missed, reused, faults>>

(* Slip: the end of the list is the notifier's own, as of its last append. *)
ReadListStale ==
  /\ Go(Notifier, "ready", "notifying")
  /\ todo' = <<>>
  /\ UNCHANGED <<lock, ready, list, value, named, handle, missed, reused, faults>>

(* Slip: an empty text is split into one empty pid. *)
ReadListBlank ==
  /\ Go(Notifier, "ready", "notifying")
  /\ todo' = IF list = <<>> THEN <<Nobody>> ELSE list
  /\ UNCHANGED <<lock, ready, list, value, named, handle, missed, reused, faults>>

ReadList ==
  /\ Go(Notifier, "ready", "notifying")
  /\ todo' = list
  /\ UNCHANGED <<lock, ready, list, value, named, handle, missed, reused, faults>>

OpenTheirs ==
  /\ todo # <<>>
  /\ Go(Notifier, "notifying", "signalling")
  /\ OpenSemaphore(Notifier, Head(todo))
  /\ UNCHANGED <<lock, ready, list, todo, missed, reused, faults>>

(* Slip: only the process that registered first is signalled. *)
SignalFirstOnly ==
  /\ Go(Notifier, "signalling", "notifying")
  /\ Signal(Notifier)
  /\ handle' = [handle EXCEPT ![Notifier] = 0]
  /\ todo' = <<>>
  /\ UNCHANGED <<lock, ready, list, named, missed, reused, faults>>

SignalTheirs ==
  /\ Go(Notifier, "signalling", "notifying")
  /\ Signal(Notifier)
  /\ handle' = [handle EXCEPT ![Notifier] = 0]
  /\ todo' = Tail(todo)
  /\ UNCHANGED <<lock, ready, list, named, missed, reused, faults>>

(* The semaphore cannot be opened (OSError): a warning, and on to the next. *)
DeliveryFails ==
  /\ pc[Notifier] = "notifying" /\ todo # <<>>
  /\ faults < MaxFaults /\ faults' = faults + 1
  /\ missed' = missed \cup {Head(todo)}
  /\ todo' = Tail(todo)
  /\ UNCHANGED <<pc, lock, ready, list, value, named, handle, reused>>

Notified ==
  /\ todo = <<>>
  /\ Go(Notifier, "notifying", "returned")
  /\ Release(Notifier)
  /\ UNCHANGED <<ready, list, value, named, handle, todo, missed, reused, faults>>

-----------------------------------------------------------------------------
(* Death frees the lock and closes the semaphore, and unlinks nothing. *)
Die(p) ==
  /\ pc[p] \notin {"out", "returned", "dead"}
  /\ faults < MaxFaults /\ faults' = faults + 1
  /\ pc' = [pc EXCEPT ![p] = "dead"]
  /\ Release(p)
  /\ handle' = [handle EXCEPT ![p] = 0]
  /\ UNCHANGED <<ready, list, value, named, todo, missed, reused>>

(* A new process with the pid of a dead one: container restarts keep pids. *)
Restart(w) ==
  /\ Go(w, "dead", "out")
  /\ reused' = reused \cup {w}
  /\ UNCHANGED <<lock, ready, list, value, named, handle, todo, missed, faults>>

WaiterStep(w) ==
  \/ LockWaiter(w)
  \/ AlreadyReady(w)
  \/ OpenOwn(w)
  \/ TakeOwn(w)
  \/ Register(w)
  \/ Test(w)
  \/ Wake(w)
  \/ Leave(w)

NotifierStep ==
  \/ LockNotifier
  \/ SetReady
  \/ ReadList
  \/ OpenTheirs
  \/ SignalTheirs
  \/ Notified

Next ==
  \/ \E w \in Waiters : CallWait(w) \/ WaiterStep(w) \/ Restart(w)
  \/ CallNotify
  \/ NotifierStep
  \/ DeliveryFails
  \/ \E p \in Procs : Die(p)

(* A process inside a call goes on until it blocks; nothing obliges it to
   make the call, to die or to come back. *)
Fairness == WF_vars(NotifierStep) /\ \A w \in Waiters : WF_vars(WaiterStep(w))

Spec     == Init /\ [][Next]_vars
FairSpec == Spec /\ Fairness

-----------------------------------------------------------------------------
WaiterPlaces ==
  {"out", "calling", "locked", "opened", "taken", "testing", "asleep",
   "leaving", "returned", "dead"}
NotifierPlaces ==
  {"out", "calling", "locked", "ready", "notifying", "signalling", "returned", "dead"}

TypeOK ==
  /\ pc \in [Procs -> WaiterPlaces \cup NotifierPlaces]
  /\ \A w \in Waiters : pc[w] \in WaiterPlaces
  /\ pc[Notifier] \in NotifierPlaces
  /\ lock \in Procs \cup {Nobody}
  /\ ready \in BOOLEAN
  /\ list \in Seq(Waiters) /\ todo \in Seq(Waiters)
  /\ value \in Seq(Nat)
  /\ named \in [Waiters -> 0 .. Len(value)]
  /\ handle \in [Procs -> 0 .. Len(value)]
  /\ missed \subseteq Waiters /\ reused \subseteq Waiters
  /\ faults \in 0 .. MaxFaults

(* The notifier has still to post the semaphore w sleeps on. *)
StillToBeSignalled(w) ==
  \/ pc[Notifier] = "ready" /\ w \in Range(list)
  \/ pc[Notifier] = "notifying" /\ w \in Range(todo)
  \/ /\ pc[Notifier] = "signalling"
     /\ \/ handle[Notifier] = handle[w]
        \/ w \in Range(Tail(todo))

(* A waiter that sleeps on an empty semaphore with the flag up (it read the
   flag without the lock) is still to be signalled, unless the notifier died or
   could not deliver the signal. *)
NoLostWakeup ==
  \A w \in Waiters :
    pc[w] = "asleep" /\ ready /\ value[handle[w]] = 0
      => StillToBeSignalled(w) \/ w \in missed \/ pc[Notifier] = "dead"

(* Nobody blocks on his semaphore while he holds the lock the notifier needs,
   as long as no pid is used twice: the name of a killed waiter's semaphore is
   left behind at zero. *)
HolderNeverSleeps ==
  \A w \in Waiters :
    lock = w /\ pc[w] = "opened" => value[handle[w]] > 0 \/ w \in reused

(* notify_ready comes back whatever the waiters do, dying included, unless a
   new waiter has a dead one's pid. *)
NotifierReturns ==
  pc[Notifier] = "calling"
    ~> pc[Notifier] \in {"returned", "dead"} \/ reused # {}

(* Once the flag is up, every process in wait_for_ready comes back: the signal
   and the flag, read without the lock, cannot miss each other. *)
WaitersReturn ==
  \A w \in Waiters :
    ready /\ pc[w] \notin {"out", "returned", "dead"}
      ~> \/ pc[w] \in {"returned", "dead"}
         \/ w \in missed
         \/ pc[Notifier] = "dead"
         \/ reused # {}

(* wait_for_ready returns only to a process that called it and only once
   notify_ready has been called, whatever wakes, deaths and reused pids come
   in between. *)
Latch == INSTANCE ReadyLatch WITH
  isSet <- ready,
  where <- [w \in Waiters |->
              IF pc[w] \in {"out", "returned", "dead"} THEN pc[w] ELSE "waiting"]

ImplementsLatch == Latch!Spec
=============================================================================
