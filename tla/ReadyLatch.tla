----------------------------- MODULE ReadyLatch -----------------------------
(***************************************************************************)
(* What MultiprocessCondition promises its users: a latch that is set once *)
(* and lets every process that waits for it go, and nobody before.         *)
(***************************************************************************)
CONSTANT Waiters

VARIABLES isSet,   \* notify_ready() has been called
          where    \* waiter -> "out", "waiting", "returned" or "dead"

latchVars == <<isSet, where>>

Init == isSet = FALSE /\ where = [w \in Waiters |-> "out"]

Move(w, from, to) == where[w] = from /\ where' = [where EXCEPT ![w] = to]

Wait(w)   == Move(w, "out", "waiting") /\ UNCHANGED isSet
Return(w) == isSet /\ Move(w, "waiting", "returned") /\ UNCHANGED isSet
Set       == isSet' = TRUE /\ UNCHANGED where

(* A process dies; its pid may be given to a new one. *)
Die(w)     == where' = [where EXCEPT ![w] = "dead"] /\ UNCHANGED isSet
Restart(w) == Move(w, "dead", "out") /\ UNCHANGED isSet

Next == Set \/ \E w \in Waiters : Wait(w) \/ Return(w) \/ Die(w) \/ Restart(w)

Spec == Init /\ [][Next]_latchVars
=============================================================================
