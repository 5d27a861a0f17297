--------------------------- MODULE CompiledOffload ---------------------------
(***************************************************************************)
(* The compiled path of an offload manager as values and the steps on      *)
(* them: the activation of a session (compile/lifecycle.py), the passive   *)
(* warm -> measure -> replan counter (compile/warmup_tail.py) and the slot *)
(* of the manager in the registry of the custom ops (custom_ops.py).       *)
(*                                                                         *)
(* Module OffloadManager holds one of each and calls these operators where *)
(* the code calls the methods.  A loader is a number, 0 is none; of the    *)
(* recorded durations of a unit only whether there are any is kept.        *)
(***************************************************************************)
EXTENDS Integers

(* The forwards the tail spends on warming, those the eager seed profile   *)
(* takes when a replan is to follow, and those a profile under compile_fn  *)
(* spends before it measures.                                              *)
WarmupForwards  == 3
EagerForwards   == 3
ProfileWarmups  == 3

TailStates == {"IDLE", "WARMING", "MEASURING", "DONE", "FAILED"}

------------------------------------------------------------------------------
(* The tail. *)

IdleTail == [state |-> "IDLE", warm |-> 0, measure |-> 0,
             profiling |-> TRUE, applied |-> "unknown"]

(* Starts over with the credited warm-ups behind it, whatever went before. *)
Arm(credited, profiling) ==
  [state     |-> IF credited >= WarmupForwards THEN "MEASURING" ELSE "WARMING",
   warm      |-> credited,
   measure   |-> 0,
   profiling |-> profiling,
   applied   |-> "unknown"]

Done(t, applied) == [t EXCEPT !.state = "DONE", !.applied = applied]

Failed(t) == [t EXCEPT !.state = "FAILED", !.applied = "no"]

TickMeasuring(t, forwards) ==
  LET seen == t.measure + 1
  IN  [tail |-> IF forwards = 0 THEN t ELSE [t EXCEPT !.measure = seen],
       complete |-> forwards = 0 \/ seen >= forwards,
       record |-> FALSE]

(* One forward of a tail that is neither idle, done nor failed: the tail   *)
(* after it, whether it now has to complete, and whether the ops begin to  *)
(* record.                                                                 *)
Tick(t, forwards) ==
  IF t.state = "MEASURING"
    THEN TickMeasuring(t, forwards)
  ELSE LET seen == t.warm + 1
           over == seen >= WarmupForwards
       IN  [tail |-> [t EXCEPT !.warm = seen,
                               !.state = IF over THEN "MEASURING" ELSE @],
            complete |-> over /\ forwards = 0,
            record   |-> over /\ t.profiling]

------------------------------------------------------------------------------
(* The registry slot of the manager. *)

NoSlot == [armed |-> FALSE, loader |-> 0, profiling |-> FALSE,
           pending |-> FALSE, samples |-> FALSE]

(* The loader goes; a slot that was armed once stays, and is an error to   *)
(* anyone who still computes through it.                                   *)
ClearActiveLoader(o) == [NoSlot EXCEPT !.armed = o.armed]

InstallActiveLoader(o, l) == [o EXCEPT !.loader = l, !.armed = TRUE]

EnableProfiling(o) ==
  [o EXCEPT !.profiling = TRUE, !.pending = FALSE, !.samples = FALSE]

(* Stops the recording and consumes what was recorded. *)
FinishProfiling(o) ==
  [o EXCEPT !.profiling = FALSE, !.pending = FALSE, !.samples = FALSE]

(* What pre_compute and post_compute find: a loader, nothing that was ever *)
(* to be there, or the lack of one that was.                               *)
Lookup(o) == IF o.loader # 0 THEN "loader"
             ELSE IF o.armed THEN "error" ELSE "none"

RecordUnitStart(o) == IF o.profiling THEN [o EXCEPT !.pending = TRUE] ELSE o

RecordUnitEnd(o) ==
  IF o.profiling /\ o.pending
    THEN [o EXCEPT !.pending = FALSE, !.samples = TRUE] ELSE o

(* A unit between its two ops.  One that raises leaves by the loader's     *)
(* exit alone: its start stays behind, without a sample.                   *)
UnitForward(o, raises) ==
  IF raises THEN RecordUnitStart(o) ELSE RecordUnitEnd(RecordUnitStart(o))

------------------------------------------------------------------------------
(* The activation of a session. *)

Inactive == [active |-> FALSE, fn |-> FALSE, profile |-> FALSE,
             replan |-> FALSE, warm |-> 0, wrapped |-> FALSE, tail |-> IdleTail]

(* A compiler per unit, or one the caller applies later, asks for a loader *)
(* that preallocates.                                                      *)
AskedFor(c) == c.compile \in {"fn", "external"}

Acceptable(c) == AskedFor(c) => c.block

(* A profile under compile_fn needs no replan; every other compiled        *)
(* session may ask for one.                                                *)
Activation(c) ==
  IF c.compile = "fn"
    THEN [Inactive EXCEPT !.active = TRUE, !.fn = TRUE,
                          !.profile = (c.mode = "view"),
                          !.replan  = (c.mode # "view")]
  ELSE IF c.compile = "external"
    THEN [Inactive EXCEPT !.active = TRUE, !.replan = TRUE]
  ELSE Inactive

(* The forwards of an eager seed profile, or those configured. *)
EagerProfilingIters(k, configured) ==
  IF k.active /\ k.replan /\ ~k.profile THEN EagerForwards ELSE configured

ExtraItersBeforeInference(k) == IF k.profile THEN ProfileWarmups ELSE 0

(* The units of the profile model are compiled, and their first forwards   *)
(* do not count.                                                           *)
OnEnterProfile(k) ==
  IF k.profile THEN [k EXCEPT !.warm = ProfileWarmups, !.wrapped = TRUE] ELSE k

AdvanceProfileWarmup(k) == IF k.warm > 0 THEN [k EXCEPT !.warm = @ - 1] ELSE k
==============================================================================
