---------------------------- MODULE OffloadTiming ----------------------------
(***************************************************************************)
(* The collector of offload timings as a value and the steps on it         *)
(* (offload_timing.py), with the durable store of its tensor manager.      *)
(*                                                                         *)
(* Every pass through the model, an eager forward, the capture of a graph  *)
(* or a replay of it, has a number.  The collector has one set of event    *)
(* handles: each pass writes over what the last one left, so what counts   *)
(* is which pass the handles hold when they are read.  The durable store   *)
(* is the sequence of the passes that were read into it; the window of the *)
(* periodic log is left out.                                               *)
(***************************************************************************)
EXTENDS Integers, Sequences

(* No generation is known of the replay that is finalized. *)
NoGeneration == -1

NewCollector(enabled, external) ==
  [enabled |-> enabled, external |-> enabled /\ external,
   active  |-> FALSE,    \* a pass is pending
   captured |-> FALSE,   \* and was recorded under capture
   has     |-> FALSE,    \* some trap has recorded its events
   held    |-> 0,        \* the pass those events belong to
   lastGen |-> NoGeneration,
   durable |-> <<>>]

(* Into the log, and into the durable store. *)
PublishPass(c) == [c EXCEPT !.durable = Append(@, c.held)]

ResetPassState(c) ==
  [c EXCEPT !.active = FALSE, !.captured = FALSE, !.has = FALSE]

FinalizePass(c) == PublishPass(ResetPassState(c))

(* The traps of one pass record; whether that is under capture is latched. *)
RecordPass(c, pass, capturing) ==
  IF ~c.enabled THEN c
  ELSE [c EXCEPT !.has = TRUE, !.held = pass,
                 !.captured = @ \/ capturing]

(* A replay records through the handles the capture put into the graph. *)
RecordReplay(c, pass) == IF c.enabled THEN [c EXCEPT !.held = pass] ELSE c

(* What was finalized already is a success without a second publishing:    *)
(* the same generation, and no generation after one that was known.  What  *)
(* cannot be read is refused.  The pending pass stays, for the next replay *)
(* writes to the same handles.                                             *)
FinalizeReplayPass(c, gen, capturing) ==
  LET known == c.lastGen >= 0 /\ (gen < 0 \/ gen = c.lastGen)
  IN  IF ~c.enabled \/ ~c.active THEN [col |-> c, ok |-> FALSE]
      ELSE IF known THEN [col |-> c, ok |-> TRUE]
      ELSE IF ~c.external \/ capturing \/ ~c.has
        THEN [col |-> c, ok |-> FALSE]
      ELSE [col |-> [PublishPass(c) EXCEPT !.lastGen = IF gen >= 0 THEN gen ELSE @],
            ok  |-> TRUE]

(* The first trap of a pass: what is pending is read before the handles    *)
(* are written again.  Under capture nothing can be read; a captured pass  *)
(* is read where its events can be, and dropped where they cannot.         *)
OnPassStart(c, capturing) ==
  LET kept == FinalizeReplayPass(c, NoGeneration, FALSE)
      before ==
        IF ~c.active \/ capturing THEN c
        ELSE IF ~c.captured THEN FinalizePass(c)
        ELSE IF c.external /\ kept.ok THEN kept.col
        ELSE ResetPassState(c)
  IN  IF ~c.enabled THEN c
      ELSE [before EXCEPT !.active = TRUE, !.captured = @ \/ capturing]

(* A pending eager pass is dropped, a captured one stays readable. *)
ResetCollector(c) ==
  [(IF c.active /\ ~c.captured THEN ResetPassState(c) ELSE c)
     EXCEPT !.lastGen = NoGeneration]

ArmReplayMeasure(c) == IF c.enabled THEN [c EXCEPT !.active = TRUE] ELSE c

DisarmReplayMeasure(c) == IF c.enabled THEN [c EXCEPT !.active = FALSE] ELSE c

DrainMeasure(c) == [c EXCEPT !.durable = <<>>]
==============================================================================
