---------------------------- MODULE MCOffloadManager ----------------------------
(***************************************************************************)
(* Small instances of OffloadManager: the configurations that differ in    *)
(* what the manager does.                                                  *)
(***************************************************************************)
EXTENDS OffloadManager

Eager == NoConfig

EagerSkip     == [Eager EXCEPT !.skip = TRUE, !.prof = 2]
EagerStrategy == [Eager EXCEPT !.mode = "getter", !.block = FALSE, !.disc = 2, !.prof = 0]
CompiledView  == [Eager EXCEPT !.compile = "fn"]
CompiledGetter == [Eager EXCEPT !.compile = "fn", !.mode = "getter"]
External      == [Eager EXCEPT !.compile = "external", !.prof = 2, !.timing = "cuda_graph"]
ExternalNone  == [Eager EXCEPT !.compile = "external", !.prof = 0, !.timing = "cuda_graph",
                               !.skip = TRUE]
ExternalTraps == [External EXCEPT !.skip = TRUE, !.reachable = FALSE, !.disc = 0, !.prof = 1]
Rejected      == [Eager EXCEPT !.compile = "external", !.block = FALSE]

MCConfigs == {EagerSkip, EagerStrategy, CompiledView,
              CompiledGetter, External, ExternalNone, ExternalTraps, Rejected}
MCFaults == {"none", "init", "plan", "execute", "create", "swap", "profile",
             "strategy", "release_memory", "shutdown", "rebind"}
=================================================================================
