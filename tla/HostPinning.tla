----------------------------- MODULE HostPinning -----------------------------
(***************************************************************************)
(* host_pinning.py: page-locked host memory, made by copying a tensor into *)
(* pinned memory or by registering its storage with the CUDA driver, and   *)
(* the registries that remember what they registered.                      *)
(*                                                                         *)
(* A tensor manager and each view profile controller have a pinner of      *)
(* their own; both are kept in one record                                  *)
(*   mode            "none", "copy" or "in_place"                          *)
(*   main, view      the entries of the manager's and of the controller's  *)
(*                   registry                                              *)
(*   copied          what was copied into pinned memory                    *)
(*   driver          what the driver has registered                        *)
(*   lost            registered, and the registry gone                     *)
(***************************************************************************)
EXTENDS FiniteSets

(* make_host_pinner: without a usable CUDA runtime "host_register" falls
   back to copies *)
MakeHostPinner(pinned, mode, cudart) ==
  [mode |-> IF ~pinned THEN "none"
            ELSE IF mode = "host_register" /\ cudart THEN "in_place" ELSE "copy",
   main |-> {}, view |-> {}, copied |-> {}, driver |-> {}, lost |-> {}]

IsPinned(p, s) == s \in p.copied \cup p.driver

(* HostPinner.pin of everything in S that is not pinned yet, by the manager *)
PinAll(p, S) ==
  LET new == {s \in S : ~IsPinned(p, s)}
  IN  CASE p.mode = "in_place" -> [p EXCEPT !.main = @ \cup new, !.driver = @ \cup new]
        [] p.mode = "copy"     -> [p EXCEPT !.copied = @ \cup new]
        [] OTHER               -> p

(* the block of a view profile controller, pinned by the controller's pinner *)
PinViewBlock(p, s) ==
  CASE p.mode = "in_place" -> [p EXCEPT !.view = @ \cup {s}, !.driver = @ \cup {s}]
    [] OTHER               -> p

(* release_all: an entry whose unregister fails stays, for a later attempt *)
ReleaseAllForgets(p, stuck) == [p EXCEPT !.main = {}, !.driver = @ \ (p.main \ stuck)]
ReleaseAll(p, stuck) ==
  [p EXCEPT !.main = @ \cap stuck, !.driver = @ \ (p.main \ stuck)]
(* the controller's registry goes with the controller *)
ReleaseView(p, stuck) ==
  [p EXCEPT !.view = {}, !.driver = @ \ (p.view \ stuck), !.lost = @ \cup (p.view \cap stuck)]
=============================================================================
