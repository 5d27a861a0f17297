---------------------------- MODULE MCFlexibleShm ----------------------------
(* Three processes are enough for one that closes last, one that opens in the
   meantime and one that comes after; nothing tells them apart. *)
EXTENDS FlexibleShm, TLC

ProcSymmetry == Permutations(Procs)
=============================================================================
