--------------------------- MODULE MCListLifecycle ---------------------------
(***************************************************************************)
(* ListLifecycle on a small instance: the event goroutine and one web      *)
(* request, in one group with one list owner.                              *)
(***************************************************************************)
EXTENDS ListLifecycle, TLC

Symmetry == Permutations(Names)
=============================================================================
