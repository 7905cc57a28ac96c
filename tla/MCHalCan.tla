------------------------------ MODULE MCHalCan ------------------------------
(* Small instances of HalCan. *)
EXTENDS HalCan, TLC

\* The threads are alike.
Symmetric == Permutations(Threads)
=============================================================================
