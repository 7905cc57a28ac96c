---------------------------- MODULE MCOsalQueue ----------------------------
(***************************************************************************)
(* Small instances of OsalQueue for TLC.                                   *)
(***************************************************************************)
EXTENDS OsalQueue, TLC

CONSTANTS t1, t2, t3

\* Threads that make the same calls are interchangeable.
AllCreateSymmetry == Permutations(Threads)
OneCreatesSymmetry == Permutations(Threads \ Creators)
=============================================================================
