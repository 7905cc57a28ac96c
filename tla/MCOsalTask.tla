----------------------------- MODULE MCOsalTask -----------------------------
(***************************************************************************)
(* Small instances of OsalTask for TLC.                                    *)
(***************************************************************************)
EXTENDS OsalTask, TLC

\* Clients that only delete tasks are interchangeable, and so are names.
TaskSymmetry == Permutations(Clients \ Creators) \cup Permutations(Names)
=============================================================================
