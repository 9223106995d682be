-------------------------- MODULE MCManagedProcesses -------------------------
(***************************************************************************)
(* Starts and checks are interchangeable, and only safety is checked.      *)
(***************************************************************************)
EXTENDS ManagedProcesses, TLC

Interchangeable == Permutations(Starts) \cup Permutations(Others) \cup Permutations(Checks)
=============================================================================
