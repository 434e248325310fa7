-------------------------- MODULE MCNotifierLifecycle --------------------------
(***************************************************************************)
(* Small instances of NotifierLifecycle.  Callers and Starts are           *)
(* interchangeable, so both are symmetry sets in the safety runs.          *)
(***************************************************************************)
EXTENDS NotifierLifecycle, TLC

Symmetry == Permutations(Callers) \cup Permutations(Starts)
=============================================================================
