----------------------------- MODULE MCScopeGuard -----------------------------
(***************************************************************************)
(* Small instances of ScopeGuard: one action for each class of guard.       *)
(***************************************************************************)
EXTENDS ScopeGuard, TLC

CONSTANTS e, f, s, g1, g2, g3

OneOfEach == [c \in Actions |-> IF c = e THEN "exit" ELSE IF c = f THEN "fail" ELSE "success"]
Symmetry == Permutations(Objects)
=============================================================================
