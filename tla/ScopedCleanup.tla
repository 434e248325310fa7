----------------------------- MODULE ScopedCleanup -----------------------------
(***************************************************************************)
(* What the three guards of scope.hpp promise about a cleanup action that   *)
(* is given to one of them: the guard owes it until its scope is left, or   *)
(* until it is released, and then the action ran once or never, by the      *)
(* guard's name.  Moves of the guard do not show.  ScopeGuard implements    *)
(* it.                                                                      *)
(***************************************************************************)
EXTENDS Naturals

CONSTANTS Actions,  \* cleanup actions
          Kind      \* the guard each action is given to

Kinds == {"exit", "fail", "success"}

\* How a guard can be done with its action.
Fates == {"normal",    \* its scope was left without an exception
          "unwound",   \* an exception left its scope
          "released",  \* release() was called
          "failed"}    \* it was not constructed: its callable could not be stored

VARIABLES fate,  \* what became of each action
          ran    \* how often it was invoked

vars == <<fate, ran>>

\* Whether an action of the kind is to be invoked when its guard ends that way.
Due(kind, how) ==
  \/ kind = "exit" /\ how # "released"
  \/ kind = "fail" /\ how \in {"unwound", "failed"}
  \/ kind = "success" /\ how = "normal"

Init ==
  /\ fate = [c \in Actions |-> "none"]
  /\ ran = [c \in Actions |-> 0]

Guarded(c) ==
  /\ fate[c] = "none"
  /\ fate' = [fate EXCEPT ![c] = "held"]
  /\ UNCHANGED ran

Settled(c, how) ==
  /\ fate[c] = IF how = "failed" THEN "none" ELSE "held"
  /\ fate' = [fate EXCEPT ![c] = how]
  /\ ran' = [ran EXCEPT ![c] = IF Due(Kind[c], how) THEN @ + 1 ELSE @]

Next == \E c \in Actions : Guarded(c) \/ \E how \in Fates : Settled(c, how)

Spec == Init /\ [][Next]_vars
=============================================================================
