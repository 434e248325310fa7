--------------------------- MODULE NotificationRelay ---------------------------
(***************************************************************************)
(* What the worker promises about the notifications it was given: each one *)
(* is handed to the application once, in the order of delivery, and none   *)
(* is invented.  ServiceMonitor implements it.                             *)
(***************************************************************************)
EXTENDS Sequences, Naturals

CONSTANT Notifications
VARIABLES accepted,  \* notifications the callback took
          handed     \* calls of the action function

vars == <<accepted, handed>>

Init == accepted = <<>> /\ handed = <<>>

Accept ==
  /\ \E x \in Notifications : accepted' = Append(accepted, x)
  /\ UNCHANGED handed

Hand ==
  /\ Len(handed) < Len(accepted)
  /\ handed' = Append(handed, accepted[Len(handed) + 1])
  /\ UNCHANGED accepted

Next == Accept \/ Hand
Spec == Init /\ [][Next]_vars

Handing == WF_vars(Hand)
=============================================================================
