--------------------------- MODULE MCNotifierSystem ---------------------------
(***************************************************************************)
(* Small instances of NotifierSystem: every worker watches two services, so *)
(* that an APC can arrive while the callback handles the other service.     *)
(***************************************************************************)
EXTENDS NotifierSystem

CONSTANTS a, b

TwoServices == {<<a, b>>}
ReadWhole == [n \in Names |-> n]
=============================================================================
