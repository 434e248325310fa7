--------------------------- MODULE MCServiceMonitor ---------------------------
(***************************************************************************)
(* Small instances of ServiceMonitor: two services, and a third name that   *)
(* a callback reads back for a list name with an embedded NUL.              *)
(***************************************************************************)
EXTENDS ServiceMonitor

CONSTANTS a, b, cut

Distinct == {<<a, b>>}
Duplicated == {<<a, a>>}
ReadWhole == [n \in Names |-> n]
ReadCut == [n \in Names |-> IF n = b THEN cut ELSE n]
=============================================================================
