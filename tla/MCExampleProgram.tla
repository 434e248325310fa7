--------------------------- MODULE MCExampleProgram ---------------------------
(***************************************************************************)
(* The example as it is: one Start(), five intervals.                       *)
(***************************************************************************)
EXTENDS ExampleProgram
=============================================================================
