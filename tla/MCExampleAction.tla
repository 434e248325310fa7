---------------------------- MODULE MCExampleAction ----------------------------
(***************************************************************************)
(* Small instance of ExampleAction.  MAX_PATH is 3: "short" and "twin" fit  *)
(* and have the same file name, "edge" is as long as an argument may be,    *)
(* "over" is longer and begins with the characters of "edge".               *)
(***************************************************************************)
EXTENDS ExampleAction

CONSTANTS p1, p2, p3, short, twin, edge, over, empty

SomeMutes == <<over, short, edge>>
Names == [p \in Paths |-> IF p \in {short, twin} THEN "a" ELSE IF p = empty THEN "" ELSE "b"]
Lengths == [p \in Paths |-> IF p = empty THEN 0 ELSE IF p = edge THEN 3 ELSE IF p = over THEN 4 ELSE 2]
Cut == [p \in Paths |-> IF p = over THEN edge ELSE p]
=============================================================================
