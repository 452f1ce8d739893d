---------------------------- MODULE MCParmChange ----------------------------
(***************************************************************************)
(* Instances of ParmChange for TLC: the line A - B - C, with boxes that    *)
(* all hear each other or only along the line, and one or two segments.    *)
(***************************************************************************)
EXTENDS ParmChange

CONSTANTS A, B, C, Blue, Green, Red, Unset

Boxes == {A, B, C}

AllHear  == [n \in Node |-> Node \ {n}]
Line     == [n \in Node |-> IF n = B THEN {A, C} ELSE {B}]
LineVia  == [n \in Node |->
              [o \in Node |-> IF o = n THEN None ELSE IF n = B THEN o ELSE B]]

Colors     == {Blue, Green, Red, Unset}
AllBlue    == [n \in Node |-> Blue]
MiddleRed  == [n \in Node |-> IF n = B THEN Red ELSE Blue]

Upto(start, change, expire, lose) ==
  [k \in Kind |-> CASE k = "start" -> start [] k = "change" -> change
                    [] k = "expire" -> expire [] k = "lose" -> lose]

\*                     start change expire lose
AgreeLimit    == Upto(2,    1,     2,     0)
AllGoLimit    == Upto(1,    1,     0,     1)
FarLimit      == Upto(1,    0,     0,     0)
=============================================================================
