----------------------------- MODULE MCCloudMod -----------------------------
(***************************************************************************)
(* Instances of CloudMod for TLC: two or three boxes that all hear each    *)
(* other, the trees they start from, and how many events of each bounded   *)
(* kind may happen in each run.                                            *)
(***************************************************************************)
EXTENDS CloudMod

CONSTANTS A, B, C

TwoBoxes   == {A, B}
ThreeBoxes == {A, B, C}

AllHear == [n \in Node |-> Node \ {n}]

\* The settled line A - B - C.
LineArcs == [n \in Node |-> IF n = B THEN {A, C} ELSE {B}]
LineVia  == [n \in Node |->
              [o \in Node |-> IF o = n THEN None ELSE IF n = B THEN o ELSE B]]

\* Every box has an arc to every other one: the pair A - B, or the loop
\* A - B - C - A that concurrent invitations can build.
FullArcs == AllHear
FullVia  == [n \in Node |-> [o \in Node |-> IF o = n THEN None ELSE o]]

Upto(maint, connect, improve, expire, silence, lose, hear, restart) ==
  [k \in Kind |->
     CASE k = "maint" -> maint [] k = "connect" -> connect
       [] k = "improve" -> improve [] k = "expire" -> expire
       [] k = "silence" -> silence [] k = "lose" -> lose
       [] k = "nbr" -> hear [] k = "restart" -> restart]

\* A start with some of the bounded events over already.
Start(arcs, routes, over) ==
  [stp |-> arcs, via |-> routes, spent |-> [k \in Kind |-> IF k \in over THEN 1 ELSE 0]]
FromLine == {Start(LineArcs, LineVia, {})}
FromFull == {Start(FullArcs, FullVia, {})}
LineOrLoop == FromLine \cup {Start(FullArcs, FullVia, {"improve"})}

\*                      maint connect improve expire silence lose hear restart
RivalsLimit    == Upto(3,    0,      3,      2,     0,      0,   0,   0)
SwapsLimit     == Upto(2,    0,      2,      1,     0,      0,   0,   0)
HealLimit      == Upto(1,    0,      1,      1,     0,      1,   0,   0)
RebootLimit    == Upto(1,    1,      0,      1,     1,      0,   2,   1)
=============================================================================
