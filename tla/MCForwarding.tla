----------------------------- MODULE MCForwarding -----------------------------
(* Three or four boxes in a chain.                                         *)
EXTENDS Forwarding

CONSTANTS p, q, r, s

Pos(x) == CASE x = p -> 1 [] x = q -> 2 [] x = r -> 3 [] x = s -> 4
Chain  == [x \in Box |-> [y \in Box |->
             IF x = y THEN x ELSE CHOOSE z \in Box :
               Pos(z) = Pos(x) + IF Pos(y) > Pos(x) THEN 1 ELSE -1]]
Within(n)  == [x \in Box |-> {y \in Box \ {x} : Pos(y) - Pos(x) \in -n .. n}]
Cut(x, y, h) == [h EXCEPT ![x] = @ \ {y}, ![y] = @ \ {x}]
One        == [x \in Box |-> p]
Halves     == [x \in Box |-> IF x \in {p, q} THEN p ELSE s]
Nobody     == [x \in Box |-> {}]
Unknown(o) == [x \in Box |-> {o} \ {x}]
Of(hs, h, w, from, n, room, miss, m, k) ==
  [toward |-> Chain, hears |-> hs, part |-> h, wired |-> w, sources |-> from, sends |-> n,
   first |-> Modulus - 1, buffer |-> room, missing |-> miss, misses |-> m, reboots |-> k]

(* A chain whose boxes hear two further, one packet lost; the two in the   *)
(* middle on an Ethernet, each with a radio neighbor, apart, or hearing    *)
(* each other, where one frame is enough; the first box new in the tree; a *)
(* box that starts again.                                                  *)
Overhear == {Of(Within(2), One, {}, {p, s}, 2, 2, Nobody, 1, 0)}
Middle   == {Of(Cut(q, r, Within(1)), Halves, {q, r}, S, 2, 2, Nobody, 0, 0) : S \in {{p}, {}}}
Both     == {Of(Within(1), One, {q, r}, {p}, 1, 1, Nobody, 0, 0)}
Newcomer == {Of(Within(1), One, {}, {p}, 2, 2, Unknown(p), 0, 0)}
Again    == {Of(Within(1), One, {}, {p}, 2, 2, Nobody, 0, 1)}
All      == Overhear \cup Middle \cup Both \cup Newcomer \cup Again
=============================================================================
