--------------------------------- MODULE MCLink ---------------------------------
(* Instances of Link for TLC: three boxes on a line, or two of them. *)
EXTENDS Link, TLC

CONSTANTS a, b, c, p1, p2, p3, l1, l2, l3

Boxes       == {a, b, c}
Packets     == {p1, p2, p3, l1, l2, l3}
LongPackets == {l1, l2, l3}

Pair == (a :> {b}) @@ (b :> {a}) @@ (c :> {})
Line == (a :> {b}) @@ (b :> {a, c}) @@ (c :> {b})

(* What the clients of a, b and c send. *)
Sends(x, y, z) == (a :> x) @@ (b :> y) @@ (c :> z)
Case(graph, on, sends, num, lose, early) ==
  [nbr |-> graph, flow |-> on, todo |-> sends, num |-> num,
   losses |-> lose, late |-> early]

(* Flow control on a line, undisturbed; on a pair and on a line, with a     *)
(* loss and early timeouts; and no flow control, with packets in two pieces *)
(* and losses.                                                              *)
AllScenarios ==
  {Case(Line, TRUE, Sends(<<p1, p2>>, <<>>, <<l1>>), 0, 0, 0),
   Case(Line, TRUE, Sends(<<l1>>, <<p1, p2>>, <<p3>>), 0, 0, 0),
   Case(Line, TRUE, Sends(<<p2>>, <<p1, l1>>, <<>>), W - 2, 1, 1),
   Case(Pair, TRUE, Sends(<<p1, p2, l1>>, <<p3>>, <<>>), 0, 1, 2),
   Case(Pair, FALSE, Sends(<<l1, p1, l2, l3>>, <<p2>>, <<>>), W - 2, 3, 0),
   Case(Line, FALSE, Sends(<<l1, l2>>, <<>>, <<p1>>), W - 1, 2, 0)}
=============================================================================
