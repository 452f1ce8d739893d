------------------------------ MODULE ArcLock ------------------------------
(***************************************************************************)
(* What the lock protocol of the boxes is for (lock_data.h: "request from  *)
(* one cloud box to another to lock the (logical) arc connecting the       *)
(* boxes"): a box takes the arc to a neighbor for itself while it changes  *)
(* the tree, and at no time do the two ends of an arc both have it.        *)
(* No messages, no time: taking and giving back are single steps.          *)
(***************************************************************************)
EXTENDS FiniteSets

CONSTANT Node

VARIABLE holds   \* holds[n]: the boxes to which n has the arc for itself

Init == holds = [n \in Node |-> {}]

Take(n, m) ==
  /\ n \notin holds[m]
  /\ holds' = [holds EXCEPT ![n] = @ \cup {m}]

GiveBack(n, S) == holds' = [holds EXCEPT ![n] = @ \ S]

Next ==
  \E n \in Node :
    \/ \E m \in Node \ {n} : Take(n, m)
    \/ \E S \in SUBSET Node : GiveBack(n, S)

Spec == Init /\ [][Next]_holds
=============================================================================
