----------------------------- MODULE MCAdHocClient -----------------------------
(* Two boxes and two clients.                                              *)
EXTENDS AdHocClient

CONSTANTS a, b, x, y

Hear(pairs) == [r \in Box |-> [n \in Name |-> IF \E p \in pairs : p[1] = r /\ p[2] = n
                                THEN (CHOOSE p \in pairs : p[1] = r /\ p[2] = n)[3] ELSE Weak]]
Of(as, ns, sv, hs, ts, bu) == [arcs |-> as, new |-> ns, serving |-> sv, hears |-> hs, to |-> ts,
                               left |-> bu]
Spendable(m, o, c, f) == [moves |-> m, offs |-> o, casts |-> c, faults |-> f]

Both  == Hear({<<a, b, 9>>, <<b, a, 9>>, <<a, x, 8>>, <<b, x, 7>>})
Two   == Hear({<<a, b, 9>>, <<b, a, 9>>, <<a, x, 8>>, <<b, y, 7>>})
Better == Hear({<<a, b, 9>>, <<b, a, 9>>, <<a, x, 7>>, <<b, x, 8>>})
Equal  == Hear({<<a, b, 9>>, <<b, a, 9>>, <<a, x, 8>>, <<b, x, 8>>})
Near  == Hear({<<a, b, 9>>, <<b, a, 9>>, <<a, x, 7>>})
Gone  == Hear({<<a, b, 9>>, <<b, a, 9>>, <<b, x, 7>>})
Far   == Hear({<<a, x, 8>>, <<b, x, 7>>})
Pair  == {{a, b}}
Alone == {<<x, a>>}
Serving(pairs) == [c \in Client |-> IF \E p \in pairs : p[1] = c
                                    THEN (CHOOSE p \in pairs : p[1] = c)[2] ELSE None]

(* A client nobody serves yet, with a beacon lost; one that each part of a *)
(* tree serves before they are joined; broadcasts of a client of each of   *)
(* two boxes, with a frame missed or the granted locks wiped; a client that*)
(* walks from box to box; a box that is switched off, its client heard by  *)
(* the other worse, better or just as well.                                *)
Few    == {Of(Pair, {}, Serving({}), Both, Both, Spendable(0, 0, 0, 1))}
Parts  == {Of({}, Pair, Serving({}), Far, Far, Spendable(0, 0, 0, 1))}
Talk   == {Of(Pair, {}, Serving({<<x, a>>, <<y, b>>}), Two, Two, Spendable(0, 0, 2, 1))}
Walk   == {Of(Pair, {}, Serving(Alone), Near, Gone, Spendable(2, 0, 0, 1))}
Off    == {Of(Pair, {}, Serving(Alone), h, h, Spendable(0, 1, 0, 0)) : h \in {Both, Better, Equal}}
Many   == Few \cup Parts \cup Talk \cup Walk \cup Off
=============================================================================
