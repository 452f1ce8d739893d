---------------------------- MODULE Forwarding_proofs ----------------------------
(***************************************************************************)
(* That no box hands a broadcast on more often, under the numbers of its   *)
(* originator, than that one numbered it, and each to its clients only once*)
(* where the boxes on the Ethernet are out of each other's radio range,    *)
(* also by way of others: for any tree, any boxes that overhear each other,*)
(* any losses, and wherever the numbers wrap. And that there, if nothing is*)
(* lost, radio neighbors hear each other and the tree leads everywhere,    *)
(* every broadcast comes to every box unless some box dropped it though its*)
(* number was newer.                                                       *)
(***************************************************************************)
EXTENDS Forwarding, FunctionTheorems, FiniteSetTheorems, SequenceTheorems, TLAPS

(* The boxes that hear each other are of one part; where they are apart,   *)
(* the Ethernet joins at most one box of each. In all, clients send no more*)
(* broadcasts than half of the numbers.                                    *)
Together(h) == /\ h \in [Box -> Box]
               /\ \A r \in Box : \A b \in scenario.hears[r] : h[r] = h[b]
Parts(h) == Together(h) /\ \A w, v \in scenario.wired : h[w] = h[v] => w = v
FewFrames == 2 * Frames <= Modulus + 1

LEMMA PartsThere ==
  ASSUME scenario \in Scenarios
  PROVE  Together(scenario.part) /\ (Apart => Parts(scenario.part))
BY ConstAssumption DEF ConstAssumption, Scenario, Together, Parts, Apart

-----------------------------------------------------------------------------
(* Numbers                                                                 *)

LEMMA SmallMod ==
  ASSUME NEW x \in Nat, x < 2 * Modulus
  PROVE  x % Modulus = IF x < Modulus THEN x ELSE x - Modulus
BY ConstAssumption DEF ConstAssumption

(* The number of the k-th packet of an originator.                         *)
Nth(k) == IF scenario.first + k - 1 < Modulus THEN scenario.first + k - 1
          ELSE scenario.first + k - 1 - Modulus

LEMMA FirstNum ==
  ASSUME scenario \in Scenarios
  PROVE  scenario.first \in Num /\ scenario.wired \subseteq Box
BY ConstAssumption DEF ConstAssumption, Scenario

LEMMA NumNext ==
  ASSUME scenario \in Scenarios, NEW k \in Nat \ {0}, 2 * k <= Modulus + 1
  PROVE  /\ Nth(k) \in Num
         /\ (Nth(k) + 1) % Modulus = Nth(k + 1)
<1>1. scenario.first \in 0 .. Modulus - 1 /\ Modulus \in Nat /\ Modulus > 1
  BY FirstNum, ConstAssumption DEF Num, ConstAssumption
<1>2. k <= Modulus
  BY <1>1
<1>3. Nth(k) \in Nat /\ Nth(k) < Modulus
  BY <1>1, <1>2 DEF Nth
<1> DEFINE x == Nth(k) + 1
<1>4. x \in Nat /\ x < 2 * Modulus
  BY <1>1, <1>3
<1>5. x % Modulus = IF x < Modulus THEN x ELSE x - Modulus
  <2> HIDE DEF x
  <2> QED BY <1>4, SmallMod
<1> QED BY <1>1, <1>2, <1>3, <1>5 DEF Nth, Num

LEMMA NthNext ==
  ASSUME scenario \in Scenarios, FewFrames, NEW k \in 1 .. Frames
  PROVE  /\ Nth(k) \in Num
         /\ (Nth(k) + 1) % Modulus = Nth(k + 1)
<1>1. k \in Nat \ {0} /\ 2 * k <= Modulus + 1
  BY ConstAssumption DEF FewFrames, ConstAssumption
<1> QED BY <1>1, NumNext

(* Of two packets of an originator the later one is the newer one, until it*)
(* has used half of the numbers.                                           *)
LEMMA AheadIsLater ==
  ASSUME scenario \in Scenarios, NEW j \in Nat \ {0}, NEW k \in Nat \ {0},
         2 * j <= Modulus + 1, 2 * k <= Modulus + 1, Newer(Nth(k), Nth(j))
  PROVE  j < k
<1>1. scenario.first \in 0 .. Modulus - 1 /\ Modulus \in Nat /\ Modulus > 1
  BY FirstNum, ConstAssumption DEF Num, ConstAssumption
<1>2. Nth(k) \in 0 .. Modulus - 1 /\ Nth(j) \in 0 .. Modulus - 1
  BY NumNext DEF Num
<1> DEFINE x == Nth(k) - Nth(j) + Modulus
<1>3. x \in Nat /\ x < 2 * Modulus
  BY <1>1, <1>2
<1>4. x % Modulus = IF x < Modulus THEN x ELSE x - Modulus
  BY <1>3, SmallMod
<1>5. x % Modulus # 0 /\ x % Modulus <= Modulus \div 2
  BY DEF Newer, Ahead
<1> QED BY <1>1, <1>4, <1>5 DEF Nth

LEMMA NewerIsLater ==
  ASSUME scenario \in Scenarios, FewFrames, NEW j \in 1 .. Frames, NEW k \in 1 .. Frames,
         Newer(Nth(k), Nth(j))
  PROVE  j < k
<1>1. /\ j \in Nat \ {0} /\ 2 * j <= Modulus + 1
      /\ k \in Nat \ {0} /\ 2 * k <= Modulus + 1
  BY ConstAssumption DEF FewFrames, ConstAssumption
<1> QED BY <1>1, AheadIsLater

-----------------------------------------------------------------------------
(* Lists                                                                   *)

In(x, l) == \E i \in 1 .. Len(l) : l[i] = x
Distinct(l) == \A i, j \in 1 .. Len(l) : l[i] = l[j] => i = j

LEMMA Appended ==
  ASSUME NEW S, NEW l \in Seq(S), NEW x \in S
  PROVE  /\ Append(l, x) \in Seq(S)
         /\ Len(Append(l, x)) = Len(l) + 1
         /\ Append(l, x)[Len(l) + 1] = x
         /\ \A i \in 1 .. Len(l) : Append(l, x)[i] = l[i]
         /\ \A y : In(y, Append(l, x)) <=> In(y, l) \/ y = x
         /\ Distinct(l) /\ ~ In(x, l) => Distinct(Append(l, x))
<1>1. /\ Append(l, x) \in Seq(S) /\ Len(l) \in Nat
      /\ Len(Append(l, x)) = Len(l) + 1
      /\ Append(l, x)[Len(l) + 1] = x
      /\ \A i \in 1 .. Len(l) : Append(l, x)[i] = l[i]
  BY AppendProperties, LenProperties
<1> DEFINE a == Append(l, x)
<1> HIDE DEF a
<1>2. \A i \in 1 .. Len(a) : i \in 1 .. Len(l) \/ i = Len(l) + 1
  BY <1>1 DEF a
<1>3. \A i \in 1 .. Len(l) : i \in 1 .. Len(a) /\ a[i] = l[i]
  BY <1>1 DEF a
<1>4. Len(l) + 1 \in 1 .. Len(a) /\ a[Len(l) + 1] = x
  BY <1>1 DEF a
<1>5. \A y : In(y, a) <=> In(y, l) \/ y = x
  BY <1>2, <1>3, <1>4 DEF In
<1>6. ASSUME Distinct(l), ~ In(x, l) PROVE Distinct(a)
  BY <1>2, <1>3, <1>4, <1>6 DEF Distinct, In
<1> QED BY <1>1, <1>5, <1>6 DEF a

LEMMA Tailed ==
  ASSUME NEW S, NEW l \in Seq(S), l # <<>>
  PROVE  /\ Head(l) \in S /\ In(Head(l), l)
         /\ Tail(l) \in Seq(S)
         /\ \A y : In(y, Tail(l)) => In(y, l)
         /\ Distinct(l) => Distinct(Tail(l)) /\ ~ In(Head(l), Tail(l))
<1>1. /\ Head(l) \in S /\ Tail(l) \in Seq(S) /\ Len(l) \in Nat /\ Len(l) > 0
      /\ Len(Tail(l)) = Len(l) - 1 /\ Head(l) = l[1]
  BY HeadTailProperties, EmptySeq, LenProperties
<1>2. \A i \in 1 .. Len(Tail(l)) : Tail(l)[i] = l[i + 1]
  BY HeadTailProperties
<1> DEFINE t == Tail(l)
<1>3. \A i \in 1 .. Len(t) : i + 1 \in 1 .. Len(l) /\ i + 1 # 1 /\ t[i] = l[i + 1]
  BY <1>1, <1>2
<1>4. 1 \in 1 .. Len(l)
  BY <1>1
<1> HIDE DEF t
<1>5. In(Head(l), l)
  BY <1>1, <1>4 DEF In
<1>6. \A y : In(y, t) => In(y, l)
  BY <1>3 DEF In
<1>7. ASSUME Distinct(l) PROVE Distinct(t) /\ ~ In(Head(l), t)
  <2>1. \A i, j \in 1 .. Len(t) : t[i] = t[j] => i + 1 = j + 1
    BY <1>3, <1>7 DEF Distinct
  <2>2. Distinct(t)
    BY <2>1 DEF Distinct
  <2>3. ~ In(Head(l), t)
    BY <1>1, <1>3, <1>4, <1>7 DEF Distinct, In
  <2> QED BY <2>2, <2>3
<1> QED BY <1>1, <1>5, <1>6, <1>7 DEF t

(* A list without repetitions is no longer than there are frames, and      *)
(* shorter if one is missing.                                              *)
LEMMA Room ==
  ASSUME NEW l \in Seq(Frame), Distinct(l)
  PROVE  /\ Len(l) <= Frames
         /\ \A f \in Frame : ~ In(f, l) => Len(l) < Frames
<1>1. Frames \in Nat /\ Len(l) \in Nat
  BY ConstAssumption, LenProperties DEF ConstAssumption
<1>2. IsFiniteSet(Frame) /\ Cardinality(Frame) = Frames
  BY <1>1, FS_Interval DEF Frame
<1>3. IsFiniteSet(1 .. Len(l)) /\ Cardinality(1 .. Len(l)) = Len(l)
  BY <1>1, FS_Interval
<1>4. \A i \in 1 .. Len(l) : l[i] \in Frame
  BY ElementOfSeq
<1> DEFINE g == [i \in 1 .. Len(l) |-> l[i]]
<1>5. ASSUME NEW T \in SUBSET Frame, IsFiniteSet(T), \A i \in 1 .. Len(l) : l[i] \in T
      PROVE  Len(l) <= Cardinality(T)
  <2>1. g \in Injection(1 .. Len(l), T)
    BY <1>5 DEF Injection, IsInjective, Distinct
  <2> QED BY <2>1, <1>3, <1>5, FS_Injection
<1>6. Len(l) <= Frames
  BY <1>2, <1>4, <1>5
<1>7. ASSUME NEW f \in Frame, ~ In(f, l) PROVE Len(l) < Frames
  <2>1. IsFiniteSet(Frame \ {f}) /\ Cardinality(Frame \ {f}) = Frames - 1
    BY <1>2, FS_RemoveElement
  <2>2. \A i \in 1 .. Len(l) : l[i] \in Frame \ {f}
    BY <1>4, <1>7 DEF In
  <2>3. Len(l) <= Frames - 1
    BY <1>5, <2>1, <2>2
  <2> QED BY <1>1, <2>3
<1> QED BY <1>6, <1>7

-----------------------------------------------------------------------------
(* Beacons: while there are no gaps, a box has one of each other box.      *)

Packet == [from : Box, originator : Box, num : Num, frame : Frame]
Beacon == [originator : Box, num : Num \cup {None}]

Complete(b) == /\ beacons[b] \in Seq(Beacon)
               /\ Known(b) = Box \ {b}
               /\ \A i, j \in 1 .. Len(beacons[b]) :
                    beacons[b][i].originator = beacons[b][j].originator => i = j

LEMMA Found ==
  ASSUME NEW b \in Box, Complete(b), NEW o \in Box \ {b}
  PROVE  /\ At(b, o) \in 1 .. Len(beacons[b])
         /\ beacons[b][At(b, o)].originator = o
         /\ LastNum(b, o) \in Num \cup {None}
<1>1. DOMAIN beacons[b] = 1 .. Len(beacons[b])
  BY LenProperties DEF Complete
<1>2. \E i \in DOMAIN beacons[b] : beacons[b][i].originator = o
  BY DEF Complete, Known
<1>3. At(b, o) \in DOMAIN beacons[b] /\ beacons[b][At(b, o)].originator = o
  BY <1>2 DEF At
<1>4. beacons[b][At(b, o)] \in Beacon
  BY <1>1, <1>3, ElementOfSeq DEF Complete
<1> QED BY <1>1, <1>3, <1>4 DEF LastNum, Beacon

(* At the start the beacons of the others are there, none has a number.    *)
LEMMA FirstBeacons ==
  ASSUME Init, gaps = 0, NEW b \in Box
  PROVE  Complete(b) /\ \A o \in Box \ {b} : LastNum(b, o) = None
<1> DEFINE S == Box \ {b}
           os == SetToSeq(S)
           n == Cardinality(S)
<1>1. scenario.missing[b] = {}
  BY ConstAssumption DEF Init, ConstAssumption, Scenario
<1>2. IsFiniteSet(S) /\ n \in Nat
  BY ConstAssumption, FS_RemoveElement, FS_CardinalityType DEF ConstAssumption
<1>3. os \in [1 .. n -> S] /\ IsInjective(os)
  <2>1. PICK f \in [1 .. n -> S] : f \in Bijection(1 .. n, S)
    BY <1>2, FS_CardinalityType DEF ExistsBijection, Bijection, Injection
  <2>2. IsInjective(f)
    BY <2>1 DEF Bijection, Injection, IsInjective
  <2> QED BY <2>2 DEF SetToSeq
<1>4. \A x \in S : \E i \in 1 .. n : os[i] = x
  <2>1. os \in Injection(1 .. n, S)
    BY <1>3 DEF Injection, IsInjective
  <2>2. Cardinality(1 .. n) = n
    BY <1>2, FS_Interval
  <2>3. os \in Surjection(1 .. n, S)
    BY <1>2, <2>1, <2>2, FS_Injection
  <2> QED BY <2>3 DEF Surjection
<1>5. beacons[b] = [i \in 1 .. n |-> [originator |-> os[i], num |-> None]]
  <2>1. Box \ (scenario.missing[b] \cup {b}) = S
    BY <1>1
  <2>2. beacons[b] = LET l == SetToSeq(Box \ (scenario.missing[b] \cup {b})) IN
                       [i \in DOMAIN l |-> [originator |-> l[i], num |-> None]]
    BY DEF Init
  <2>3. DOMAIN os = 1 .. n
    BY <1>3
  <2> QED BY <2>1, <2>2, <2>3
<1> HIDE DEF os, n, S
<1>6. \A i \in 1 .. n : beacons[b][i] \in Beacon
  BY <1>3, <1>5 DEF Beacon, S
<1>7. beacons[b] \in Seq(Beacon) /\ Len(beacons[b]) = n /\ DOMAIN beacons[b] = 1 .. n
  <2>1. beacons[b] \in [1 .. n -> Beacon]
    BY <1>5, <1>6
  <2>2. beacons[b] \in Seq(Beacon)
    BY <1>2, <2>1, SeqDef
  <2>3. DOMAIN beacons[b] = 1 .. n
    BY <2>1
  <2>4. Len(beacons[b]) \in Nat /\ DOMAIN beacons[b] = 1 .. Len(beacons[b])
    BY <2>2, LenProperties
  <2> QED BY <1>2, <2>2, <2>3, <2>4
<1>8. Known(b) = Box \ {b}
  <2>1. Known(b) = {beacons[b][i].originator : i \in 1 .. n}
    BY <1>7 DEF Known
  <2>2. Known(b) = {os[i] : i \in 1 .. n}
    BY <1>5, <2>1
  <2> QED BY <1>3, <1>4, <2>2 DEF S
<1>9. \A i, j \in 1 .. n : beacons[b][i].originator = beacons[b][j].originator => i = j
  BY <1>3, <1>5 DEF IsInjective
<1>10. Complete(b)
  BY <1>7, <1>8, <1>9 DEF Complete
<1>11. \A i \in 1 .. n : beacons[b][i].num = None
  BY <1>5
<1> QED BY <1>7, <1>10, <1>11, Found DEF LastNum

LEMMA MarkedLast ==
  ASSUME NEW b \in Box, NEW m \in Packet, FirstOf(b, m) \/ LaterOf(b, m),
         beacons \in [Box -> Seq(Beacon)],
         \A c \in Box : Complete(c),
         beacons' = Marked(b, m)
  PROVE  /\ beacons' \in [Box -> Seq(Beacon)]
         /\ \A c \in Box : Complete(c)'
         /\ \A c \in Box : \A o \in Box \ {c} :
              LastNum(c, o)' = IF c = b /\ o = m.originator THEN m.num ELSE LastNum(c, o)
<1> DEFINE a == At(b, m.originator)
<1>0. m.originator # b
  BY DEF FirstOf, LaterOf
<1>1. m.originator \in Known(b) /\ m.num \in Num
  BY <1>0 DEF Complete, Packet
<1>2. a \in 1 .. Len(beacons[b]) /\ beacons[b][a].originator = m.originator
  BY <1>0, Found DEF Packet
<1>3. beacons' = [beacons EXCEPT ![b][a].num = m.num]
  BY <1>1 DEF Marked
<1> HIDE DEF a
<1>4. \A c \in Box : beacons[c] \in Seq(Beacon) /\ DOMAIN beacons[c] = 1 .. Len(beacons[c])
                     /\ Len(beacons[c]) \in Nat
  BY LenProperties
<1>5. \A c \in Box \ {b} : beacons'[c] = beacons[c]
  BY <1>3
<1>6. beacons[b][a] \in Beacon
  BY <1>2, <1>4, ElementOfSeq
<1>7. beacons'[b] = [beacons[b] EXCEPT ![a] = [beacons[b][a] EXCEPT !.num = m.num]]
  BY <1>2, <1>3, <1>4
<1>8. [beacons[b][a] EXCEPT !.num = m.num] \in Beacon
  BY <1>1, <1>6 DEF Beacon
<1>9. beacons'[b] \in Seq(Beacon) /\ Len(beacons'[b]) = Len(beacons[b])
  BY <1>2, <1>4, <1>7, <1>8, ExceptSeq
<1>10. beacons' \in [Box -> Seq(Beacon)]
  BY <1>3, <1>5, <1>9
<1>11. \A i \in 1 .. Len(beacons[b]) :
         beacons'[b][i].originator = beacons[b][i].originator
         /\ beacons'[b][i].num = IF i = a THEN m.num ELSE beacons[b][i].num
  BY <1>4, <1>6, <1>7 DEF Beacon
<1>12. DOMAIN beacons'[b] = DOMAIN beacons[b]
  BY <1>4, <1>9, LenProperties
<1>13. ASSUME NEW c \in Box PROVE Complete(c)'
  <2>1. CASE c = b
    <3>1. Known(b)' = Known(b)
      BY <1>4, <1>11, <1>12 DEF Known
    <3> QED BY <2>1, <3>1, <1>9, <1>11 DEF Complete
  <2>2. CASE c # b
    <3>1. c \in Box \ {b}
      BY <2>2
    <3>2. beacons'[c] = beacons[c]
      BY <3>1, <1>5
    <3> QED BY <3>2 DEF Complete, Known
  <2> QED BY <2>1, <2>2
<1>14. ASSUME NEW c \in Box, NEW o \in Box \ {c}
       PROVE  LastNum(c, o)' = IF c = b /\ o = m.originator THEN m.num ELSE LastNum(c, o)
  <2>1. CASE c # b
    <3>1. c \in Box \ {b}
      BY <2>1
    <3>2. beacons'[c] = beacons[c]
      BY <3>1, <1>5
    <3> QED BY <2>1, <3>2 DEF LastNum, At
  <2>2. CASE c = b
    <3>1. At(b, o) \in 1 .. Len(beacons[b]) /\ beacons[b][At(b, o)].originator = o
      BY <2>2, Found
    <3>2. At(b, o)' = At(b, o)
      <4>1. \A i \in DOMAIN beacons[b] : beacons[b][i].originator = o <=> i = At(b, o)
        BY <1>4, <3>1 DEF Complete
      <4>2. \A i \in DOMAIN beacons'[b] : beacons'[b][i].originator = o <=> i = At(b, o)
        BY <1>4, <1>11, <1>12, <4>1
      <4>3. At(b, o) \in DOMAIN beacons'[b]
        BY <1>4, <1>12, <3>1
      <4>4. (CHOOSE i \in DOMAIN beacons'[b] : beacons'[b][i].originator = o) = At(b, o)
        BY <4>2, <4>3
      <4> QED BY <4>4 DEF At
    <3>3. At(b, o) = a <=> o = m.originator
      BY <3>1, <1>2 DEF a
    <3> QED BY <2>2, <3>1, <3>2, <3>3, <1>11 DEF LastNum
  <2> QED BY <2>1, <2>2
<1> QED BY <1>10, <1>13, <1>14

-----------------------------------------------------------------------------
(* How often a box handed a frame on, up to twice, whoever numbered it.    *)
Tally == [Box -> [Box -> [Frame -> 0 .. 2]]]
NoneOf(b, f) == \A o \in Box : got[b][o][f] = 0
OneOf(b, f)  == \E o \in Box : got[b][o][f] = 1 /\ \A p \in Box \ {o} : got[b][p][f] = 0
Times(b, f)  == IF NoneOf(b, f) THEN 0 ELSE IF OneOf(b, f) THEN 1 ELSE 2
Seen == [b \in Box |-> [f \in Frame |-> Times(b, f)]]

LEMMA SeenTimes ==
  /\ Seen \in [Box -> [Frame -> 0 .. 2]]
  /\ \A b \in Box : \A f \in Frame : Seen[b][f] = Times(b, f)
<1>1. \A b \in Box : \A f \in Frame : Times(b, f) \in 0 .. 2
  BY DEF Times
<1> QED BY <1>1 DEF Seen

LEMMA SeenSame ==
  ASSUME got' = got
  PROVE  Seen' = Seen
BY DEF Seen, Times, NoneOf, OneOf

LEMMA TwiceRange ==
  \A n \in 0 .. 2 : Twice(n) \in 0 .. 2 /\ Twice(n) > 0 /\ (Twice(n) = 2 => n >= 1)
BY DEF Twice

Counts(b, o, f) == got' = [got EXCEPT ![b][o][f] = Twice(@)]

LEMMA CountedOne ==
  ASSUME got \in Tally, NEW b \in Box, NEW o \in Box, NEW f \in Frame, Counts(b, o, f)
  PROVE  /\ got' \in Tally
         /\ \A c, p \in Box : \A g \in Frame :
              got'[c][p][g] = IF c = b /\ p = o /\ g = f THEN Twice(got[b][o][f])
                              ELSE got[c][p][g]
<1>1. got[b][o][f] \in 0 .. 2
  BY DEF Tally
<1>2. got'[b][o] = [got[b][o] EXCEPT ![f] = Twice(got[b][o][f])]
  BY DEF Tally, Counts
<1>3. \A c, p \in Box : ~ (c = b /\ p = o) => got'[c][p] = got[c][p]
  BY DEF Tally, Counts
<1>4. \A c, p \in Box : got[c][p] \in [Frame -> 0 .. 2]
  BY DEF Tally
<1>5. got'[b][o] \in [Frame -> 0 .. 2]
  BY <1>1, <1>2, <1>4, TwiceRange
<1>6. \A c, p \in Box : got'[c][p] \in [Frame -> 0 .. 2]
  BY <1>3, <1>4, <1>5
<1>7. got' \in Tally
  <2>1. \A c \in Box : got'[c] = [p \in Box |-> got'[c][p]]
    BY DEF Tally, Counts
  <2>2. \A c \in Box : got'[c] \in [Box -> [Frame -> 0 .. 2]]
    BY <1>6, <2>1
  <2>3. got' = [c \in Box |-> got'[c]]
    BY DEF Tally, Counts
  <2> QED BY <2>2, <2>3 DEF Tally
<1>8. \A g \in Frame : got'[b][o][g] = IF g = f THEN Twice(got[b][o][f]) ELSE got[b][o][g]
  BY <1>2, <1>4
<1> QED BY <1>3, <1>7, <1>8

LEMMA CountedTwice ==
  ASSUME got \in Tally, NEW b \in Box, NEW o \in Box, NEW f \in Frame, Counts(b, o, f)
  PROVE  /\ got' \in Tally
         /\ Seen' \in [Box -> [Frame -> 0 .. 2]]
         /\ \A c \in Box : \A g \in Frame :
              Seen'[c][g] = IF c = b /\ g = f THEN Twice(Seen[b][f]) ELSE Seen[c][g]
<1>1. got[b][o][f] \in 0 .. 2 /\ \A c, p \in Box : \A g \in Frame : got[c][p][g] \in 0 .. 2
  BY DEF Tally
<1>2. /\ got' \in Tally
      /\ \A c, p \in Box : \A g \in Frame :
           got'[c][p][g] = IF c = b /\ p = o /\ g = f THEN Twice(got[b][o][f])
                           ELSE got[c][p][g]
  BY CountedOne
<1>3. ASSUME NEW c \in Box, NEW g \in Frame, ~ (c = b /\ g = f)
      PROVE  Times(c, g)' = Times(c, g)
  <2>1. \A p \in Box : got'[c][p][g] = got[c][p][g]
    BY <1>2, <1>3
  <2> QED BY <2>1 DEF Times, NoneOf, OneOf
<1>4. Times(b, f)' = Twice(Times(b, f))
  <2>1. \A p \in Box : got'[b][p][f] = IF p = o THEN Twice(got[b][o][f]) ELSE got[b][p][f]
    BY <1>2
  <2>2. ~ NoneOf(b, f)'
    BY <1>1, <2>1, TwiceRange DEF NoneOf
  <2>3. CASE NoneOf(b, f)
    <3>1. got'[b][o][f] = 1 /\ \A p \in Box \ {o} : got'[b][p][f] = 0
      BY <2>1, <2>3 DEF NoneOf, Twice
    <3>2. OneOf(b, f)'
      BY <3>1 DEF OneOf
    <3> QED BY <2>2, <2>3, <3>2 DEF Times, Twice
  <2>4. CASE ~ NoneOf(b, f)
    <3>1. ~ OneOf(b, f)'
      <4> SUFFICES ASSUME NEW q \in Box, got'[b][q][f] = 1,
                          \A p \in Box \ {q} : got'[b][p][f] = 0
                   PROVE  FALSE
        BY DEF OneOf
      <4>1. Twice(got[b][o][f]) > 0 /\ Twice(got[b][o][f]) \in 0 .. 2
        BY <1>1, TwiceRange
      <4>2. q = o
        BY <2>1, <4>1
      <4>3. got[b][o][f] = 0
        BY <1>1, <2>1, <4>2 DEF Twice
      <4>4. \A p \in Box \ {o} : got[b][p][f] = 0
        BY <2>1, <4>2
      <4> QED BY <2>4, <4>3, <4>4 DEF NoneOf
    <3>2. Times(b, f)' = 2 /\ Times(b, f) \in {1, 2}
      BY <2>2, <2>4, <3>1 DEF Times
    <3> QED BY <3>2 DEF Twice
  <2> QED BY <2>3, <2>4
<1>5. Seen' \in [Box -> [Frame -> 0 .. 2]]
      /\ \A c \in Box : \A g \in Frame : Seen'[c][g] = Times(c, g)'
  <2>1. \A c \in Box : \A g \in Frame : Times(c, g)' \in 0 .. 2
    BY DEF Times
  <2> QED BY <2>1 DEF Seen
<1> QED BY <1>2, <1>3, <1>4, <1>5, SeenTimes

-----------------------------------------------------------------------------
(* What is put on the radio and on the Ethernet                            *)

JustHeard(S, q, rs, x, p) ==
  /\ p \in [Box -> Seq(S)]
  /\ \A r \in Box : \A y : In(y, p[r]) => In(y, q[r]) \/ (r \in rs /\ y = x)
  /\ \A r \in Box : Distinct(q[r]) /\ (r \in rs => ~ In(x, q[r])) => Distinct(p[r])

LEMMA Heard ==
  ASSUME NEW S, NEW q \in [Box -> Seq(S)], NEW rs, NEW x \in S
  PROVE  JustHeard(S, q, rs, x, Hear(q, rs, x))
<1> DEFINE h == Hear(q, rs, x)
<1>1. \A r \in Box : h[r] = IF r \in rs /\ Len(q[r]) < Buffer THEN Append(q[r], x) ELSE q[r]
  BY DEF Hear
<1>2. h = [r \in Box |-> h[r]]
  BY DEF Hear
<1> HIDE DEF h
<1>3. ASSUME NEW r \in Box
      PROVE  /\ h[r] \in Seq(S)
             /\ \A y : In(y, h[r]) => In(y, q[r]) \/ (r \in rs /\ y = x)
             /\ Distinct(q[r]) /\ (r \in rs => ~ In(x, q[r])) => Distinct(h[r])
  <2>1. q[r] \in Seq(S)
    OBVIOUS
  <2>2. h[r] = q[r] \/ (r \in rs /\ h[r] = Append(q[r], x))
    BY <1>1
  <2>3. CASE h[r] = q[r]
    BY <2>1, <2>3
  <2>4. CASE r \in rs /\ h[r] = Append(q[r], x)
    BY <2>1, <2>4, Appended
  <2> QED BY <2>2, <2>3, <2>4
<1> QED BY <1>2, <1>3 DEF h, JustHeard

GoneOut(h, b, m, fromEth, rd, et) ==
  /\ radio' \in [Box -> Seq(Packet)]
  /\ eth' \in [Box -> Seq(Frame)]
  /\ got' \in Tally /\ Seen' \in [Box -> [Frame -> 0 .. 2]]
  /\ \A r \in Box : \A x \in Packet :
       In(x, radio'[r]) =>
         \/ In(x, rd[r])
         \/ /\ h[r] = h[b] /\ x.originator = m.originator
            /\ x.num = m.num /\ x.frame = m.frame
  /\ \A w \in Box : \A f \in Frame :
       In(f, eth'[w]) =>
         \/ In(f, et[w])
         \/ f = m.frame /\ PutsOnEth(b, fromEth) /\ w \in scenario.wired \ {b}
  /\ \A w \in Box :
       /\ Distinct(et[w])
       /\ PutsOnEth(b, fromEth) /\ w \in scenario.wired \ {b} => ~ In(m.frame, et[w])
       => Distinct(eth'[w])
  /\ \A c \in Box : \A f \in Frame :
       Seen'[c][f] = IF c = b /\ f = m.frame THEN Twice(Seen[b][f]) ELSE Seen[c][f]

LEMMA Forwarded ==
  ASSUME NEW h, Together(h), scenario \in Scenarios,
         NEW b \in Box, NEW m \in Packet, NEW local \in BOOLEAN, NEW s, NEW fromEth \in BOOLEAN,
         NEW rd \in [Box -> Seq(Packet)], NEW et \in [Box -> Seq(Frame)],
         gaps = 0, got \in Tally,
         Forward(b, m, local, s, fromEth, rd, et)
  PROVE  GoneOut(h, b, m, fromEth, rd, et)
<1> DEFINE rs == IF ForAir(b, local, s) # {} THEN Hearers(b) ELSE {}
           es == IF PutsOnEth(b, fromEth) THEN scenario.wired \ {b} ELSE {}
           x == [m EXCEPT !.from = b]
<1>1. x \in Packet /\ m.frame \in Frame
      /\ x.originator = m.originator /\ x.num = m.num /\ x.frame = m.frame
  BY DEF Packet
<1>2. radio' = Hear(rd, rs, x) /\ eth' = Hear(et, es, m.frame)
  BY DEF Forward
<1>3. \A r \in rs : r \in Box /\ h[r] = h[b]
  BY DEF Together, Hearers
<1>4. \A w \in es : PutsOnEth(b, fromEth) /\ w \in scenario.wired \ {b}
  OBVIOUS
<1>5. PutsOnEth(b, fromEth) => es = scenario.wired \ {b}
  OBVIOUS
<1>6. m.originator \in Box /\ got' = [got EXCEPT ![b][m.originator][m.frame] = Twice(@)]
  BY DEF Forward, Packet
<1>8. /\ got' \in Tally /\ Seen' \in [Box -> [Frame -> 0 .. 2]]
      /\ \A c \in Box : \A f \in Frame :
              Seen'[c][f] = IF c = b /\ f = m.frame THEN Twice(Seen[b][f]) ELSE Seen[c][f]
  <2>1. PICK o, g : o = m.originator /\ g = m.frame
    OBVIOUS
  <2>2. o \in Box /\ g \in Frame /\ Counts(b, o, g)
    BY <1>1, <1>6, <2>1 DEF Counts
  <2>3. /\ got' \in Tally /\ Seen' \in [Box -> [Frame -> 0 .. 2]]
        /\ \A c \in Box : \A f \in Frame :
              Seen'[c][f] = IF c = b /\ f = g THEN Twice(Seen[b][g]) ELSE Seen[c][f]
    BY <2>2, CountedTwice
  <2> QED BY <2>1, <2>3
<1> HIDE DEF rs, es, x
<1>9. /\ radio' \in [Box -> Seq(Packet)]
      /\ \A r \in Box : \A y : In(y, radio'[r]) => In(y, rd[r]) \/ (r \in rs /\ y = x)
  <2>1. x \in Packet /\ rd \in [Box -> Seq(Packet)]
    BY <1>1
  <2>2. JustHeard(Packet, rd, rs, x, Hear(rd, rs, x))
    BY <2>1, Heard
  <2> QED BY <2>2, <1>2 DEF JustHeard
<1>10. /\ eth' \in [Box -> Seq(Frame)]
       /\ \A w \in Box : \A y : In(y, eth'[w]) => In(y, et[w]) \/ (w \in es /\ y = m.frame)
       /\ \A w \in Box :
            Distinct(et[w]) /\ (w \in es => ~ In(m.frame, et[w])) => Distinct(eth'[w])
  <2>1. m.frame \in Frame /\ et \in [Box -> Seq(Frame)]
    BY <1>1
  <2>2. JustHeard(Frame, et, es, m.frame, Hear(et, es, m.frame))
    BY <2>1, Heard
  <2> QED BY <2>2, <1>2 DEF JustHeard
<1>11. \A r \in Box : \A y \in Packet :
         In(y, radio'[r]) =>
                \/ In(y, rd[r])
                \/ /\ h[r] = h[b] /\ y.originator = m.originator
                   /\ y.num = m.num /\ y.frame = m.frame
  BY <1>1, <1>3, <1>9
<1>12. \A w \in Box : \A f \in Frame :
              In(f, eth'[w]) =>
                \/ In(f, et[w])
                \/ f = m.frame /\ PutsOnEth(b, fromEth) /\ w \in scenario.wired \ {b}
  BY <1>4, <1>10
<1>13. \A w \in Box :
              /\ Distinct(et[w])
              /\ PutsOnEth(b, fromEth) /\ w \in scenario.wired \ {b} => ~ In(m.frame, et[w])
              => Distinct(eth'[w])
  BY <1>4, <1>10
<1> QED BY <1>8, <1>9, <1>10, <1>11, <1>12, <1>13 DEF GoneOut

-----------------------------------------------------------------------------
(* The invariant. Of what happened it uses, beside the parts h, two things *)
(* the state does not keep: l[b], the frames b numbered, in order, and     *)
(* s[f], the box whose client sent f, None if it came over the Ethernet.   *)

Shape(l, s) ==
  /\ scenario \in Scenarios /\ sent \in 0 .. Frames
  /\ number \in [Box -> Num] /\ beacons \in [Box -> Seq(Beacon)]
  /\ radio \in [Box -> Seq(Packet)] /\ eth \in [Box -> Seq(Frame)]
  /\ gaps = 0 /\ got \in Tally /\ Seen \in [Box -> [Frame -> 0 .. 2]]
  /\ l \in [Box -> Seq(Frame)] /\ s \in [Frame -> Box \cup {None}]

(* In its part a frame is numbered by the box it came to: its source, in   *)
(* the others the box on the Ethernet.                                     *)
Numbering(h, l, s) ==
  \A b \in Box : \A f \in Frame : In(f, l[b]) =>
    /\ f <= sent
    /\ s[f] = None => b \in scenario.wired
    /\ s[f] # None => b = s[f] \/ (b \in scenario.wired /\ h[b] # h[s[f]])

(* The k-th frame a box numbered has the k-th number.                      *)
Numbers(l) == \A b \in Box : number[b] = Nth(Len(l[b]) + 1) /\ Distinct(l[b])
Places(l, m) == {k \in 1 .. Len(l[m.originator]) :
                   l[m.originator][k] = m.frame /\ m.num = Nth(k)}
OnAir(h, l) ==
  \A r \in Box : \A m \in Packet : In(m, radio[r]) =>
    h[m.originator] = h[r] /\ Places(l, m) # {}

(* A frame on its way over the Ethernet comes into a part for the first    *)
(* time, and from the one box of its own part that put it there.           *)
OnWire(h, l, s) ==
  \A w \in Box : Distinct(eth[w]) /\ \A f \in Frame : In(f, eth[w]) =>
    /\ w \in scenario.wired /\ f <= sent /\ ~ In(f, l[w])
    /\ s[f] # None => h[s[f]] # h[w]
Crossed(h, l, s) ==
  \A w \in scenario.wired : \A f \in Frame :
    s[f] # None /\ h[w] # h[s[f]] /\ (In(f, eth[w]) \/ In(f, l[w])) =>
      \E v \in scenario.wired : h[v] = h[s[f]] /\ Seen[v][f] >= 1

(* The last number a box knows of another is one it used, and not before   *)
(* any that the box handled.                                               *)
Lasts(l) == \A b \in Box : Complete(b) /\ \A o \in Box \ {b} :
              LastNum(b, o) = None \/ \E k \in 1 .. Len(l[o]) : LastNum(b, o) = Nth(k)
Handled(l, b, o, f) ==
  \E k \in 1 .. Len(l[o]) :
    /\ l[o][k] = f
    /\ o = b \/ \E j \in 1 .. Len(l[o]) : LastNum(b, o) = Nth(j) /\ k <= j
Once(h, l) ==
  \A b \in Box : \A f \in Frame :
    /\ Seen[b][f] <= 1
    /\ Seen[b][f] = 1 => \E o \in Box : h[o] = h[b] /\ Handled(l, b, o, f)

J(h, l, s) == /\ Parts(h) /\ Shape(l, s) /\ Numbering(h, l, s) /\ Numbers(l)
              /\ OnAir(h, l) /\ OnWire(h, l, s) /\ Crossed(h, l, s) /\ Lasts(l) /\ Once(h, l)
IInv == gaps = 0 /\ Apart => \E h, l, s : J(h, l, s)

NoneNumbered == [b \in Box |-> <<>>]
NoneSent     == [f \in Frame |-> None]

LEMMA InitJ ==
  ASSUME Init, gaps = 0, NEW h, Parts(h)
  PROVE  J(h, NoneNumbered, NoneSent)
<1> DEFINE l == NoneNumbered
           s == NoneSent
<1>2. \A b \in Box : Complete(b) /\ \A o \in Box \ {b} : LastNum(b, o) = None
  BY FirstBeacons
<1>3. \A b \in Box : l[b] = <<>> /\ Len(l[b]) = 0 /\ radio[b] = <<>> /\ eth[b] = <<>>
  BY DEF Init, NoneNumbered
<1>4. \A x : ~ In(x, <<>>)
  BY DEF In
<1>5. Shape(l, s)
  <2>1. scenario.first \in Num
    BY FirstNum DEF Init
  <2>2. number \in [Box -> Num] /\ sent \in 0 .. Frames /\ scenario \in Scenarios
    BY <2>1, ConstAssumption DEF Init, ConstAssumption
  <2>3. beacons \in [Box -> Seq(Beacon)]
    <3>1. \A b \in Box : beacons[b] \in Seq(Beacon)
      BY <1>2 DEF Complete
    <3>2. beacons = [b \in Box |-> beacons[b]]
      BY DEF Init
    <3> QED BY <3>1, <3>2
  <2>4. radio \in [Box -> Seq(Packet)] /\ eth \in [Box -> Seq(Frame)] /\ l \in [Box -> Seq(Frame)]
    BY DEF Init, NoneNumbered
  <2>5. got \in Tally /\ s \in [Frame -> Box \cup {None}]
    BY DEF Init, NoneSent, Tally
  <2> QED BY <2>2, <2>3, <2>4, <2>5, SeenTimes DEF Shape
<1>6. Numbers(l)
  <2>1. Nth(1) = scenario.first
    BY FirstNum, ConstAssumption DEF Nth, Init, Num, ConstAssumption
  <2>2. \A b \in Box : number[b] = scenario.first
    BY DEF Init
  <2> QED BY <1>3, <2>1, <2>2 DEF Numbers, Distinct
<1>7. \A b \in Box : \A f \in Frame : Seen[b][f] = 0
  BY SeenTimes DEF Init, Times, NoneOf
<1>8. Lasts(l)
  BY <1>2 DEF Lasts
<1>9. \A b \in Box : \A x : ~ In(x, l[b]) /\ ~ In(x, radio[b]) /\ ~ In(x, eth[b])
  BY <1>3, <1>4
<1>10. scenario.wired \subseteq Box
  BY FirstNum DEF Init
<1>11. \A b \in Box : Distinct(eth[b])
  BY <1>3 DEF Distinct
<1> HIDE DEF l, s
<1>12. Numbering(h, l, s) /\ OnAir(h, l)
  BY <1>9 DEF Numbering, OnAir
<1>13. OnWire(h, l, s) /\ Crossed(h, l, s)
  BY <1>9, <1>10, <1>11 DEF OnWire, Crossed
<1>14. Once(h, l)
  BY <1>7 DEF Once
<1> QED BY <1>5, <1>6, <1>8, <1>12, <1>13, <1>14 DEF J, l, s

LEMMA InitInv ==
  ASSUME Init
  PROVE  IInv
<1> SUFFICES ASSUME gaps = 0, Apart PROVE \E h, l, s : J(h, l, s)
  BY DEF IInv
<1>1. PICK h : Parts(h)
  BY PartsThere DEF Init
<1> QED BY <1>1, InitJ

-----------------------------------------------------------------------------
(* What follows from it                                                    *)

(* In one part, one box numbers a frame.                                   *)
LEMMA OneOriginator ==
  ASSUME NEW h, NEW l, NEW s, J(h, l, s),
         NEW o \in Box, NEW p \in Box, NEW f \in Frame,
         In(f, l[o]), In(f, l[p]), h[o] = h[p]
  PROVE  o = p
BY DEF J, Numbering, Parts, Together

(* A packet that is new to a box brings a frame that is.                   *)
LEMMA NewFrame ==
  ASSUME NEW h, NEW l, NEW s, J(h, l, s), FewFrames,
         NEW b \in Box, NEW m \in Packet, h[m.originator] = h[b],
         NEW k \in Places(l, m), FirstOf(b, m) \/ LaterOf(b, m)
  PROVE  /\ m.originator # b
         /\ Seen[b][m.frame] = 0
         /\ \A j \in 1 .. Len(l[m.originator]) : LastNum(b, m.originator) = Nth(j) => j < k
<1> DEFINE o == m.originator
           f == m.frame
<1>1. o \in Box /\ f \in Frame /\ m.num = Nth(k) /\ k \in 1 .. Len(l[o]) /\ l[o][k] = f
  BY DEF Packet, Places
<1>2. o # b
  BY DEF FirstOf, LaterOf
<1>3. o \in Known(b)
  BY <1>1, <1>2 DEF J, Lasts, Complete
<1>4. LastNum(b, o) = None \/ Newer(m.num, LastNum(b, o))
  BY <1>3 DEF FirstOf, LaterOf
<1>5. Distinct(l[o]) /\ l[o] \in Seq(Frame) /\ Len(l[o]) \in Nat
  BY <1>1, LenProperties DEF J, Numbers, Shape
<1>6. Len(l[o]) <= Frames
  BY <1>5, Room
<1>7. ASSUME NEW j \in 1 .. Len(l[o]), LastNum(b, o) = Nth(j)
      PROVE  j < k
  <2>1. j \in 1 .. Frames /\ k \in 1 .. Frames
    BY <1>1, <1>5, <1>6, ConstAssumption DEF ConstAssumption
  <2>2. Nth(j) \in Num /\ None \notin Num
    BY <2>1, NthNext, ConstAssumption DEF J, Shape, ConstAssumption
  <2>3. Newer(Nth(k), Nth(j))
    BY <1>1, <1>4, <1>7, <2>2
  <2> QED BY <2>1, <2>3, NewerIsLater DEF J, Shape
<1>8. ASSUME Seen[b][f] = 1
      PROVE  FALSE
  <2>1. PICK p \in Box : h[p] = h[b] /\ Handled(l, b, p, f)
    BY <1>1, <1>8 DEF J, Once
  <2>2. In(f, l[o]) /\ In(f, l[p])
    BY <1>1, <2>1 DEF In, Handled
  <2>3. p = o
    BY <1>1, <2>1, <2>2, OneOriginator
  <2>4. PICK i \in 1 .. Len(l[o]), j \in 1 .. Len(l[o]) :
          l[o][i] = f /\ LastNum(b, o) = Nth(j) /\ i <= j
    BY <1>2, <2>1, <2>3 DEF Handled
  <2>5. i = k
    BY <1>1, <1>5, <2>4 DEF Distinct
  <2> QED BY <1>5, <1>7, <2>4, <2>5
<1>9. Seen[b][f] \in 0 .. 1
  BY <1>1 DEF J, Shape, Once
<1> QED BY <1>2, <1>7, <1>8, <1>9

-----------------------------------------------------------------------------
(* The steps that number nothing                                           *)

(* Nothing but lists of unread packets and frames gets shorter.            *)
LEMMA FewerKept ==
  ASSUME NEW h, NEW l, NEW s, J(h, l, s),
         UNCHANGED <<scenario, sent, number, beacons, got, gaps>>,
         radio' \in [Box -> Seq(Packet)], eth' = eth,
         \A r \in Box : \A x \in Packet : In(x, radio'[r]) => In(x, radio[r])
  PROVE  J(h, l, s)'
<1>0. Seen' = Seen
  BY SeenSame
<1>1. Parts(h)' /\ Shape(l, s)'
  BY <1>0 DEF J, Parts, Together, Shape
<1>2. Numbering(h, l, s)' /\ Numbers(l)' /\ OnWire(h, l, s)' /\ Crossed(h, l, s)'
  BY <1>0 DEF J, Numbering, Numbers, Nth, OnWire, Crossed
<1>3. \A k : Nth(k)' = Nth(k)
  BY DEF Nth
<1>4. \A m \in Packet : Places(l, m)' = Places(l, m)
  BY <1>3 DEF Places
<1>5. OnAir(h, l)'
  BY <1>4 DEF J, OnAir
<1>6. \A b, o : LastNum(b, o)' = LastNum(b, o)
  BY DEF LastNum, At
<1>7. \A b \in Box : Complete(b)' <=> Complete(b)
  BY DEF Complete, Known
<1>8. Lasts(l)'
  BY <1>3, <1>6, <1>7 DEF J, Lasts
<1>9. Once(h, l)'
  BY <1>0, <1>3, <1>6 DEF J, Once, Handled
<1> QED BY <1>1, <1>2, <1>5, <1>8, <1>9 DEF J

FirstRead(S, q, b, p) ==
  /\ p \in [Box -> Seq(S)] /\ Head(q[b]) \in S /\ In(Head(q[b]), q[b])
  /\ \A r \in Box : \A x \in S : In(x, p[r]) => In(x, q[r])
  /\ \A r \in Box : Distinct(q[r]) => Distinct(p[r])
  /\ Distinct(q[b]) => ~ In(Head(q[b]), p[b])

LEMMA ReadOff ==
  ASSUME NEW S, NEW q \in [Box -> Seq(S)], NEW b \in Box, q[b] # <<>>,
         NEW p, p = [q EXCEPT ![b] = Tail(@)]
  PROVE  FirstRead(S, q, b, p)
<1>1. q[b] \in Seq(S) /\ p[b] = Tail(q[b])
  OBVIOUS
<1>2. \A r \in Box : r # b => p[r] = q[r]
  OBVIOUS
<1>3. /\ Head(q[b]) \in S /\ In(Head(q[b]), q[b])
      /\ p[b] \in Seq(S)
      /\ \A x : In(x, p[b]) => In(x, q[b])
      /\ Distinct(q[b]) => Distinct(p[b]) /\ ~ In(Head(q[b]), p[b])
  BY <1>1, Tailed
<1>4. p \in [Box -> Seq(S)]
  BY <1>3
<1> QED BY <1>2, <1>3, <1>4 DEF FirstRead

LEMMA MissKept ==
  ASSUME NEW h, NEW l, NEW s, J(h, l, s), NEW b \in Box, Miss(b)
  PROVE  J(h, l, s)'
<1>1. radio \in [Box -> Seq(Packet)] /\ radio[b] # <<>> /\ radio' = [radio EXCEPT ![b] = Tail(@)]
  BY DEF J, Shape, Miss
<1>2. FirstRead(Packet, radio, b, radio')
  BY <1>1, ReadOff
<1> QED BY <1>2, FewerKept DEF Miss, FirstRead

(* A box hands on a packet of its part that is new to it.                  *)
LEMMA NewRead ==
  ASSUME NEW h, NEW l, NEW s, J(h, l, s), FewFrames, NEW b \in Box,
         NEW m \in Packet, In(m, radio[b]), FirstOf(b, m) \/ LaterOf(b, m),
         NEW rd \in [Box -> Seq(Packet)],
         \A r \in Box : \A x \in Packet : In(x, rd[r]) => In(x, radio[r]),
         beacons' = Marked(b, m),
         Forward(b, m, FALSE, m.from, FALSE, rd, eth),
         UNCHANGED <<scenario, sent, number, gaps>>
  PROVE  J(h, l, s)'
<1> DEFINE o == m.originator
           f == m.frame
<1>1. h[o] = h[b] /\ Places(l, m) # {} /\ o \in Box /\ f \in Frame
  BY DEF J, OnAir, Packet
<1>2. PICK k \in Places(l, m) : TRUE
  BY <1>1
<1>3. /\ o # b /\ Seen[b][f] = 0
      /\ \A j \in 1 .. Len(l[o]) : LastNum(b, o) = Nth(j) => j < k
  BY <1>1, NewFrame
<1>4. k \in 1 .. Len(l[o]) /\ l[o][k] = f /\ m.num = Nth(k)
  BY <1>2 DEF Places
<1>5. scenario \in Scenarios /\ scenario.wired \subseteq Box
      /\ gaps = 0 /\ got \in Tally
      /\ Seen \in [Box -> [Frame -> 0 .. 2]] /\ beacons \in [Box -> Seq(Beacon)]
      /\ eth \in [Box -> Seq(Frame)] /\ Parts(h) /\ Together(h)
  BY FirstNum DEF J, Shape, Parts
<1>6. GoneOut(h, b, m, FALSE, rd, eth)
  <2> DEFINE no == FALSE
  <2>1. no \in BOOLEAN /\ Forward(b, m, no, m.from, no, rd, eth)
    OBVIOUS
  <2> HIDE DEF no
  <2>2. GoneOut(h, b, m, no, rd, eth)
    BY <1>5, <2>1, Forwarded
  <2> QED BY <2>2 DEF no
<1>7. /\ beacons' \in [Box -> Seq(Beacon)]
      /\ \A c \in Box : Complete(c)'
      /\ \A c \in Box : \A p \in Box \ {c} :
           LastNum(c, p)' = IF c = b /\ p = o THEN m.num ELSE LastNum(c, p)
  BY <1>3, <1>5, MarkedLast DEF J, Lasts
<1>8. \A c \in Box : \A g \in Frame :
        Seen'[c][g] = IF c = b /\ g = f THEN 1 ELSE Seen[c][g]
  <2>1. Twice(0) = 1
    BY DEF Twice
  <2>2. \A c \in Box : \A g \in Frame :
              Seen'[c][g] = IF c = b /\ g = m.frame THEN Twice(Seen[b][g]) ELSE Seen[c][g]
    BY <1>6 DEF GoneOut
  <2>3. Twice(Seen[b][f]) = 1
    BY <1>3, <2>1
  <2> HIDE DEF f
  <2> QED BY <2>2, <2>3 DEF f
<1>9. Parts(h)' /\ Shape(l, s)' /\ Numbering(h, l, s)'
  BY <1>6, <1>7 DEF GoneOut, J, Parts, Together, Shape, Numbering
<1>10. \A j : Nth(j)' = Nth(j)
  BY DEF Nth
<1>11. Numbers(l)'
  BY <1>10 DEF J, Numbers
<1>12. \A x \in Packet : Places(l, x)' = Places(l, x)
  BY <1>10 DEF Places
<1>13. OnAir(h, l)'
  <2> SUFFICES ASSUME NEW r \in Box, NEW x \in Packet, In(x, radio'[r])
               PROVE  h[x.originator] = h[r] /\ Places(l, x) # {}
    BY <1>12 DEF OnAir
  <2>1. CASE In(x, rd[r])
    BY <2>1 DEF J, OnAir
  <2>2. CASE h[r] = h[b] /\ x.originator = m.originator /\ x.num = m.num /\ x.frame = m.frame
    <3>1. Places(l, x) = Places(l, m)
      BY <2>2 DEF Places
    <3> QED BY <1>1, <2>2, <3>1
  <2> QED BY <1>6, <2>1, <2>2 DEF GoneOut
<1>14. In(f, l[o])
  BY <1>4 DEF In
<1>15. ASSUME NEW w \in scenario.wired \ {b}, b \in scenario.wired
       PROVE  /\ f <= sent /\ ~ In(f, l[w]) /\ ~ In(f, eth[w])
              /\ h[s[f]] = h[b] /\ h[b] # h[w]
  <2>1. o \notin scenario.wired
    BY <1>1, <1>3, <1>5, <1>15 DEF Parts, Together
  <2>2. s[f] # None /\ o = s[f] /\ f <= sent
    BY <1>1, <1>14, <2>1 DEF J, Numbering
  <2>3. h[w] # h[b]
    BY <1>5, <1>15 DEF Parts, Together
  <2>4. ASSUME In(f, l[w]) \/ In(f, eth[w])
        PROVE  FALSE
    <3>1. PICK v \in scenario.wired : h[v] = h[s[f]] /\ Seen[v][f] >= 1
      BY <1>1, <2>2, <2>3, <2>4 DEF J, Crossed
    <3>2. v = b
      BY <1>1, <1>5, <1>15, <2>2, <3>1 DEF Parts, Together
    <3> QED BY <1>3, <3>1, <3>2
  <2> QED BY <1>1, <2>2, <2>3, <2>4
<1>16. OnWire(h, l, s)'
  <2> SUFFICES ASSUME NEW w \in Box
               PROVE  Distinct(eth'[w]) /\ \A g \in Frame : In(g, eth'[w]) =>
                        /\ w \in scenario.wired /\ g <= sent /\ ~ In(g, l[w])
                        /\ s[g] # None => h[s[g]] # h[w]
    BY DEF OnWire
  <2>1. Distinct(eth[w]) /\ \A g \in Frame : In(g, eth[w]) =>
                        /\ w \in scenario.wired /\ g <= sent /\ ~ In(g, l[w])
                        /\ s[g] # None => h[s[g]] # h[w]
    BY DEF J, OnWire
  <2>2. Distinct(eth'[w])
    BY <1>6, <1>15, <2>1 DEF GoneOut, PutsOnEth, Wired
  <2>3. ASSUME NEW g \in Frame, In(g, eth'[w])
        PROVE  /\ w \in scenario.wired /\ g <= sent /\ ~ In(g, l[w])
               /\ s[g] # None => h[s[g]] # h[w]
    <3>1. CASE In(g, eth[w])
      BY <2>1, <3>1
    <3>2. CASE g = f /\ PutsOnEth(b, FALSE) /\ w \in scenario.wired \ {b}
      BY <1>15, <3>2 DEF PutsOnEth, Wired
    <3> QED BY <1>6, <2>3, <3>1, <3>2 DEF GoneOut
  <2> QED BY <2>2, <2>3
<1>17. \A c \in Box : \A g \in Frame : Seen[c][g] >= 1 => Seen'[c][g] >= 1
  BY <1>8
<1>18. Crossed(h, l, s)'
  <2> SUFFICES ASSUME NEW w \in scenario.wired, NEW g \in Frame,
                      s[g] # None, h[w] # h[s[g]], In(g, eth'[w]) \/ In(g, l[w])
               PROVE  \E v \in scenario.wired : h[v] = h[s[g]] /\ Seen'[v][g] >= 1
    BY DEF Crossed
  <2>1. CASE In(g, eth[w]) \/ In(g, l[w])
    <3>1. PICK v \in scenario.wired : h[v] = h[s[g]] /\ Seen[v][g] >= 1
      BY <2>1 DEF J, Crossed
    <3> QED BY <1>5, <1>17, <3>1
  <2>2. CASE g = f /\ PutsOnEth(b, FALSE) /\ w \in scenario.wired \ {b}
    <3>1. b \in scenario.wired /\ h[s[g]] = h[b]
      BY <1>15, <2>2 DEF PutsOnEth, Wired
    <3>2. Seen'[b][g] >= 1
      BY <1>1, <1>8, <2>2
    <3> QED BY <3>1, <3>2
  <2> QED BY <1>5, <1>6, <2>1, <2>2 DEF GoneOut
<1>19. Lasts(l)'
  <2>0. \A c \in Box : \A p \in Box \ {c} :
          LastNum(c, p) = None \/ \E j \in 1 .. Len(l[p]) : LastNum(c, p) = Nth(j)
    BY DEF J, Lasts
  <2>1. \A c \in Box : \A p \in Box \ {c} :
          LastNum(c, p)' = None \/ \E j \in 1 .. Len(l[p]) : LastNum(c, p)' = Nth(j)
    <3> SUFFICES ASSUME NEW c \in Box, NEW p \in Box \ {c}
                 PROVE  LastNum(c, p)' = None
                        \/ \E j \in 1 .. Len(l[p]) : LastNum(c, p)' = Nth(j)
      OBVIOUS
    <3>1. CASE c = b /\ p = o
      <4>1. LastNum(c, p)' = Nth(k) /\ k \in 1 .. Len(l[p])
        BY <1>4, <1>7, <3>1
      <4> QED BY <4>1
    <3>2. CASE ~ (c = b /\ p = o)
      <4>1. LastNum(c, p)' = LastNum(c, p)
        BY <1>7, <3>2
      <4> QED BY <2>0, <4>1
    <3> QED BY <3>1, <3>2
  <2> QED BY <1>7, <1>10, <2>1 DEF Lasts
<1>20. Once(h, l)'
  <2> SUFFICES ASSUME NEW c \in Box, NEW g \in Frame
               PROVE  /\ Seen'[c][g] <= 1
                      /\ Seen'[c][g] = 1 => \E p \in Box : h[p] = h[c] /\ Handled(l, c, p, g)'
    BY DEF Once
  <2>1. CASE c = b /\ g = f
    <3>1. LastNum(b, o)' = Nth(k)
      BY <1>1, <1>3, <1>4, <1>7
    <3>2. k <= k
      BY <1>4
    <3>3. Handled(l, b, o, f)'
      BY <1>4, <1>10, <3>1, <3>2 DEF Handled
    <3> QED BY <1>1, <1>8, <2>1, <3>3
  <2>2. CASE ~ (c = b /\ g = f)
    <3>1. Seen'[c][g] = Seen[c][g]
      BY <1>8, <2>2
    <3>2. Seen[c][g] <= 1
      BY DEF J, Once
    <3>3. ASSUME Seen[c][g] = 1
          PROVE  \E p \in Box : h[p] = h[c] /\ Handled(l, c, p, g)'
      <4>1. PICK p \in Box : h[p] = h[c] /\ Handled(l, c, p, g)
        BY <3>3 DEF J, Once
      <4>2. PICK i \in 1 .. Len(l[p]) :
              /\ l[p][i] = g
              /\ p = c \/ \E j \in 1 .. Len(l[p]) : LastNum(c, p) = Nth(j) /\ i <= j
        BY <4>1 DEF Handled
      <4>3. CASE p = c \/ ~ (c = b /\ p = o)
        <5>1. p # c => LastNum(c, p)' = LastNum(c, p)
          BY <1>7, <4>3
        <5>2. Handled(l, c, p, g)'
          BY <1>10, <4>2, <5>1 DEF Handled
        <5> QED BY <4>1, <5>2
      <4>4. CASE p # c /\ c = b /\ p = o
        <5>1. PICK j \in 1 .. Len(l[o]) : LastNum(b, o) = Nth(j) /\ i <= j
          BY <4>2, <4>4
        <5>2. i <= k
          BY <1>3, <1>4, <4>2, <4>4, <5>1
        <5>3. LastNum(c, p)' = Nth(k)
          BY <1>1, <1>4, <1>7, <4>4
        <5>4. Handled(l, c, p, g)'
          BY <1>4, <1>10, <4>2, <4>4, <5>2, <5>3 DEF Handled
        <5> QED BY <4>1, <5>4
      <4> QED BY <4>3, <4>4
    <3> QED BY <3>1, <3>2, <3>3
  <2> QED BY <2>1, <2>2
<1> QED BY <1>9, <1>11, <1>13, <1>16, <1>18, <1>19, <1>20 DEF J

(* What a box refuses though its number is newer, it has looked at.        *)
LEMMA RefusedRead ==
  ASSUME NEW h, NEW l, NEW s, J(h, l, s), FewFrames, NEW b \in Box,
         NEW m \in Packet, In(m, radio[b]), FirstOf(b, m) \/ LaterOf(b, m),
         radio' \in [Box -> Seq(Packet)], eth' = eth,
         \A r \in Box : \A x \in Packet : In(x, radio'[r]) => In(x, radio[r]),
         beacons' = Marked(b, m),
         UNCHANGED <<scenario, sent, number, got, gaps>>
  PROVE  J(h, l, s)'
<1> DEFINE o == m.originator
           f == m.frame
<1>0. Seen' = Seen
  BY SeenSame
<1>1. h[o] = h[b] /\ Places(l, m) # {} /\ o \in Box /\ f \in Frame
  BY DEF J, OnAir, Packet
<1>2. PICK k \in Places(l, m) : TRUE
  BY <1>1
<1>3. /\ o # b
      /\ \A j \in 1 .. Len(l[o]) : LastNum(b, o) = Nth(j) => j < k
  BY <1>1, NewFrame
<1>4. k \in 1 .. Len(l[o]) /\ l[o][k] = f /\ m.num = Nth(k)
  BY <1>2 DEF Places
<1>7. /\ beacons' \in [Box -> Seq(Beacon)]
      /\ \A c \in Box : Complete(c)'
      /\ \A c \in Box : \A p \in Box \ {c} :
           LastNum(c, p)' = IF c = b /\ p = o THEN m.num ELSE LastNum(c, p)
  BY <1>3, MarkedLast DEF J, Lasts, Shape
<1>9. Parts(h)' /\ Shape(l, s)' /\ Numbering(h, l, s)'
  BY <1>0, <1>7 DEF J, Parts, Together, Shape, Numbering
<1>10. \A j : Nth(j)' = Nth(j)
  BY DEF Nth
<1>11. Numbers(l)'
  BY <1>10 DEF J, Numbers
<1>12. \A x \in Packet : Places(l, x)' = Places(l, x)
  BY <1>10 DEF Places
<1>13. OnAir(h, l)' /\ OnWire(h, l, s)' /\ Crossed(h, l, s)'
  BY <1>0, <1>12 DEF J, OnAir, OnWire, Crossed
<1>19. Lasts(l)'
  <2>0. \A c \in Box : \A p \in Box \ {c} :
          LastNum(c, p) = None \/ \E j \in 1 .. Len(l[p]) : LastNum(c, p) = Nth(j)
    BY DEF J, Lasts
  <2>1. \A c \in Box : \A p \in Box \ {c} :
          LastNum(c, p)' = None \/ \E j \in 1 .. Len(l[p]) : LastNum(c, p)' = Nth(j)
    <3> SUFFICES ASSUME NEW c \in Box, NEW p \in Box \ {c}
                 PROVE  LastNum(c, p)' = None
                        \/ \E j \in 1 .. Len(l[p]) : LastNum(c, p)' = Nth(j)
      OBVIOUS
    <3>1. CASE c = b /\ p = o
      <4>1. LastNum(c, p)' = Nth(k) /\ k \in 1 .. Len(l[p])
        BY <1>4, <1>7, <3>1
      <4> QED BY <4>1
    <3>2. CASE ~ (c = b /\ p = o)
      <4>1. LastNum(c, p)' = LastNum(c, p)
        BY <1>7, <3>2
      <4> QED BY <2>0, <4>1
    <3> QED BY <3>1, <3>2
  <2> QED BY <1>7, <1>10, <2>1 DEF Lasts
<1>20. ASSUME NEW c \in Box, NEW g \in Frame, Seen[c][g] = 1
       PROVE  \E p \in Box : h[p] = h[c] /\ Handled(l, c, p, g)'
  <2>1. PICK p \in Box : h[p] = h[c] /\ Handled(l, c, p, g)
    BY <1>20 DEF J, Once
  <2>2. PICK i \in 1 .. Len(l[p]) :
          /\ l[p][i] = g
          /\ p = c \/ \E j \in 1 .. Len(l[p]) : LastNum(c, p) = Nth(j) /\ i <= j
    BY <2>1 DEF Handled
  <2>3. CASE p = c \/ ~ (c = b /\ p = o)
    <3>1. p # c => LastNum(c, p)' = LastNum(c, p)
      BY <1>7, <2>3
    <3>2. Handled(l, c, p, g)'
      BY <1>10, <2>2, <3>1 DEF Handled
    <3> QED BY <2>1, <3>2
  <2>4. CASE p # c /\ c = b /\ p = o
    <3>1. PICK j \in 1 .. Len(l[o]) : LastNum(b, o) = Nth(j) /\ i <= j
      BY <2>2, <2>4
    <3>2. i <= k
      BY <1>3, <1>4, <2>2, <2>4, <3>1
    <3>3. LastNum(c, p)' = Nth(k)
      BY <1>1, <1>4, <1>7, <2>4
    <3>4. Handled(l, c, p, g)'
      BY <1>4, <1>10, <2>2, <2>4, <3>2, <3>3 DEF Handled
    <3> QED BY <2>1, <3>4
  <2> QED BY <2>3, <2>4
<1>21. Once(h, l)'
  BY <1>0, <1>20 DEF J, Once
<1> QED BY <1>9, <1>11, <1>13, <1>19, <1>21 DEF J

(* A packet is read: handed on, refused, or old.                           *)
LEMMA ReadOnce ==
  ASSUME radio \in [Box -> Seq(Packet)], NEW b \in Box, ReadRadio(b)
  PROVE  \E m \in Packet : \E rd \in [Box -> Seq(Packet)] :
           /\ m = Head(radio[b]) /\ rd = [radio EXCEPT ![b] = Tail(@)]
           /\ radio[b] # <<>> /\ In(m, radio[b])
           /\ \A r \in Box : \A x \in Packet : In(x, rd[r]) => In(x, radio[r])
           /\ UNCHANGED <<scenario, sent, number, made, left, gaps>>
           /\ \/ /\ FirstOf(b, m) \/ LaterOf(b, m)
                 /\ beacons' = Marked(b, m)
                 /\ Forward(b, m, FALSE, m.from, FALSE, rd, eth) /\ refused' = refused
              \/ /\ LaterOf(b, m) /\ beacons' = Marked(b, m)
                 /\ radio' = rd /\ UNCHANGED <<eth, got, lost>>
                 /\ refused' = IF gaps = 0 THEN refused \cup {m.frame} ELSE refused
              \/ /\ ~ FirstOf(b, m) /\ ~ LaterOf(b, m)
                 /\ radio' = rd /\ UNCHANGED <<beacons, eth, got, lost, refused>>
<1>a. PICK m : m = Head(radio[b])
  OBVIOUS
<1>b. PICK rd : rd = [radio EXCEPT ![b] = Tail(@)]
  OBVIOUS
<1>1. radio[b] # <<>>
  BY DEF ReadRadio
<1>2. /\ rd \in [Box -> Seq(Packet)] /\ m \in Packet /\ In(m, radio[b])
      /\ \A r \in Box : \A x \in Packet : In(x, rd[r]) => In(x, radio[r])
  <2>1. FirstRead(Packet, radio, b, rd)
    BY <1>b, <1>1, ReadOff
  <2> QED BY <1>a, <2>1 DEF FirstRead
<1>3. PICK new \in NewFromOriginator(b, m) :
        /\ beacons' = Marked(b, m)
        /\ IF new THEN Forward(b, m, FALSE, m.from, FALSE, rd, eth)
                  ELSE radio' = rd /\ UNCHANGED <<eth, got, lost>>
        /\ refused' = IF gaps = 0 /\ LaterOf(b, m) /\ ~ new THEN refused \cup {m.frame}
                     ELSE refused
  BY <1>a, <1>b DEF ReadRadio
<1>4. /\ new \in BOOLEAN /\ (FirstOf(b, m) => new)
      /\ (new => FirstOf(b, m) \/ LaterOf(b, m))
  BY DEF NewFromOriginator
<1>5. UNCHANGED <<scenario, sent, number, made, left, gaps>>
  BY DEF ReadRadio
<1>6. ~ FirstOf(b, m) /\ ~ LaterOf(b, m) => Marked(b, m) = beacons
  BY DEF Marked
<1>7. CASE new
  BY <1>a, <1>b, <1>1, <1>2, <1>3, <1>4, <1>5, <1>7
<1>8. CASE ~ new /\ LaterOf(b, m)
  BY <1>a, <1>b, <1>1, <1>2, <1>3, <1>4, <1>5, <1>8
<1>9. CASE ~ new /\ ~ LaterOf(b, m)
  BY <1>a, <1>b, <1>1, <1>2, <1>3, <1>4, <1>5, <1>6, <1>9
<1> QED BY <1>4, <1>7, <1>8, <1>9

LEMMA ReadRadioKept ==
  ASSUME NEW h, NEW l, NEW s, J(h, l, s), FewFrames, NEW b \in Box, ReadRadio(b)
  PROVE  J(h, l, s)'
<1>1. PICK m \in Packet, rd \in [Box -> Seq(Packet)] :
        /\ In(m, radio[b])
        /\ \A r \in Box : \A x \in Packet : In(x, rd[r]) => In(x, radio[r])
        /\ UNCHANGED <<scenario, sent, number, gaps>>
        /\ \/ /\ FirstOf(b, m) \/ LaterOf(b, m)
              /\ beacons' = Marked(b, m)
              /\ Forward(b, m, FALSE, m.from, FALSE, rd, eth)
           \/ /\ LaterOf(b, m) /\ beacons' = Marked(b, m)
              /\ radio' = rd /\ UNCHANGED <<eth, got>>
           \/ radio' = rd /\ UNCHANGED <<beacons, eth, got>>
  <2>1. radio \in [Box -> Seq(Packet)]
    BY DEF J, Shape
  <2> QED BY <2>1, ReadOnce
<1>2. CASE /\ FirstOf(b, m) \/ LaterOf(b, m)
           /\ beacons' = Marked(b, m)
           /\ Forward(b, m, FALSE, m.from, FALSE, rd, eth)
  BY <1>1, <1>2, NewRead
<1>3. CASE /\ LaterOf(b, m) /\ beacons' = Marked(b, m)
           /\ radio' = rd /\ UNCHANGED <<eth, got>>
  BY <1>1, <1>3, RefusedRead
<1>4. CASE radio' = rd /\ UNCHANGED <<beacons, eth, got>>
  BY <1>1, <1>4, FewerKept
<1> QED BY <1>1, <1>2, <1>3, <1>4

-----------------------------------------------------------------------------
(* The steps that number a frame                                           *)

(* Box b numbers f, which it and its part have not seen; et is what is left*)
(* of the Ethernet's frames, s2 says where f came from.                    *)
ComesIn(h, l, s, b, f, fromEth, et, s2) ==
  /\ et \in [Box -> Seq(Frame)] /\ s2 \in [Frame -> Box \cup {None}]
  /\ ~ In(f, l[b]) /\ Seen[b][f] = 0 /\ ~ In(f, et[b])
  /\ \A w \in Box : Distinct(et[w]) /\ \A g \in Frame : In(g, et[w]) => In(g, eth[w])
  /\ \A g \in Frame : g <= sent => s2[g] = s[g]
  /\ s2[f] = None => b \in scenario.wired
  /\ s2[f] # None => b = s2[f] \/ (b \in scenario.wired /\ h[b] # h[s2[f]])
  /\ s2[f] # b => In(f, eth[b])
  /\ PutsOnEth(b, fromEth) => s2[f] = b /\ sent < f
  /\ Forward(b, Wrapped(b, f), TRUE, b, fromEth, radio, et)
  /\ number' = Numbered(b) /\ UNCHANGED <<scenario, beacons, gaps>>
  /\ sent' \in sent .. Frames /\ f <= sent'

LEMMA ComesInKept ==
  ASSUME NEW h, NEW l, NEW s, J(h, l, s), FewFrames,
         NEW b \in Box, NEW f \in Frame, NEW fromEth \in BOOLEAN, NEW et, NEW s2,
         ComesIn(h, l, s, b, f, fromEth, et, s2)
  PROVE  J(h, [l EXCEPT ![b] = Append(@, f)], s2)'
<1>0. /\ et \in [Box -> Seq(Frame)] /\ s2 \in [Frame -> Box \cup {None}]
      /\ ~ In(f, l[b]) /\ Seen[b][f] = 0 /\ ~ In(f, et[b])
      /\ \A w \in Box : Distinct(et[w]) /\ \A g \in Frame : In(g, et[w]) => In(g, eth[w])
      /\ \A g \in Frame : g <= sent => s2[g] = s[g]
      /\ s2[f] = None => b \in scenario.wired
      /\ s2[f] # None => b = s2[f] \/ (b \in scenario.wired /\ h[b] # h[s2[f]])
      /\ s2[f] # b => In(f, eth[b])
      /\ PutsOnEth(b, fromEth) => s2[f] = b /\ sent < f
      /\ Forward(b, Wrapped(b, f), TRUE, b, fromEth, radio, et)
      /\ number' = Numbered(b) /\ scenario' = scenario /\ beacons' = beacons /\ gaps' = gaps
      /\ sent' \in sent .. Frames /\ f <= sent'
  BY DEF ComesIn
<1> USE <1>0
<1> DEFINE l2 == [l EXCEPT ![b] = Append(@, f)]
           n  == Len(l[b]) + 1
           m  == Wrapped(b, f)
<1>1. /\ scenario \in Scenarios /\ scenario.wired \subseteq Box /\ Parts(h) /\ Together(h)
      /\ gaps = 0 /\ got \in Tally
      /\ Seen \in [Box -> [Frame -> 0 .. 2]] /\ radio \in [Box -> Seq(Packet)]
      /\ l \in [Box -> Seq(Frame)] /\ number \in [Box -> Num] /\ sent \in 0 .. Frames
  BY FirstNum DEF J, Shape, Parts
<1>2. /\ l2 \in [Box -> Seq(Frame)] /\ Len(l2[b]) = n
      /\ l2[b][n] = f /\ n \in 1 .. n
      /\ \A i \in 1 .. Len(l[b]) : l2[b][i] = l[b][i] /\ i \in 1 .. n
      /\ \A g : In(g, l2[b]) <=> In(g, l[b]) \/ g = f
      /\ Distinct(l2[b])
      /\ \A c \in Box : c # b => l2[c] = l[c]
  <2>1. l[b] \in Seq(Frame) /\ l2[b] = Append(l[b], f) /\ Distinct(l[b])
    BY <1>1 DEF J, Numbers
  <2>2. /\ Append(l[b], f) \in Seq(Frame)
        /\ Len(Append(l[b], f)) = Len(l[b]) + 1
        /\ Append(l[b], f)[Len(l[b]) + 1] = f
        /\ \A i \in 1 .. Len(l[b]) : Append(l[b], f)[i] = l[b][i]
        /\ \A g : In(g, Append(l[b], f)) <=> In(g, l[b]) \/ g = f
        /\ Distinct(l[b]) /\ ~ In(f, l[b]) => Distinct(Append(l[b], f))
    BY <2>1, Appended
  <2>3. Len(l[b]) \in Nat
    BY <2>1, LenProperties
  <2>4. \A c \in Box : c # b => l2[c] = l[c]
    BY <1>1
  <2>5. l2 \in [Box -> Seq(Frame)]
    BY <1>1, <2>2
  <2> QED BY <2>1, <2>2, <2>3, <2>4, <2>5
<1>3. n \in 1 .. Frames
  <2>1. l[b] \in Seq(Frame) /\ Distinct(l[b])
    BY <1>1 DEF J, Numbers
  <2>2. Len(l[b]) < Frames /\ Len(l[b]) \in Nat
    BY <2>1, Room, LenProperties
  <2> QED BY <2>2, ConstAssumption DEF ConstAssumption
<1>4. number[b] = Nth(n) /\ Nth(n) \in Num /\ (Nth(n) + 1) % Modulus = Nth(n + 1)
  BY <1>1, <1>3, NthNext DEF J, Numbers
<1>5. m \in Packet /\ m.originator = b /\ m.num = Nth(n) /\ m.frame = f
  BY <1>4 DEF Wrapped, Packet
<1> HIDE DEF l2, m
<1>6. GoneOut(h, b, m, fromEth, radio, et)
  <2> DEFINE yes == TRUE
  <2>1. yes \in BOOLEAN /\ Forward(b, m, yes, b, fromEth, radio, et)
    BY DEF m
  <2> HIDE DEF yes
  <2> QED BY <1>1, <1>5, <2>1, Forwarded
<1>7. \A c \in Box : \A g \in Frame :
        Seen'[c][g] = IF c = b /\ g = f THEN 1 ELSE Seen[c][g]
  <2>1. Twice(0) = 1
    BY DEF Twice
  <2> QED BY <1>5, <1>6, <2>1 DEF GoneOut
<1>8. \A j : Nth(j)' = Nth(j)
  BY DEF Nth
<1>9. number' \in [Box -> Num] /\ \A c \in Box : number'[c] = Nth(Len(l2[c]) + 1)
  <2>1. number' = [number EXCEPT ![b] = (number[b] + 1) % Modulus]
    BY DEF Numbered
  <2>2. number'[b] = Nth(n + 1)
    BY <1>1, <1>4, <2>1
  <2>3. n + 1 \in 1 .. Frames + 1
    BY <1>3, ConstAssumption DEF ConstAssumption
  <2>4. (Nth(n) + 1) % Modulus \in Num
    <3>1. Nth(n) + 1 \in Int /\ Modulus \in Nat /\ Modulus > 0
      BY <1>4, ConstAssumption DEF ConstAssumption, Num
    <3> DEFINE x == Nth(n) + 1
    <3>2. x \in Int
      BY <3>1
    <3> HIDE DEF x
    <3>3. x % Modulus \in 0 .. Modulus - 1
      BY <3>1, <3>2
    <3> QED BY <3>3 DEF x, Num
  <2>5. number' \in [Box -> Num]
    BY <1>1, <1>4, <2>1, <2>4
  <2>6. \A c \in Box : c # b => number'[c] = Nth(Len(l2[c]) + 1)
    BY <1>1, <1>2, <2>1 DEF J, Numbers
  <2> QED BY <1>2, <2>2, <2>5, <2>6
<1>10. Parts(h)' /\ Shape(l2, s2)'
  <2>1. sent' \in 0 .. Frames
    BY <1>1
  <2> QED BY <1>2, <1>6, <1>9, <2>1 DEF J, Parts, Together, Shape, GoneOut
<1>11. \A c \in Box : \A g : In(g, l2[c]) => In(g, l[c]) \/ (c = b /\ g = f)
  BY <1>2
<1>12. \A c \in Box : \A g \in Frame : In(g, l[c]) \/ In(g, eth[c]) => g <= sent /\ s2[g] = s[g]
  BY DEF J, Numbering, OnWire
<1>13. Numbering(h, l2, s2)'
  <2> SUFFICES ASSUME NEW c \in Box, NEW g \in Frame, In(g, l2[c])
               PROVE  /\ g <= sent'
                      /\ s2[g] = None => c \in scenario.wired
                      /\ s2[g] # None => c = s2[g] \/ (c \in scenario.wired /\ h[c] # h[s2[g]])
    BY DEF Numbering
  <2>1. CASE In(g, l[c])
    <3>1. g <= sent /\ s2[g] = s[g] /\ g \in Nat
      BY <1>12, <2>1 DEF Frame
    <3>2. g <= sent'
      BY <1>1, <3>1
    <3> QED BY <2>1, <3>1, <3>2 DEF J, Numbering
  <2>2. CASE c = b /\ g = f
    BY <2>2
  <2> QED BY <1>11, <2>1, <2>2
<1>14. Numbers(l2)'
  BY <1>2, <1>8, <1>9 DEF J, Numbers
<1>15. \A c \in Box : \A k \in 1 .. Len(l[c]) : k \in 1 .. Len(l2[c]) /\ l2[c][k] = l[c][k]
  BY <1>2
<1>16. \A x \in Packet : Places(l, x) \subseteq Places(l2, x)'
  BY <1>8, <1>15 DEF Places, Packet
<1>17. OnAir(h, l2)'
  <2> SUFFICES ASSUME NEW r \in Box, NEW x \in Packet, In(x, radio'[r])
               PROVE  h[x.originator] = h[r] /\ Places(l2, x)' # {}
    BY DEF OnAir
  <2>1. CASE In(x, radio[r])
    BY <1>16, <2>1 DEF J, OnAir
  <2>2. CASE h[r] = h[b] /\ x.originator = m.originator /\ x.num = m.num /\ x.frame = m.frame
    <3>1. n \in Places(l2, x)'
      BY <1>2, <1>5, <1>8, <2>2 DEF Places
    <3> QED BY <1>5, <2>2, <3>1
  <2> QED BY <1>6, <2>1, <2>2 DEF GoneOut
<1>18. PutsOnEth(b, fromEth) => s2[f] = b /\ f <= sent' /\
         \A w \in Box : ~ In(f, l[w]) /\ ~ In(f, eth[w])
  BY <1>1, <1>12 DEF Frame
<1>19. ASSUME NEW w \in scenario.wired \ {b}, PutsOnEth(b, fromEth)
       PROVE  h[w] # h[b]
  BY <1>1, <1>19 DEF Parts, Together, PutsOnEth, Wired
<1>20. OnWire(h, l2, s2)'
  <2> SUFFICES ASSUME NEW w \in Box
               PROVE  Distinct(eth'[w]) /\ \A g \in Frame : In(g, eth'[w]) =>
                        /\ w \in scenario.wired /\ g <= sent' /\ ~ In(g, l2[w])
                        /\ s2[g] # None => h[s2[g]] # h[w]
    BY DEF OnWire
  <2>1. Distinct(eth'[w])
    BY <1>5, <1>6, <1>18 DEF GoneOut
  <2>2. ASSUME NEW g \in Frame, In(g, eth'[w])
        PROVE  /\ w \in scenario.wired /\ g <= sent' /\ ~ In(g, l2[w])
               /\ s2[g] # None => h[s2[g]] # h[w]
    <3>1. CASE In(g, et[w])
      <4>1. In(g, eth[w]) /\ s2[g] = s[g] /\ g <= sent /\ g \in Nat
        BY <1>12, <3>1 DEF Frame
      <4>2. ~ In(g, l[w]) /\ ~ (w = b /\ g = f)
        BY <3>1, <4>1 DEF J, OnWire
      <4>3. ~ In(g, l2[w])
        BY <1>11, <4>2
      <4>4. g <= sent'
        BY <1>1, <4>1
      <4> QED BY <4>1, <4>3, <4>4 DEF J, OnWire
    <3>2. CASE g = f /\ PutsOnEth(b, fromEth) /\ w \in scenario.wired \ {b}
      <4>1. ~ In(g, l2[w])
        BY <1>11, <1>18, <3>2
      <4> QED BY <1>18, <1>19, <3>2, <4>1
    <3> QED BY <1>5, <1>6, <2>2, <3>1, <3>2 DEF GoneOut
  <2> QED BY <2>1, <2>2
<1>21. \A c \in Box : \A g \in Frame : Seen[c][g] >= 1 => Seen'[c][g] >= 1
  BY <1>7
<1>22. Crossed(h, l2, s2)'
  <2> SUFFICES ASSUME NEW w \in scenario.wired, NEW g \in Frame,
                      s2[g] # None, h[w] # h[s2[g]], In(g, eth'[w]) \/ In(g, l2[w])
               PROVE  \E v \in scenario.wired : h[v] = h[s2[g]] /\ Seen'[v][g] >= 1
    BY DEF Crossed
  <2>1. CASE In(g, eth[w]) \/ In(g, l[w])
    <3>1. s2[g] = s[g]
      BY <1>1, <1>12, <2>1
    <3>2. PICK v \in scenario.wired : h[v] = h[s[g]] /\ Seen[v][g] >= 1
      BY <2>1, <3>1 DEF J, Crossed
    <3> QED BY <1>1, <1>21, <3>1, <3>2
  <2>2. CASE g = f /\ PutsOnEth(b, fromEth) /\ w \in scenario.wired \ {b}
    <3>1. b \in scenario.wired /\ h[s2[g]] = h[b]
      BY <1>18, <2>2 DEF PutsOnEth, Wired
    <3>2. Seen'[b][g] >= 1
      BY <1>7, <2>2
    <3> QED BY <3>1, <3>2
  <2>3. CASE w = b /\ g = f
    <3>1. In(f, eth[b])
      BY <2>3
    <3> QED BY <2>1, <2>3, <3>1
  <2>4. In(g, eth'[w]) => In(g, eth[w])
                          \/ (g = f /\ PutsOnEth(b, fromEth) /\ w \in scenario.wired \ {b})
    BY <1>1, <1>5, <1>6 DEF GoneOut
  <2> QED BY <1>1, <1>11, <2>1, <2>2, <2>3, <2>4
<1>23. \A c, o : LastNum(c, o)' = LastNum(c, o)
  BY DEF LastNum, At
<1>24. \A c \in Box : Complete(c)'
  <2>1. beacons' = beacons
    OBVIOUS
  <2>2. \A c \in Box : Complete(c)
    BY DEF J, Lasts
  <2>3. \A c \in Box : Complete(c)' <=> Complete(c)
    BY <2>1 DEF Complete, Known
  <2> QED BY <2>2, <2>3
<1>25. Lasts(l2)'
  BY <1>8, <1>15, <1>23, <1>24 DEF J, Lasts
<1>26. Once(h, l2)'
  <2> SUFFICES ASSUME NEW c \in Box, NEW g \in Frame
               PROVE  /\ Seen'[c][g] <= 1
                      /\ Seen'[c][g] = 1 => \E p \in Box : h[p] = h[c] /\ Handled(l2, c, p, g)'
    BY DEF Once
  <2>1. CASE c = b /\ g = f
    <3>1. Handled(l2, b, b, f)'
      BY <1>2 DEF Handled
    <3> QED BY <1>7, <2>1, <3>1
  <2>2. CASE ~ (c = b /\ g = f)
    <3>1. Seen'[c][g] = Seen[c][g]
      BY <1>7, <2>2
    <3>2. Seen[c][g] <= 1
      BY DEF J, Once
    <3>3. \A p \in Box : Handled(l, c, p, g) => Handled(l2, c, p, g)'
      BY <1>8, <1>15, <1>23 DEF Handled
    <3> QED BY <3>1, <3>2, <3>3 DEF J, Once
  <2> QED BY <2>1, <2>2
<1>27. J(h, l2, s2)'
  BY <1>10, <1>13, <1>14, <1>17, <1>20, <1>22, <1>25, <1>26 DEF J
<1> QED BY <1>27 DEF l2

LEMMA SendComesIn ==
  ASSUME NEW h, NEW l, NEW s, J(h, l, s), NEW b \in Box, Send(b)
  PROVE  \E f \in Frame : \E s2 : /\ f = sent + 1 /\ s2[f] = b
                                  /\ ComesIn(h, l, s, b, f, FALSE, eth, s2)
<1>a. PICK f : f = sent + 1
  OBVIOUS
<1>b. PICK s2 : s2 = [s EXCEPT ![f] = b]
  OBVIOUS
<1>1. /\ sent \in Nat /\ f \in Frame /\ sent' = f /\ sent < f /\ f <= Frames
      /\ s \in [Frame -> Box \cup {None}] /\ eth \in [Box -> Seq(Frame)]
      /\ sent' \in sent .. Frames
  BY <1>a, ConstAssumption DEF J, Shape, Send, Frame, ConstAssumption, Scenario
<1>2. \A w \in Box : ~ In(f, l[w]) /\ ~ In(f, eth[w])
  BY <1>1 DEF J, Numbering, OnWire
<1>3. Seen[b][f] = 0
  <2>1. Seen[b][f] # 1
    BY <1>1, <1>2 DEF J, Once, Handled, In
  <2> QED BY <1>1, <2>1 DEF J, Shape, Once
<1>4. /\ s2 \in [Frame -> Box \cup {None}] /\ s2[f] = b
      /\ \A g \in Frame : g <= sent => s2[g] = s[g]
  BY <1>1, <1>b DEF Frame
<1>5. b # None
  BY ConstAssumption DEF ConstAssumption
<1>6. \A w \in Box : Distinct(eth[w])
  BY DEF J, OnWire
<1> DEFINE no == FALSE
<1>7. /\ no \in BOOLEAN /\ Forward(b, Wrapped(b, f), TRUE, b, no, radio, eth)
      /\ number' = Numbered(b) /\ UNCHANGED <<scenario, beacons, gaps>>
  BY <1>a DEF Send
<1> HIDE DEF no
<1>8. ComesIn(h, l, s, b, f, no, eth, s2)
  <2>1. f <= sent' /\ f \in Nat
    BY <1>1 DEF Frame
  <2>2. \A w \in Box : Distinct(eth[w]) /\ \A g \in Frame : In(g, eth[w]) => In(g, eth[w])
    BY <1>6
  <2>3. ~ In(f, l[b]) /\ ~ In(f, eth[b])
    BY <1>2
  <2> QED BY <1>1, <1>3, <1>4, <1>5, <1>7, <2>1, <2>2, <2>3 DEF ComesIn
<1> QED BY <1>a, <1>1, <1>4, <1>8 DEF no

LEMMA ReadEthComesIn ==
  ASSUME NEW h, NEW l, NEW s, J(h, l, s), NEW b \in Box, ReadEth(b)
  PROVE  LET f == Head(eth[b]) IN
         /\ f \in Frame /\ sent' = sent
         /\ ComesIn(h, l, s, b, f, TRUE, [eth EXCEPT ![b] = Tail(@)], s)
<1>a. PICK f : f = Head(eth[b])
  OBVIOUS
<1> DEFINE et == [eth EXCEPT ![b] = Tail(@)]
<1>1. /\ eth \in [Box -> Seq(Frame)] /\ eth[b] # <<>>
      /\ s \in [Frame -> Box \cup {None}] /\ sent \in 0 .. Frames
  BY DEF J, Shape, ReadEth
<1>2. FirstRead(Frame, eth, b, et)
  <2>1. et = [eth EXCEPT ![b] = Tail(@)]
    OBVIOUS
  <2> HIDE DEF et
  <2> QED BY <1>1, <2>1, ReadOff
<1>3. \A w \in Box : Distinct(eth[w])
  BY DEF J, OnWire
<1>4. /\ f \in Frame /\ In(f, eth[b]) /\ ~ In(f, et[b]) /\ et \in [Box -> Seq(Frame)]
      /\ \A w \in Box : Distinct(et[w]) /\ \A g \in Frame : In(g, et[w]) => In(g, eth[w])
  BY <1>a, <1>2, <1>3 DEF FirstRead
<1> DEFINE yes == TRUE
<1>5. /\ yes \in BOOLEAN /\ Forward(b, Wrapped(b, f), TRUE, b, yes, radio, et)
      /\ number' = Numbered(b) /\ UNCHANGED <<scenario, beacons, gaps>> /\ sent' = sent
      /\ ~ PutsOnEth(b, yes)
  BY <1>a DEF ReadEth, PutsOnEth
<1> HIDE DEF et, yes
<1>6. /\ b \in scenario.wired /\ f <= sent /\ ~ In(f, l[b])
      /\ s[f] # None => h[s[f]] # h[b]
  BY <1>4 DEF J, OnWire
<1>7. s[f] # b
  BY <1>6, ConstAssumption DEF ConstAssumption
<1>8. Seen[b][f] = 0
  <2>1. ASSUME Seen[b][f] = 1
        PROVE  FALSE
    <3>1. PICK o \in Box : h[o] = h[b] /\ Handled(l, b, o, f)
      BY <1>4, <2>1 DEF J, Once
    <3>2. In(f, l[o])
      BY <3>1 DEF Handled, In
    <3>3. o \in scenario.wired
      BY <1>4, <1>6, <3>1, <3>2 DEF J, Numbering
    <3>4. o = b
      BY <1>6, <3>1, <3>3 DEF J, Parts, Together
    <3> QED BY <1>6, <3>2, <3>4
  <2> QED BY <1>4, <2>1 DEF J, Shape, Once
<1>9. sent' \in sent .. Frames /\ f <= sent'
  BY <1>1, <1>5, <1>6, ConstAssumption DEF ConstAssumption
<1>10. ComesIn(h, l, s, b, f, yes, et, s)
  BY <1>1, <1>4, <1>5, <1>6, <1>7, <1>8, <1>9 DEF ComesIn
<1> QED BY <1>a, <1>4, <1>5, <1>10 DEF et, yes

LEMMA NumberedKept ==
  ASSUME NEW h, NEW l, NEW s, J(h, l, s), FewFrames, NEW b \in Box, Send(b) \/ ReadEth(b)
  PROVE  \E l2, s2 : J(h, l2, s2)'
<1> DEFINE no == FALSE
           yes == TRUE
<1>1. \A f \in Frame : \A fromEth \in BOOLEAN : \A et, s2 :
        ComesIn(h, l, s, b, f, fromEth, et, s2) =>
          J(h, [l EXCEPT ![b] = Append(@, f)], s2)'
  BY ComesInKept
<1>2. no \in BOOLEAN /\ yes \in BOOLEAN
  OBVIOUS
<1>3. CASE Send(b)
  <2>1. PICK f, s2 : f \in Frame /\ ComesIn(h, l, s, b, f, no, eth, s2)
    BY <1>3, SendComesIn
  <2> HIDE DEF no
  <2>2. J(h, [l EXCEPT ![b] = Append(@, f)], s2)'
    BY <1>1, <1>2, <2>1
  <2> QED BY <2>2
<1>4. CASE ReadEth(b)
  <2>1. PICK f, et : f \in Frame /\ ComesIn(h, l, s, b, f, yes, et, s)
    BY <1>4, ReadEthComesIn
  <2> HIDE DEF yes
  <2>2. J(h, [l EXCEPT ![b] = Append(@, f)], s)'
    BY <1>1, <1>2, <2>1
  <2> QED BY <2>2
<1> QED BY <1>3, <1>4

LEMMA SendOnEthKept ==
  ASSUME NEW h, NEW l, NEW s, J(h, l, s), SendOnEth
  PROVE  \E s2 : /\ J(h, l, s2)' /\ s2[sent + 1] = None
                 /\ \A g \in Frame : g <= sent => s2[g] = s[g]
<1>a. PICK f : f = sent + 1
  OBVIOUS
<1>b. PICK s2 : s2 = [s EXCEPT ![f] = None]
  OBVIOUS
<1>1. /\ sent \in 0 .. Frames /\ f \in Frame /\ sent' = f /\ sent < f /\ f \in 0 .. Frames
      /\ s \in [Frame -> Box \cup {None}] /\ eth \in [Box -> Seq(Frame)]
  BY <1>a, ConstAssumption DEF J, Shape, SendOnEth, Frame, ConstAssumption, Scenario
<1>2. \A w \in Box : ~ In(f, l[w]) /\ ~ In(f, eth[w])
  BY <1>1 DEF J, Numbering, OnWire
<1>3. /\ s2 \in [Frame -> Box \cup {None}] /\ s2[f] = None
      /\ \A g \in Frame : g <= sent => s2[g] = s[g]
  BY <1>1, <1>b DEF Frame
<1>4. /\ scenario' = scenario /\ number' = number /\ beacons' = beacons
      /\ radio' = radio /\ got' = got /\ gaps' = gaps /\ Seen' = Seen
  BY SeenSame DEF SendOnEth
<1>5. JustHeard(Frame, eth, scenario.wired, f, eth')
  <2>1. eth' = Hear(eth, scenario.wired, f)
    BY <1>a DEF SendOnEth
  <2> QED BY <1>1, <2>1, Heard
<1>6. \A w \in Box : \A g : In(g, eth'[w]) => In(g, eth[w]) \/ (w \in scenario.wired /\ g = f)
  BY <1>5 DEF JustHeard
<1>7. \A w \in Box : Distinct(eth'[w])
  <2>1. \A w \in Box : Distinct(eth[w])
    BY DEF J, OnWire
  <2> QED BY <1>2, <1>5, <2>1 DEF JustHeard
<1>8. Parts(h)' /\ Shape(l, s2)'
  BY <1>1, <1>3, <1>4, <1>5 DEF J, Parts, Together, Shape, JustHeard
<1>9. \A w \in Box : \A g \in Frame : In(g, l[w]) \/ In(g, eth[w]) =>
        g <= sent /\ s2[g] = s[g] /\ g <= sent'
  <2>1. \A g \in Frame : g <= sent => g <= sent'
    BY <1>1 DEF Frame
  <2> QED BY <1>3, <2>1 DEF J, Numbering, OnWire
<1>10. Numbering(h, l, s2)'
  BY <1>4, <1>9 DEF J, Numbering
<1>11. \A j : Nth(j)' = Nth(j)
  BY <1>4 DEF Nth
<1>12. Numbers(l)' /\ OnAir(h, l)'
  <2>1. Numbers(l)'
    BY <1>4, <1>11 DEF J, Numbers
  <2>2. \A x \in Packet : Places(l, x)' = Places(l, x)
    BY <1>11 DEF Places
  <2>3. OnAir(h, l)'
    BY <1>4, <2>2 DEF J, OnAir
  <2> QED BY <2>1, <2>3
<1>13. OnWire(h, l, s2)'
  <2> SUFFICES ASSUME NEW w \in Box, NEW g \in Frame, In(g, eth'[w])
               PROVE  /\ w \in scenario.wired /\ g <= sent' /\ ~ In(g, l[w])
                      /\ s2[g] # None => h[s2[g]] # h[w]
    BY <1>4, <1>7 DEF OnWire
  <2>1. CASE In(g, eth[w])
    BY <1>9, <2>1 DEF J, OnWire
  <2>2. CASE w \in scenario.wired /\ g = f
    BY <1>1, <1>2, <1>3, <2>2
  <2> QED BY <1>6, <2>1, <2>2
<1>14. Crossed(h, l, s2)'
  <2> SUFFICES ASSUME NEW w \in scenario.wired, NEW g \in Frame,
                      s2[g] # None, h[w] # h[s2[g]], In(g, eth'[w]) \/ In(g, l[w])
               PROVE  \E v \in scenario.wired : h[v] = h[s2[g]] /\ Seen[v][g] >= 1
    BY <1>4 DEF Crossed
  <2>1. w \in Box
    BY FirstNum DEF J, Shape
  <2>2. In(g, eth[w]) \/ In(g, l[w])
    BY <1>3, <1>6, <2>1
  <2>3. s2[g] = s[g]
    BY <1>9, <2>1, <2>2
  <2> QED BY <2>2, <2>3 DEF J, Crossed
<1>15. \A b, o : LastNum(b, o)' = LastNum(b, o)
  BY <1>4 DEF LastNum, At
<1>16. \A b \in Box : Complete(b)' <=> Complete(b)
  BY <1>4 DEF Complete, Known
<1>17. Lasts(l)'
  BY <1>11, <1>15, <1>16 DEF J, Lasts
<1>18. Once(h, l)'
  BY <1>4, <1>11, <1>15 DEF J, Once, Handled
<1>19. J(h, l, s2)'
  BY <1>8, <1>10, <1>12, <1>13, <1>14, <1>17, <1>18 DEF J
<1> QED BY <1>a, <1>3, <1>19

-----------------------------------------------------------------------------
LEMMA SameScenario ==
  ASSUME [Next]_vars
  PROVE  scenario' = scenario
<1>1. \A b \in Box : Send(b) \/ ReadEth(b) \/ ReadRadio(b) => scenario' = scenario
  BY DEF Send, ReadEth, ReadRadio
<1>2. \A b \in Box : FirstBeacon(b) \/ Miss(b) \/ Reboot(b) => scenario' = scenario
  BY DEF FirstBeacon, Miss, Reboot
<1> QED BY <1>1, <1>2 DEF Next, SendOnEth, vars

LEMMA NextInv ==
  ASSUME IInv, FewFrames, [Next]_vars
  PROVE  IInv'
<1> SUFFICES ASSUME gaps' = 0, Apart' PROVE \E h, l, s : J(h, l, s)'
  BY DEF IInv
<1>0. Apart
  <2>1. scenario' = scenario
    BY SameScenario
  <2> QED BY <2>1 DEF Apart
<1>1. CASE UNCHANGED vars
  <2>1. gaps = 0
    BY <1>1 DEF vars, faultVars
  <2>2. PICK h, l, s : J(h, l, s)
    BY <1>0, <2>1 DEF IInv
  <2>3. J(h, l, s)'
    BY <1>1, <2>2, FewerKept DEF vars, faultVars, J, Shape
  <2> QED BY <2>3
<1>2. CASE Next
  <2>1. gaps = 0
    <3>1. SendOnEth => gaps' = gaps
      BY DEF SendOnEth
    <3>2. \A b \in Box : Send(b) \/ ReadEth(b) \/ ReadRadio(b) => gaps' = gaps
      BY DEF Send, ReadEth, ReadRadio
    <3>3. \A b \in Box : FirstBeacon(b) \/ Miss(b) => gaps' = gaps
      BY DEF FirstBeacon, Miss, faultVars
    <3>4. \A b \in Box : ~ Reboot(b)
      BY DEF Reboot
    <3> QED BY <1>2, <3>1, <3>2, <3>3, <3>4 DEF Next
  <2>2. PICK h, l, s : J(h, l, s)
    BY <1>0, <2>1 DEF IInv
  <2>3. CASE SendOnEth
    BY <2>2, <2>3, SendOnEthKept
  <2>4. ASSUME NEW b \in Box, Send(b)
        PROVE  \E l2, s2 : J(h, l2, s2)'
    BY <2>2, <2>4, NumberedKept
  <2>5. ASSUME NEW b \in Box, ReadEth(b)
        PROVE  \E l2, s2 : J(h, l2, s2)'
    BY <2>2, <2>5, NumberedKept
  <2>6. ASSUME NEW b \in Box, ReadRadio(b)
        PROVE  J(h, l, s)'
    BY <2>2, <2>6, ReadRadioKept
  <2>7. ASSUME NEW b \in Box, FirstBeacon(b)
        PROVE  FALSE
    BY <2>2, <2>7 DEF FirstBeacon, J, Lasts, Complete
  <2>8. ASSUME NEW b \in Box, Miss(b)
        PROVE  J(h, l, s)'
    BY <2>2, <2>8, MissKept
  <2>9. ASSUME NEW b \in Box, Reboot(b)
        PROVE  FALSE
    BY <2>9 DEF Reboot
  <2> QED BY <1>2, <2>3, <2>4, <2>5, <2>6, <2>7, <2>8, <2>9 DEF Next
<1> QED BY <1>1, <1>2

LEMMA OnceWhereApart ==
  ASSUME IInv, gaps = 0, Apart, NEW b \in Box, NEW o \in Box, NEW f \in Frame, got[b][o][f] > 0
  PROVE  got[b][o][f] = 1 /\ \A p \in Box \ {o} : got[b][p][f] = 0
<1>1. PICK h, l, s : J(h, l, s)
  BY DEF IInv
<1>2. Times(b, f) <= 1
  BY <1>1, SeenTimes DEF J, Once
<1>3. ~ NoneOf(b, f)
  BY DEF NoneOf
<1>4. PICK q \in Box : got[b][q][f] = 1 /\ \A p \in Box \ {q} : got[b][p][f] = 0
  BY <1>2, <1>3 DEF Times, OneOf
<1> QED BY <1>4

-----------------------------------------------------------------------------
(* However the boxes hear each other: until an originator has used half of *)
(* the numbers, each of its packets is the k-th it numbered, for some k.   *)
Few(o) == 2 * made[o] <= Modulus + 1
Typed(l) ==
  /\ scenario \in Scenarios /\ sent \in 0 .. Frames
  /\ number \in [Box -> Num] /\ made \in [Box -> 0 .. Many]
  /\ beacons \in [Box -> Seq(Beacon)] /\ (\A b \in Box : Complete(b))
  /\ radio \in [Box -> Seq(Packet)] /\ eth \in [Box -> Seq(Frame)]
  /\ gaps = 0 /\ got \in Tally /\ l \in [Box -> Seq(Frame)]

(* The number a box knows is that of the k-th packet or a later one.       *)
Upto(l, b, o, k) == b = o \/ \E i \in 1 .. Len(l[o]) : LastNum(b, o) = Nth(i) /\ k <= i
Place(l, b, o, f, k) == k \in 1 .. Len(l[o]) /\ l[o][k] = f /\ Upto(l, b, o, k)
Counted(l, o) == /\ Len(l[o]) = made[o] /\ number[o] = Nth(Len(l[o]) + 1)
                 /\ \A f \in Frame : \A i, j \in 1 .. Len(l[o]) :
                      /\ l[o][i] = f => got[o][o][f] >= 1
                      /\ l[o][i] = f /\ l[o][j] = f /\ i # j => got[o][o][f] = 2
InAir(l, o) == \A r \in Box : \A m \in Packet :
                 In(m, radio[r]) /\ m.originator = o => Places(l, m) # {}
LastOf(l, o) == \A b \in Box \ {o} :
                  LastNum(b, o) = None \/ \E k \in 1 .. Len(l[o]) : LastNum(b, o) = Nth(k)
Placed(l, o) == \A b \in Box : \A f \in Frame :
                  /\ got[b][o][f] >= 1 => \E k : Place(l, b, o, f, k)
                  /\ got[b][o][f] = 2 => \E j, k : /\ j # k /\ Place(l, b, o, f, j)
                                                  /\ Place(l, b, o, f, k)
Traced(l, o) == Counted(l, o) /\ InAir(l, o) /\ LastOf(l, o) /\ Placed(l, o)
G(l) == Typed(l) /\ \A o \in Box : Few(o) => Traced(l, o)
GInv == gaps = 0 => \E l : G(l)

LEMMA FewMade ==
  ASSUME made \in [Box -> 0 .. Many], NEW o \in Box, Few(o)
  PROVE  made[o] \in Nat /\ made[o] # Many
BY ConstAssumption DEF Few, Many, ConstAssumption

LEMMA InitG ==
  ASSUME Init
  PROVE  GInv
<1> SUFFICES ASSUME gaps = 0 PROVE G(NoneNumbered)
  BY DEF GInv
<1> DEFINE l == NoneNumbered
<1>1. \A b \in Box : Complete(b) /\ \A o \in Box \ {b} : LastNum(b, o) = None
  BY FirstBeacons
<1>2. \A b \in Box : l[b] = <<>> /\ Len(l[b]) = 0 /\ radio[b] = <<>> /\ made[b] = 0
  BY DEF Init, NoneNumbered
<1>3. Typed(l)
  <2>1. scenario.first \in Num /\ Many \in Nat
    BY FirstNum, ConstAssumption DEF Init, Many, ConstAssumption
  <2>2. number \in [Box -> Num] /\ sent \in 0 .. Frames /\ made \in [Box -> 0 .. Many]
    BY <2>1, ConstAssumption DEF Init, ConstAssumption
  <2>3. beacons \in [Box -> Seq(Beacon)]
    <3>1. \A b \in Box : beacons[b] \in Seq(Beacon)
      BY <1>1 DEF Complete
    <3>2. beacons = [b \in Box |-> beacons[b]]
      BY DEF Init
    <3> QED BY <3>1, <3>2
  <2>4. radio \in [Box -> Seq(Packet)] /\ eth \in [Box -> Seq(Frame)] /\ l \in [Box -> Seq(Frame)]
    BY DEF Init, NoneNumbered
  <2>5. got \in Tally /\ scenario \in Scenarios
    BY DEF Init, Tally
  <2> QED BY <1>1, <2>2, <2>3, <2>4, <2>5 DEF Typed
<1>4. Nth(1) = scenario.first
  BY FirstNum, ConstAssumption DEF Nth, Init, Num, ConstAssumption
<1>5. ASSUME NEW o \in Box PROVE Traced(l, o)
  <2>1. number[o] = scenario.first /\ \A b \in Box : \A f \in Frame : got[b][o][f] = 0
    BY DEF Init
  <2> HIDE DEF l
  <2>2. Counted(l, o)
    BY <1>2, <1>4, <2>1 DEF Counted
  <2>3. InAir(l, o)
    BY <1>2 DEF InAir, In
  <2>4. LastOf(l, o) /\ Placed(l, o)
    BY <1>1, <2>1 DEF LastOf, Placed
  <2> QED BY <2>2, <2>3, <2>4 DEF Traced
<1> QED BY <1>3, <1>5 DEF G

(* Whose number a box has not seen yet is later than all it has handled.   *)
LEMMA LaterPlace ==
  ASSUME NEW l, G(l), NEW b \in Box, NEW m \in Packet, FirstOf(b, m) \/ LaterOf(b, m),
         Few(m.originator), NEW k \in Places(l, m)
  PROVE  \A j \in 1 .. Len(l[m.originator]) : LastNum(b, m.originator) = Nth(j) => j < k
<1> DEFINE o == m.originator
<1>1. o \in Box \ {b} /\ Few(o) /\ k \in 1 .. Len(l[o]) /\ m.num = Nth(k)
  BY DEF Packet, Places, FirstOf, LaterOf
<1>2. o \in Known(b) /\ Len(l[o]) = made[o] /\ made[o] \in Nat /\ scenario \in Scenarios
  BY <1>1, FewMade DEF G, Typed, Traced, Counted, Complete
<1>3. SUFFICES ASSUME NEW j \in 1 .. Len(l[o]), LastNum(b, o) = Nth(j)
               PROVE  j < k
  OBVIOUS
<1>4. /\ j \in Nat \ {0} /\ 2 * j <= Modulus + 1
      /\ k \in Nat \ {0} /\ 2 * k <= Modulus + 1
  BY <1>1, <1>2, ConstAssumption DEF Few, ConstAssumption
<1>5. Nth(j) \in Num /\ None \notin Num
  BY <1>2, <1>4, NumNext, ConstAssumption DEF ConstAssumption
<1>6. Newer(Nth(k), Nth(j))
  BY <1>1, <1>2, <1>3, <1>5 DEF FirstOf, LaterOf
<1> QED BY <1>2, <1>4, <1>6, AheadIsLater

(* What a box has handled stays so when it marks a later number.           *)
LEMMA UptoMarked ==
  ASSUME NEW l, G(l), NEW b \in Box, NEW m \in Packet, FirstOf(b, m) \/ LaterOf(b, m),
         In(m, radio[b]), beacons' = Marked(b, m), scenario' = scenario,
         NEW o \in Box, Few(o)
  PROVE  /\ LastOf(l, o)'
         /\ \A c \in Box : \A k \in 1 .. Len(l[o]) : Upto(l, c, o, k) => Upto(l, c, o, k)'
         /\ o = m.originator => \E k : /\ k \in Places(l, m) /\ Upto(l, b, o, k)'
                                      /\ \A j : Place(l, b, o, m.frame, j) => j < k
<1>1. \A c \in Box : \A p \in Box \ {c} :
        LastNum(c, p)' = IF c = b /\ p = m.originator THEN m.num ELSE LastNum(c, p)
  BY MarkedLast DEF G, Typed
<1>2. LastOf(l, o) /\ \A j : Nth(j)' = Nth(j)
  BY DEF G, Traced, Nth
<1>3. m.originator # b
  BY DEF FirstOf, LaterOf
<1>4. Len(l[o]) \in Nat
  <2>1. l[o] \in Seq(Frame)
    BY DEF G, Typed
  <2> QED BY <2>1, LenProperties
<1>5. CASE o # m.originator
  <2>1. \A c \in Box \ {o} : LastNum(c, o)' = LastNum(c, o)
    BY <1>1, <1>5
  <2> QED BY <1>2, <1>5, <2>1 DEF LastOf, Upto
<1>6. CASE o = m.originator
  <2>1. PICK k : k \in Places(l, m)
    BY <1>6 DEF G, Traced, InAir
  <2>2. k \in 1 .. Len(l[o]) /\ m.num = Nth(k) /\ l[o][k] = m.frame
    BY <1>6, <2>1 DEF Places
  <2>3. LastNum(b, o)' = Nth(k)
    BY <1>1, <1>3, <1>6, <2>2
  <2>4. \A j \in 1 .. Len(l[o]) : LastNum(b, o) = Nth(j) => j < k
    BY <1>6, <2>1, LaterPlace
  <2>5. Upto(l, b, o, k)'
    <3>1. k <= k
      BY <1>4, <2>2
    <3> QED BY <1>2, <2>2, <2>3, <3>1 DEF Upto
  <2>6. \A i \in 1 .. Len(l[o]) : Upto(l, b, o, i) => i < k /\ Upto(l, b, o, i)'
    BY <1>2, <1>3, <1>4, <1>6, <2>2, <2>3, <2>4 DEF Upto
  <2>7. \A c \in Box \ {o} : c # b => LastNum(c, o)' = LastNum(c, o)
    BY <1>1
  <2>8. \A c \in Box : \A i \in 1 .. Len(l[o]) : Upto(l, c, o, i) => Upto(l, c, o, i)'
    <3> SUFFICES ASSUME NEW c \in Box, NEW i \in 1 .. Len(l[o]), Upto(l, c, o, i)
                 PROVE  Upto(l, c, o, i)'
      OBVIOUS
    <3>1. CASE c = b
      BY <2>6, <3>1
    <3>2. CASE c = o
      BY <3>2 DEF Upto
    <3>3. CASE c # b /\ c # o
      BY <1>2, <2>7, <3>3 DEF Upto
    <3> QED BY <3>1, <3>2, <3>3
  <2>9. LastOf(l, o)'
    BY <1>2, <2>2, <2>3, <2>7 DEF LastOf
  <2> QED BY <2>1, <2>5, <2>6, <2>8, <2>9 DEF Place
<1> QED BY <1>5, <1>6

(* Nothing is numbered or handed on.                                       *)
LEMMA QuietG ==
  ASSUME NEW l, G(l), UNCHANGED <<scenario, number, beacons, got, gaps, made>>,
         sent' \in 0 .. Frames, radio' \in [Box -> Seq(Packet)], eth' \in [Box -> Seq(Frame)],
         \A r \in Box : \A x \in Packet : In(x, radio'[r]) => In(x, radio[r])
  PROVE  G(l)'
<1>1. \A j : Nth(j)' = Nth(j)
  BY DEF Nth
<1>2. \A b, o : LastNum(b, o)' = LastNum(b, o)
  BY DEF LastNum, At
<1>3. Typed(l)'
  <2>1. \A b \in Box : Complete(b)' <=> Complete(b)
    BY DEF Complete, Known
  <2>2. Many' = Many
    BY DEF Many
  <2> QED BY <2>1, <2>2 DEF G, Typed, Tally
<1>4. ASSUME NEW o \in Box, Few(o)' PROVE Traced(l, o)'
  <2>1. Traced(l, o)
    BY <1>4 DEF G, Few
  <2>2. Counted(l, o)'
    BY <1>1, <2>1 DEF Traced, Counted
  <2>3. InAir(l, o)'
    <3>1. \A m \in Packet : Places(l, m)' = Places(l, m)
      BY <1>1 DEF Places
    <3> QED BY <2>1, <3>1 DEF Traced, InAir
  <2>4. LastOf(l, o)'
    BY <1>1, <1>2, <2>1 DEF Traced, LastOf
  <2>5. \A b : \A f : \A k : Place(l, b, o, f, k)' <=> Place(l, b, o, f, k)
    BY <1>1, <1>2 DEF Place, Upto
  <2>6. Placed(l, o)'
    BY <2>1, <2>5 DEF Traced, Placed
  <2> QED BY <2>2, <2>3, <2>4, <2>6 DEF Traced
<1> QED BY <1>3, <1>4 DEF G

LEMMA MissG ==
  ASSUME NEW l, G(l), NEW b \in Box, Miss(b)
  PROVE  G(l)'
<1>1. radio \in [Box -> Seq(Packet)] /\ radio[b] # <<>> /\ radio' = [radio EXCEPT ![b] = Tail(@)]
  BY DEF G, Typed, Miss
<1>2. FirstRead(Packet, radio, b, radio')
  BY <1>1, ReadOff
<1>3. sent' \in 0 .. Frames /\ eth' \in [Box -> Seq(Frame)]
  BY DEF G, Typed, Miss
<1>4. UNCHANGED <<scenario, number, beacons, got, gaps, made>>
  BY DEF Miss
<1> QED BY <1>2, <1>3, <1>4, QuietG DEF FirstRead

LEMMA SendOnEthG ==
  ASSUME NEW l, G(l), SendOnEth
  PROVE  G(l)'
<1>1. sent' \in 0 .. Frames /\ sent + 1 \in Frame
  BY ConstAssumption DEF G, Typed, SendOnEth, ConstAssumption, Scenario, Frame
<1>2. eth' \in [Box -> Seq(Frame)]
  <2>1. PICK f : f = sent + 1
    OBVIOUS
  <2>2. eth' = Hear(eth, scenario.wired, f) /\ f \in Frame /\ eth \in [Box -> Seq(Frame)]
    BY <1>1, <2>1 DEF SendOnEth, G, Typed
  <2>3. JustHeard(Frame, eth, scenario.wired, f, Hear(eth, scenario.wired, f))
    BY <2>2, Heard
  <2> QED BY <2>2, <2>3 DEF JustHeard
<1>3. UNCHANGED <<scenario, number, beacons, got, gaps, made, radio>>
  BY DEF SendOnEth
<1> QED BY <1>1, <1>2, <1>3, QuietG DEF G, Typed

(* A packet a box takes, and one that it refuses.                          *)
LEMMA MarkedG ==
  ASSUME NEW l, G(l), NEW b \in Box, NEW m \in Packet, FirstOf(b, m) \/ LaterOf(b, m),
         In(m, radio[b]), beacons' = Marked(b, m),
         UNCHANGED <<scenario, sent, number, made, gaps>>,
         radio' \in [Box -> Seq(Packet)], eth' \in [Box -> Seq(Frame)],
         \A r \in Box : \A x \in Packet : In(x, radio'[r]) =>
           \/ In(x, radio[r])
           \/ x.originator = m.originator /\ x.num = m.num /\ x.frame = m.frame,
         got' = got \/ Counts(b, m.originator, m.frame)
  PROVE  G(l)'
<1> DEFINE q == m.originator
           f == m.frame
<1>1. q \in Box /\ q # b /\ f \in Frame
  BY DEF Packet, FirstOf, LaterOf
<1>2. /\ got' \in Tally
      /\ \A c, p \in Box : \A g \in Frame :
           ~ (c = b /\ p = q /\ g = f) => got'[c][p][g] = got[c][p][g]
      /\ got'[b][q][f] = got[b][q][f] \/ got'[b][q][f] = Twice(got[b][q][f])
      /\ \A c, p \in Box : \A g \in Frame : got[c][p][g] \in 0 .. 2
  <2>1. got \in Tally /\ \A c, p \in Box : \A g \in Frame : got[c][p][g] \in 0 .. 2
    BY DEF G, Typed, Tally
  <2>2. CASE got' = got
    BY <2>1, <2>2
  <2>3. CASE Counts(b, q, f)
    BY <1>1, <2>1, <2>3, CountedOne
  <2> QED BY <2>2, <2>3
<1>3. \A j : Nth(j)' = Nth(j)
  BY DEF Nth
<1>4. Typed(l)'
  <2>1. beacons' \in [Box -> Seq(Beacon)] /\ \A c \in Box : Complete(c)'
    BY MarkedLast DEF G, Typed
  <2>2. Many' = Many /\ Tally' = Tally
    BY DEF Many, Tally
  <2> QED BY <1>2, <2>1, <2>2 DEF G, Typed
<1>5. ASSUME NEW o \in Box, Few(o)' PROVE Traced(l, o)'
  <2>1. Few(o) /\ Traced(l, o)
    BY <1>5 DEF G, Few
  <2>2. /\ LastOf(l, o)'
        /\ \A c \in Box : \A k \in 1 .. Len(l[o]) : Upto(l, c, o, k) => Upto(l, c, o, k)'
        /\ o = q => \E k : /\ k \in Places(l, m) /\ Upto(l, b, o, k)'
                          /\ \A j : Place(l, b, o, f, j) => j < k
    BY <2>1, UptoMarked
  <2>3. \A c \in Box : \A g : \A k : Place(l, c, o, g, k) => Place(l, c, o, g, k)'
    BY <2>2 DEF Place
  <2>4. Counted(l, o)'
    <3>1. \A g \in Frame : got'[o][o][g] = got[o][o][g]
      BY <1>1, <1>2
    <3> QED BY <1>3, <2>1, <3>1 DEF Traced, Counted
  <2>5. InAir(l, o)'
    <3>1. \A x \in Packet : Places(l, x)' = Places(l, x)
      BY <1>3 DEF Places
    <3>2. \A x \in Packet : x.originator = q /\ x.num = m.num /\ x.frame = f =>
            Places(l, x) = Places(l, m)
      BY DEF Places
    <3> QED BY <2>1, <3>1, <3>2 DEF Traced, InAir
  <2>6. Placed(l, o)'
    <3> SUFFICES ASSUME NEW c \in Box, NEW g \in Frame
                 PROVE  /\ got'[c][o][g] >= 1 => \E k : Place(l, c, o, g, k)'
                        /\ got'[c][o][g] = 2 =>
                             \E j, k : j # k /\ Place(l, c, o, g, j)' /\ Place(l, c, o, g, k)'
      BY DEF Placed
    <3>0. /\ got[c][o][g] >= 1 => \E k : Place(l, c, o, g, k)
          /\ got[c][o][g] = 2 =>
               \E j, k : j # k /\ Place(l, c, o, g, j) /\ Place(l, c, o, g, k)
      BY <2>1 DEF Traced, Placed
    <3>1. CASE got'[c][o][g] = got[c][o][g]
      BY <2>3, <3>0, <3>1
    <3>2. CASE c = b /\ o = q /\ g = f /\ got'[b][q][f] = Twice(got[b][q][f])
      <4>1. PICK k : /\ k \in Places(l, m) /\ Upto(l, b, o, k)'
                     /\ \A j : Place(l, b, o, f, j) => j < k
        BY <2>2, <3>2
      <4>2. Place(l, b, o, f, k)'
        BY <3>2, <4>1 DEF Place, Places
      <4>3. got'[b][q][f] = 2 => got[b][q][f] >= 1
        <5>1. PICK x : x = got[b][q][f]
          OBVIOUS
        <5>2. x \in 0 .. 2 /\ got'[b][q][f] = Twice(x)
          BY <1>1, <1>2, <3>2, <5>1
        <5> QED BY <5>1, <5>2, TwiceRange
      <4>4. ASSUME got[b][q][f] >= 1
            PROVE  \E j : j # k /\ Place(l, b, o, f, j)'
        <5>1. PICK j : Place(l, b, o, f, j)
          BY <3>0, <3>2, <4>4
        <5>2. j < k /\ j \in Int
          BY <4>1, <5>1 DEF Place
        <5> QED BY <2>3, <5>1, <5>2
      <4> QED BY <3>2, <4>2, <4>3, <4>4
    <3> QED BY <1>2, <3>1, <3>2
  <2> QED BY <2>2, <2>4, <2>5, <2>6 DEF Traced
<1> QED BY <1>4, <1>5 DEF G

LEMMA ReadRadioG ==
  ASSUME NEW l, G(l), NEW b \in Box, ReadRadio(b)
  PROVE  G(l)'
<1>1. PICK m \in Packet, rd \in [Box -> Seq(Packet)] :
        /\ In(m, radio[b])
        /\ \A r \in Box : \A x \in Packet : In(x, rd[r]) => In(x, radio[r])
        /\ UNCHANGED <<scenario, sent, number, made, gaps>>
        /\ \/ /\ FirstOf(b, m) \/ LaterOf(b, m)
              /\ beacons' = Marked(b, m)
              /\ Forward(b, m, FALSE, m.from, FALSE, rd, eth)
           \/ /\ LaterOf(b, m) /\ beacons' = Marked(b, m)
              /\ radio' = rd /\ UNCHANGED <<eth, got>>
           \/ radio' = rd /\ UNCHANGED <<beacons, eth, got>>
  <2>1. radio \in [Box -> Seq(Packet)]
    BY DEF G, Typed
  <2> QED BY <2>1, ReadOnce
<1>2. scenario \in Scenarios /\ gaps = 0 /\ got \in Tally /\ eth \in [Box -> Seq(Frame)]
      /\ sent \in 0 .. Frames
  BY DEF G, Typed
<1>3. CASE /\ FirstOf(b, m) \/ LaterOf(b, m)
           /\ beacons' = Marked(b, m)
           /\ Forward(b, m, FALSE, m.from, FALSE, rd, eth)
  <2>1. GoneOut(scenario.part, b, m, FALSE, rd, eth)
    <3> DEFINE no == FALSE
    <3>1. no \in BOOLEAN /\ Forward(b, m, no, m.from, no, rd, eth)
      BY <1>3
    <3> HIDE DEF no
    <3>2. GoneOut(scenario.part, b, m, no, rd, eth)
      BY <1>2, <3>1, PartsThere, Forwarded
    <3> QED BY <3>2 DEF no
  <2>2. Counts(b, m.originator, m.frame)
    BY <1>2, <1>3 DEF Forward, Counts
  <2>3. /\ radio' \in [Box -> Seq(Packet)] /\ eth' \in [Box -> Seq(Frame)]
        /\ \A r \in Box : \A x \in Packet : In(x, radio'[r]) =>
              \/ In(x, radio[r])
              \/ x.originator = m.originator /\ x.num = m.num /\ x.frame = m.frame
    BY <1>1, <2>1 DEF GoneOut
  <2> QED BY <1>1, <1>3, <2>2, <2>3, MarkedG
<1>4. CASE /\ LaterOf(b, m) /\ beacons' = Marked(b, m)
           /\ radio' = rd /\ UNCHANGED <<eth, got>>
  BY <1>1, <1>2, <1>4, MarkedG
<1>5. CASE radio' = rd /\ UNCHANGED <<beacons, eth, got>>
  BY <1>1, <1>2, <1>5, QuietG
<1> QED BY <1>1, <1>3, <1>4, <1>5

(* The next packet a box numbers, with which it hands the frame on itself. *)
LEMMA NumberedG ==
  ASSUME NEW l, G(l), NEW b \in Box, NEW f \in Frame, NEW fromEth \in BOOLEAN,
         NEW et \in [Box -> Seq(Frame)],
         Forward(b, Wrapped(b, f), TRUE, b, fromEth, radio, et),
         number' = Numbered(b), made' = Made(b), sent' \in 0 .. Frames,
         UNCHANGED <<scenario, beacons, gaps>>
  PROVE  G([l EXCEPT ![b] = Append(@, f)])'
<1> DEFINE l2 == [l EXCEPT ![b] = Append(@, f)]
           n  == Len(l[b]) + 1
           m  == Wrapped(b, f)
<1>1. /\ scenario \in Scenarios /\ gaps = 0 /\ got \in Tally /\ radio \in [Box -> Seq(Packet)]
      /\ l \in [Box -> Seq(Frame)] /\ number \in [Box -> Num] /\ made \in [Box -> 0 .. Many]
      /\ Many \in Nat \ {0} /\ Modulus \in Nat /\ Modulus > 1
  BY ConstAssumption DEF G, Typed, Many, ConstAssumption
<1>2. /\ l2 \in [Box -> Seq(Frame)] /\ Len(l2[b]) = n /\ n \in Nat \ {0}
      /\ l2[b][n] = f /\ \A i \in 1 .. Len(l[b]) : l2[b][i] = l[b][i] /\ i \in 1 .. n
      /\ \A i \in 1 .. n : i \in 1 .. Len(l[b]) \/ i = n
      /\ \A c \in Box : c # b => l2[c] = l[c]
  <2>1. l[b] \in Seq(Frame) /\ l2[b] = Append(l[b], f) /\ Len(l[b]) \in Nat
    BY <1>1, LenProperties
  <2>2. /\ Append(l[b], f) \in Seq(Frame)
        /\ Len(Append(l[b], f)) = Len(l[b]) + 1
        /\ Append(l[b], f)[Len(l[b]) + 1] = f
        /\ \A i \in 1 .. Len(l[b]) : Append(l[b], f)[i] = l[b][i]
    BY <2>1, Appended
  <2>3. \A c \in Box : c # b => l2[c] = l[c]
    BY <1>1
  <2>4. l2 \in [Box -> Seq(Frame)]
    BY <1>1, <2>2
  <2> QED BY <2>1, <2>2, <2>3, <2>4
<1>3. m \in Packet /\ m.originator = b /\ m.num = number[b] /\ m.frame = f
  BY <1>1 DEF Wrapped, Packet
<1> HIDE DEF l2, m
<1>4. GoneOut(scenario.part, b, m, fromEth, radio, et)
  <2> DEFINE yes == TRUE
  <2>1. yes \in BOOLEAN /\ Forward(b, m, yes, b, fromEth, radio, et)
    BY DEF m
  <2> HIDE DEF yes
  <2> QED BY <1>1, <1>3, <2>1, PartsThere, Forwarded
<1>5. Counts(b, b, f)
  BY <1>1, <1>3 DEF Forward, Counts, m
<1>6. /\ got' \in Tally
      /\ \A c, p \in Box : \A g \in Frame :
           got'[c][p][g] = IF c = b /\ p = b /\ g = f THEN Twice(got[b][b][f])
                           ELSE got[c][p][g]
      /\ \A c, p \in Box : \A g \in Frame : got[c][p][g] \in 0 .. 2
  <2>1. \A c, p \in Box : \A g \in Frame : got[c][p][g] \in 0 .. 2
    BY <1>1 DEF Tally
  <2> QED BY <1>1, <1>5, <2>1, CountedOne
<1>7. /\ number' \in [Box -> Num] /\ number'[b] = (number[b] + 1) % Modulus
      /\ \A c \in Box : c # b => number'[c] = number[c]
  <2>1. number[b] + 1 \in Int
    BY <1>1 DEF Num
  <2>2. PICK x : x = number[b] + 1
    OBVIOUS
  <2>3. x % Modulus \in 0 .. Modulus - 1
    BY <1>1, <2>1, <2>2
  <2>4. number' = [number EXCEPT ![b] = x % Modulus]
    BY <2>2 DEF Numbered
  <2>5. number' \in [Box -> Num]
    BY <1>1, <2>3, <2>4 DEF Num
  <2> QED BY <1>1, <2>2, <2>4, <2>5
<1>8. /\ made' \in [Box -> 0 .. Many] /\ made'[b] = IF made[b] = Many THEN Many ELSE made[b] + 1
      /\ \A c \in Box : c # b => made'[c] = made[c]
  BY <1>1 DEF Made
<1>9. Typed(l2)'
  <2>1. \A c \in Box : Complete(c)' <=> Complete(c)
    BY DEF Complete, Known
  <2>2. Many' = Many /\ Tally' = Tally
    BY DEF Many, Tally
  <2>3. beacons \in [Box -> Seq(Beacon)] /\ \A c \in Box : Complete(c)
    BY DEF G, Typed
  <2>4. radio' \in [Box -> Seq(Packet)] /\ eth' \in [Box -> Seq(Frame)]
    BY <1>4 DEF GoneOut
  <2> QED BY <1>1, <1>2, <1>6, <1>7, <1>8, <2>1, <2>2, <2>3, <2>4 DEF Typed
<1>10. \A j : Nth(j)' = Nth(j)
  BY DEF Nth
<1>11. \A c, o : LastNum(c, o)' = LastNum(c, o)
  BY DEF LastNum, At
<1>12. \A c \in Box : Len(l[c]) \in Nat
  BY <1>1, LenProperties
<1>13. \A c \in Box : \A i \in 1 .. Len(l[c]) : i \in 1 .. Len(l2[c]) /\ l2[c][i] = l[c][i]
  BY <1>2
<1>14. ASSUME NEW o \in Box, Few(o)' PROVE Traced(l2, o)'
  <2>1. Few(o) /\ (o = b => made[b] # Many /\ made'[b] = made[b] + 1)
    <3>1. 2 * made'[o] <= Modulus + 1 /\ 2 * Many > Modulus + 1
      BY <1>1, <1>14 DEF Few, Many
    <3>2. CASE o # b
      <4>1. made'[o] = made[o]
        BY <1>8, <3>2
      <4> QED BY <3>1, <3>2, <4>1 DEF Few
    <3>3. CASE o = b
      <4>1. made[b] \in Nat /\ made[b] # Many /\ made'[b] = made[b] + 1
        BY <1>1, <1>8, <3>1, <3>3
      <4> QED BY <1>1, <3>1, <3>3, <4>1 DEF Few
    <3> QED BY <3>2, <3>3
  <2>2. Traced(l, o)
    BY <2>1 DEF G
  <2>3. o = b => number[b] = Nth(n) /\ 2 * n <= Modulus + 1 /\ made[b] + 1 = n
    BY <1>1, <1>14, <2>1, <2>2 DEF Traced, Counted, Few
  <2>4. Counted(l2, o)'
    <3>1. CASE o # b
      <4>1. \A g \in Frame : got'[o][o][g] = got[o][o][g]
        BY <1>6, <3>1
      <4>2. l2[o] = l[o] /\ made'[o] = made[o] /\ number'[o] = number[o]
        BY <1>2, <1>7, <1>8, <3>1
      <4>3. Len(l[o]) = made[o] /\ number[o] = Nth(Len(l[o]) + 1)
        BY <2>2 DEF Traced, Counted
      <4>4. \A g \in Frame : \A i, j \in 1 .. Len(l[o]) :
              /\ l[o][i] = g => got[o][o][g] >= 1
              /\ l[o][i] = g /\ l[o][j] = g /\ i # j => got[o][o][g] = 2
        BY <2>2 DEF Traced, Counted
      <4> QED BY <1>10, <4>1, <4>2, <4>3, <4>4 DEF Counted
    <3>2. CASE o = b
      <4>1. Len(l2[b]) = made'[b] /\ number'[b] = Nth(Len(l2[b]) + 1)
        <5>1. (Nth(n) + 1) % Modulus = Nth(n + 1)
          BY <1>1, <1>2, <2>3, <3>2, NumNext
        <5>2. made'[b] = n
          BY <2>1, <2>3, <3>2
        <5> QED BY <1>2, <1>7, <2>3, <3>2, <5>1, <5>2
      <4>2. /\ \A g \in Frame : g # f => got'[b][b][g] = got[b][b][g]
            /\ got'[b][b][f] = Twice(got[b][b][f]) /\ got[b][b][f] \in 0 .. 2
        BY <1>6
      <4>3. /\ got'[b][b][f] >= 1
            /\ got[b][b][f] >= 1 => got'[b][b][f] = 2
        BY <4>2 DEF Twice
      <4>4. \A g \in Frame : \A i, j \in 1 .. Len(l[b]) :
              /\ l[b][i] = g => got[b][b][g] >= 1
              /\ l[b][i] = g /\ l[b][j] = g /\ i # j => got[b][b][g] = 2
        BY <2>2, <3>2 DEF Traced, Counted
      <4>5. ASSUME NEW g \in Frame, NEW i \in 1 .. n, l2[b][i] = g PROVE got'[b][b][g] >= 1
        <5>1. g # f => i \in 1 .. Len(l[b]) /\ l[b][i] = g
          BY <1>2, <4>5
        <5> QED BY <4>2, <4>3, <4>4, <5>1
      <4>6. ASSUME NEW g \in Frame, NEW i \in 1 .. n, NEW j \in 1 .. n,
                   l2[b][i] = g, l2[b][j] = g, i # j
            PROVE  got'[b][b][g] = 2
        <5>1. \/ i \in 1 .. Len(l[b]) /\ j \in 1 .. Len(l[b])
              \/ i = n /\ j \in 1 .. Len(l[b])
              \/ j = n /\ i \in 1 .. Len(l[b])
          BY <1>2, <4>6
        <5>2. i \in 1 .. Len(l[b]) => l[b][i] = g
          BY <1>2, <4>6
        <5>3. j \in 1 .. Len(l[b]) => l[b][j] = g
          BY <1>2, <4>6
        <5>4. i = n \/ j = n => g = f
          BY <1>2, <4>6
        <5>5. CASE g = f
          BY <4>3, <4>4, <5>1, <5>2, <5>3, <5>5
        <5>6. CASE g # f
          BY <4>2, <4>4, <4>6, <5>1, <5>2, <5>3, <5>4, <5>6
        <5> QED BY <5>5, <5>6
      <4>7. \A g \in Frame : \A i, j \in 1 .. Len(l2[b]) :
              /\ l2[b][i] = g => got'[b][b][g] >= 1
              /\ l2[b][i] = g /\ l2[b][j] = g /\ i # j => got'[b][b][g] = 2
        BY <1>2, <4>5, <4>6
      <4> QED BY <1>10, <3>2, <4>1, <4>7 DEF Counted
    <3> QED BY <3>1, <3>2
  <2>5. InAir(l2, o)'
    <3> SUFFICES ASSUME NEW r \in Box, NEW x \in Packet, In(x, radio'[r]), x.originator = o
                 PROVE  Places(l2, x)' # {}
      BY DEF InAir
    <3>1. CASE In(x, radio[r])
      <4>1. PICK k : k \in Places(l, x)
        BY <2>2, <3>1 DEF Traced, InAir
      <4>2. k \in Places(l2, x)'
        BY <1>10, <1>13, <4>1 DEF Places
      <4> QED BY <4>2
    <3>2. CASE x.originator = m.originator /\ x.num = m.num /\ x.frame = m.frame
      <4>1. o = b /\ x.num = Nth(n) /\ x.frame = f
        BY <1>3, <2>3, <3>2
      <4>2. n \in Places(l2, x)'
        BY <1>2, <1>10, <4>1 DEF Places
      <4> QED BY <4>2
    <3> QED BY <1>4, <3>1, <3>2 DEF GoneOut
  <2>6. LastOf(l2, o)'
    BY <1>10, <1>11, <1>13, <2>2 DEF Traced, LastOf
  <2>7. \A c \in Box : \A g : \A k : Place(l, c, o, g, k) => Place(l2, c, o, g, k)'
    BY <1>10, <1>11, <1>13 DEF Place, Upto
  <2>8. Placed(l2, o)'
    <3> SUFFICES ASSUME NEW c \in Box, NEW g \in Frame
                 PROVE  /\ got'[c][o][g] >= 1 => \E k : Place(l2, c, o, g, k)'
                        /\ got'[c][o][g] = 2 =>
                             \E j, k : /\ j # k /\ Place(l2, c, o, g, j)'
                                       /\ Place(l2, c, o, g, k)'
      BY DEF Placed
    <3>0. /\ got[c][o][g] >= 1 => \E k : Place(l, c, o, g, k)
          /\ got[c][o][g] = 2 =>
               \E j, k : j # k /\ Place(l, c, o, g, j) /\ Place(l, c, o, g, k)
      BY <2>2 DEF Traced, Placed
    <3>1. CASE got'[c][o][g] = got[c][o][g]
      BY <2>7, <3>0, <3>1
    <3>2. CASE c = b /\ o = b /\ g = f /\ got'[b][b][f] = Twice(got[b][b][f])
      <4>1. Place(l2, b, b, f, n)'
        BY <1>2 DEF Place, Upto
      <4>2. got'[b][b][f] = 2 => got[b][b][f] >= 1
        BY <1>6, <3>2 DEF Twice
      <4>3. ASSUME got[b][b][f] >= 1
            PROVE  \E j : j # n /\ Place(l2, b, b, f, j)'
        <5>1. PICK j : Place(l, b, b, f, j)
          BY <3>0, <3>2, <4>3
        <5>2. j # n
          BY <1>2, <1>12, <5>1 DEF Place
        <5> QED BY <2>7, <3>2, <5>1, <5>2
      <4> QED BY <3>2, <4>1, <4>2, <4>3
    <3> QED BY <1>6, <3>1, <3>2
  <2> QED BY <2>4, <2>5, <2>6, <2>8 DEF Traced
<1>15. G(l2)'
  BY <1>9, <1>14 DEF G
<1> QED BY <1>15 DEF l2

LEMMA SendG ==
  ASSUME NEW l, G(l), NEW b \in Box, Send(b)
  PROVE  \E l2 : G(l2)'
<1>1. PICK f : f = sent + 1
  OBVIOUS
<1> DEFINE no == FALSE
<1>2. /\ Forward(b, Wrapped(b, f), TRUE, b, no, radio, eth) /\ no \in BOOLEAN
      /\ number' = Numbered(b) /\ made' = Made(b) /\ UNCHANGED <<scenario, beacons, gaps>>
  BY <1>1 DEF Send
<1>3. /\ eth \in [Box -> Seq(Frame)] /\ sent' = sent + 1 /\ sent < scenario.sends
      /\ sent \in 0 .. Frames /\ scenario \in Scenarios
  BY DEF Send, G, Typed
<1>4. scenario.sends \in 0 .. Frames /\ Frames \in Nat
  BY <1>3, ConstAssumption DEF ConstAssumption, Scenario
<1>5. f \in Frame /\ sent' \in 0 .. Frames
  BY <1>1, <1>3, <1>4 DEF Frame
<1> HIDE DEF no
<1> QED BY <1>2, <1>3, <1>5, NumberedG

LEMMA ReadEthG ==
  ASSUME NEW l, G(l), NEW b \in Box, ReadEth(b)
  PROVE  \E l2 : G(l2)'
<1>1. PICK f, et : f = Head(eth[b]) /\ et = [eth EXCEPT ![b] = Tail(@)]
  OBVIOUS
<1>2. FirstRead(Frame, eth, b, et)
  BY <1>1, ReadOff DEF G, Typed, ReadEth
<1> DEFINE yes == TRUE
<1>3. /\ f \in Frame /\ sent' \in 0 .. Frames /\ et \in [Box -> Seq(Frame)] /\ yes \in BOOLEAN
      /\ Forward(b, Wrapped(b, f), TRUE, b, yes, radio, et)
      /\ number' = Numbered(b) /\ made' = Made(b) /\ UNCHANGED <<scenario, beacons, gaps>>
  BY <1>1, <1>2 DEF G, Typed, ReadEth, FirstRead
<1> HIDE DEF yes
<1> QED BY <1>3, NumberedG

LEMMA NextG ==
  ASSUME GInv, [Next]_vars
  PROVE  GInv'
<1> SUFFICES ASSUME gaps' = 0 PROVE \E l : G(l)'
  BY DEF GInv
<1>1. gaps = 0
  <2>1. \A b \in Box : Send(b) \/ ReadEth(b) \/ ReadRadio(b) => gaps' = gaps
    BY DEF Send, ReadEth, ReadRadio
  <2>2. \A b \in Box : FirstBeacon(b) \/ Miss(b) => gaps' = gaps
    BY DEF FirstBeacon, Miss, faultVars
  <2>3. \A b \in Box : ~ Reboot(b)
    BY DEF Reboot
  <2>4. SendOnEth \/ UNCHANGED vars => gaps' = gaps
    BY DEF SendOnEth, vars, faultVars
  <2> QED BY <2>1, <2>2, <2>3, <2>4 DEF Next
<1>2. PICK l : G(l)
  BY <1>1 DEF GInv
<1>3. CASE UNCHANGED vars
  BY <1>2, <1>3, QuietG DEF vars, faultVars, G, Typed
<1>4. CASE SendOnEth
  BY <1>2, <1>4, SendOnEthG
<1>5. ASSUME NEW b \in Box, Send(b) \/ ReadEth(b) PROVE \E l2 : G(l2)'
  BY <1>2, <1>5, SendG, ReadEthG
<1>6. ASSUME NEW b \in Box, ReadRadio(b) \/ Miss(b) PROVE \E l2 : G(l2)'
  BY <1>2, <1>6, ReadRadioG, MissG
<1>7. ASSUME NEW b \in Box, FirstBeacon(b) \/ Reboot(b) PROVE FALSE
  <2>1. Known(b) = Box \ {b}
    BY <1>2 DEF G, Typed, Complete
  <2>2. ~ FirstBeacon(b)
    BY <2>1 DEF FirstBeacon
  <2>3. ~ Reboot(b)
    BY DEF Reboot
  <2> QED BY <1>7, <2>2, <2>3
<1> QED BY <1>3, <1>4, <1>5, <1>6, <1>7 DEF Next

LEMMA NoMoreThanNumbered ==
  ASSUME GInv, gaps = 0, NEW o \in Box, Few(o), NEW b \in Box, NEW f \in Frame
  PROVE  got[b][o][f] <= got[o][o][f]
<1>1. PICK l : G(l)
  BY DEF GInv
<1>2. got[b][o][f] \in 0 .. 2 /\ got[o][o][f] \in 0 .. 2
  BY <1>1 DEF G, Typed, Tally
<1>3. Counted(l, o) /\ Placed(l, o)
  BY <1>1 DEF G, Traced
<1>4. got[b][o][f] >= 1 => got[o][o][f] >= 1
  BY <1>3 DEF Counted, Placed, Place
<1>5. got[b][o][f] = 2 => got[o][o][f] = 2
  BY <1>3 DEF Counted, Placed, Place
<1> QED BY <1>2, <1>4, <1>5

(* The code hands a broadcast on when new_from_originator finds its number *)
(* newer than the last, and not always then: for every number of boxes,    *)
(* tree, choice of who overhears whom and who is on the Ethernet, buffer   *)
(* and loss, no box hands a frame on under the numbers of an originator    *)
(* more often than that one numbered it, until it has used half of them;   *)
(* and if the boxes on the Ethernet are apart, no box hands one on twice.  *)
THEOREM HandedOnOnce ==
  ASSUME FewFrames
  PROVE  Spec => []AtMostOnce
<1>1. Init => IInv /\ GInv
  BY InitInv, InitG
<1>2. IInv /\ [Next]_vars => IInv'
  BY NextInv
<1>3. GInv /\ [Next]_vars => GInv'
  BY NextG
<1>4. IInv /\ GInv => AtMostOnce
  <2> SUFFICES ASSUME IInv, GInv, gaps = 0
               PROVE  /\ \A o \in Box : 2 * made[o] <= Modulus + 1 =>
                           \A b \in Box : \A f \in Frame : got[b][o][f] <= got[o][o][f]
                      /\ Apart => \A b, o \in Box : \A f \in Frame :
                           got[b][o][f] > 0 =>
                             got[b][o][f] = 1 /\ \A p \in Box \ {o} : got[b][p][f] = 0
    BY DEF AtMostOnce
  <2>1. \A o \in Box : 2 * made[o] <= Modulus + 1 =>
          \A b \in Box : \A f \in Frame : got[b][o][f] <= got[o][o][f]
    BY NoMoreThanNumbered DEF Few
  <2>2. Apart => \A b, o \in Box : \A f \in Frame :
          got[b][o][f] > 0 => got[b][o][f] = 1 /\ \A p \in Box \ {o} : got[b][p][f] = 0
    BY OnceWhereApart
  <2> QED BY <2>1, <2>2
<1> QED BY <1>1, <1>2, <1>3, <1>4, PTL DEF Spec

-----------------------------------------------------------------------------
(* Every broadcast comes to every box                                      *)

(* Neighbors on the radio hear each other, nobody hears itself, and who    *)
(* goes towards a box comes to it. The neighbor towards a box of the same  *)
(* part is one on the radio; frames get into each other part by a box on   *)
(* the Ethernet.                                                           *)
AirOf(x, b) == {n \in Box \ {b} : x.toward[b][n] = n /\ ~ (b \in x.wired /\ n \in x.wired)}
TreeOf(x) ==
  /\ \A b \in Box : b \notin x.hears[b]
  /\ \A b \in Box : \A n \in AirOf(x, b) : b \in AirOf(x, n) /\ b \in x.hears[n]
  /\ \A o \in Box : \A S \in SUBSET Box :
       o \in S /\ (\A b \in Box \ {o} : x.toward[b][o] \in S => b \in S) => S = Box
SpannedBy(h, x) ==
  /\ \A b, c \in Box : h[b] = h[c] /\ b # c => x.toward[b][c] \in AirOf(x, b)
  /\ \A b, c \in Box : h[b] # h[c] \/ x.sources = {} => \E w \in x.wired : h[w] = h[b]
Spanned(h) == TreeOf(scenario) /\ SpannedBy(h, scenario)

LEMMA AirIsOf == \A b : AirNbrs(b) = AirOf(scenario, b)
BY DEF AirNbrs, AirOf, Toward, OnEth, Wired

(* Box b sends on what box o of its part numbered.                         *)
HandsTo(b, o) == IF b = o THEN AirNbrs(b) # {}
                 ELSE \E n1, n2 \in AirNbrs(b) : n1 # n2

(* A box hands on what it hears if it has two neighbors on the radio, from *)
(* whomever it comes.                                                      *)
LEMMA TwoNeighbors ==
  ASSUME NEW h, Spanned(h), scenario \in Scenarios, NEW b \in Box, Complete(b), NEW c \in Box,
         c # b, h[c] = h[b], NEW n1 \in AirNbrs(b), NEW n2 \in AirNbrs(b), n1 # n2
  PROVE  ForAir(b, FALSE, c) # {}
<1>1. /\ scenario.toward[b][c] \in AirOf(scenario, b)
      /\ c \notin scenario.hears[c]
  BY DEF Spanned, TreeOf, SpannedBy
<1>2. Known(b) = Box \ {b} /\ AirNbrs(b) \subseteq Box \ {b}
  BY DEF Complete, AirNbrs
<1>3. \A n \in AirNbrs(b) : n # Toward(b, c) => Needs(b, c, n)
  BY <1>1, <1>2 DEF Needs, Toward
<1>4. c \in AirNbrs(b) => Toward(b, c) = c
  BY DEF AirNbrs
<1>5. \A n \in AirNbrs(b) : n # c /\ n # Toward(b, c) => n \in ForAir(b, FALSE, c)
  BY <1>3 DEF ForAir
<1>6. CASE c \in AirNbrs(b)
  BY <1>4, <1>5, <1>6
<1>7. CASE c \notin AirNbrs(b)
  BY <1>5, <1>7
<1> QED BY <1>6, <1>7

LEMMA FromItself ==
  ASSUME NEW b \in Box
  PROVE  ForAir(b, TRUE, b) = AirNbrs(b)
BY DEF ForAir, AirNbrs

(* If nothing is lost, whoever should hear something does.                 *)
RoomIn(q) == \A r \in Box : Len(q[r]) <= Buffer

LEMMA BufferNat ==
  ASSUME scenario \in Scenarios
  PROVE  Buffer \in Nat
BY ConstAssumption DEF ConstAssumption, Scenario, Buffer

LEMMA HeardByAll ==
  ASSUME scenario \in Scenarios, NEW S, NEW q \in [Box -> Seq(S)], RoomIn(q),
         NEW rs, Full(q, rs) = 0, NEW x \in S, rs \subseteq Box
  PROVE  /\ Hear(q, rs, x) = [r \in Box |-> IF r \in rs THEN Append(q[r], x) ELSE q[r]]
         /\ RoomIn(Hear(q, rs, x))
<1> DEFINE T == {r \in rs : Len(q[r]) = Buffer}
           p == Hear(q, rs, x)
<1>1. IsFiniteSet(T) /\ T = {}
  <2>1. IsFiniteSet(rs)
    BY ConstAssumption, FS_Subset DEF ConstAssumption
  <2>2. IsFiniteSet(T)
    BY <2>1, FS_Subset
  <2>3. Cardinality(T) = 0
    BY DEF Full
  <2> HIDE DEF T
  <2> QED BY <2>2, <2>3, FS_EmptySet
<1>2. \A r \in rs : Len(q[r]) # Buffer
  BY <1>1
<1>3. \A r \in Box : q[r] \in Seq(S) /\ Len(q[r]) \in Nat /\ Len(q[r]) <= Buffer
  BY LenProperties DEF RoomIn
<1>4. Buffer \in Nat
  BY BufferNat
<1>5. \A r \in rs : Len(q[r]) < Buffer
  BY <1>2, <1>3, <1>4
<1>6. p = [r \in Box |-> IF r \in rs THEN Append(q[r], x) ELSE q[r]]
  BY <1>5 DEF Hear
<1> HIDE DEF p
<1>7. \A r \in Box : Len(Append(q[r], x)) = Len(q[r]) + 1
  BY <1>3, AppendProperties
<1>8. ASSUME NEW r \in Box PROVE Len(p[r]) <= Buffer
  <2>1. CASE r \in rs
    <3>1. p[r] = Append(q[r], x) /\ Len(q[r]) < Buffer /\ Len(q[r]) \in Nat
      BY <1>3, <1>5, <1>6, <2>1
    <3> QED BY <1>4, <1>7, <3>1
  <2>2. CASE r \notin rs
    BY <1>3, <1>6, <2>2
  <2> QED BY <2>1, <2>2
<1> QED BY <1>6, <1>8 DEF p, RoomIn

(* Where the packet with place k in the list of box o is in a queue q.     *)
Stands(l, q, o, k) == \E i \in 1 .. Len(q) : q[i].originator = o /\ k \in Places(l, q[i])

(* Packets of a box stand in their order, and so that none is missing; g   *)
(* tells what was handled.                                                 *)
Orderly(l, q, g) ==
  \A i \in 1 .. Len(q) : \A k \in Places(l, q[i]) : \A j \in 1 .. k - 1 :
    LET o == q[i].originator IN
    \/ g[l[o][j]] >= 1
    \/ \E n \in 1 .. i - 1 : q[n].originator = o /\ j \in Places(l, q[n])

LEMMA AppendedStands ==
  ASSUME NEW S, NEW q \in Seq(S), NEW x \in S, NEW l, NEW o, NEW k
  PROVE  Stands(l, Append(q, x), o, k)
           <=> Stands(l, q, o, k) \/ (x.originator = o /\ k \in Places(l, x))
<1> DEFINE a == Append(q, x)
<1>1. /\ Len(q) \in Nat /\ Len(a) = Len(q) + 1 /\ a[Len(q) + 1] = x
      /\ \A i \in 1 .. Len(q) : a[i] = q[i]
  BY AppendProperties, LenProperties
<1> HIDE DEF a
<1>2. \A i \in 1 .. Len(a) : i \in 1 .. Len(q) \/ i = Len(q) + 1
  BY <1>1
<1>3. Len(q) + 1 \in 1 .. Len(a) /\ \A i \in 1 .. Len(q) : i \in 1 .. Len(a)
  BY <1>1
<1> QED BY <1>1, <1>2, <1>3 DEF Stands, a

LEMMA AppendedOrderly ==
  ASSUME NEW S, NEW q \in Seq(S), NEW x \in S, NEW l, NEW g, Orderly(l, q, g),
         \A k \in Places(l, x) : \A j \in 1 .. k - 1 :
           g[l[x.originator][j]] >= 1 \/ Stands(l, q, x.originator, j)
  PROVE  Orderly(l, Append(q, x), g)
<1> DEFINE a == Append(q, x)
<1>1. /\ Len(q) \in Nat /\ Len(a) = Len(q) + 1 /\ a[Len(q) + 1] = x
      /\ \A i \in 1 .. Len(q) : a[i] = q[i]
  BY AppendProperties, LenProperties
<1> HIDE DEF a
<1>2. \A i \in 1 .. Len(a) : i \in 1 .. Len(q) \/ i = Len(q) + 1
  BY <1>1
<1>3. \A i \in 1 .. Len(q) : \A n \in 1 .. i - 1 : n \in 1 .. Len(q)
  BY <1>1
<1>4. 1 .. (Len(q) + 1) - 1 = 1 .. Len(q)
  BY <1>1
<1> SUFFICES ASSUME NEW i \in 1 .. Len(a), NEW k \in Places(l, a[i]), NEW j \in 1 .. k - 1
             PROVE  \/ g[l[a[i].originator][j]] >= 1
                    \/ \E n \in 1 .. i - 1 :
                         a[n].originator = a[i].originator /\ j \in Places(l, a[n])
  BY DEF Orderly, a
<1>5. CASE i \in 1 .. Len(q)
  <2>1. a[i] = q[i]
    BY <1>1, <1>5
  <2>2. \/ g[l[q[i].originator][j]] >= 1
        \/ \E n \in 1 .. i - 1 : q[n].originator = q[i].originator /\ j \in Places(l, q[n])
    BY <1>5, <2>1 DEF Orderly
  <2> QED BY <1>1, <1>3, <1>5, <2>1, <2>2
<1>6. CASE i = Len(q) + 1
  <2>1. a[i] = x
    BY <1>1, <1>6
  <2>2. g[l[x.originator][j]] >= 1 \/ Stands(l, q, x.originator, j)
    BY <2>1
  <2> QED BY <1>1, <1>4, <1>6, <2>1, <2>2 DEF Stands
<1> QED BY <1>2, <1>5, <1>6

LEMMA TailOrderly ==
  ASSUME NEW S, NEW q \in Seq(S), q # <<>>, NEW l, NEW g, NEW g2, Orderly(l, q, g),
         \A o \in Box : \A j \in 1 .. Len(l[o]) : g[l[o][j]] >= 1 => g2[l[o][j]] >= 1,
         g2[Head(q).frame] >= 1,
         \A x \in S : x.originator \in Box
  PROVE  /\ Orderly(l, Tail(q), g2)
         /\ \A o, k : Stands(l, q, o, k) =>
              Stands(l, Tail(q), o, k) \/ g2[l[o][k]] >= 1
<1> DEFINE t == Tail(q)
<1>1. /\ Len(q) \in Nat /\ Len(q) > 0 /\ Len(t) = Len(q) - 1 /\ Head(q) = q[1]
      /\ \A i \in 1 .. Len(t) : t[i] = q[i + 1]
  BY HeadTailProperties, EmptySeq, LenProperties
<1>2. \A i \in 1 .. Len(q) : q[i] \in S
  BY ElementOfSeq
<1> HIDE DEF t
<1>3. \A i \in 1 .. Len(t) : i + 1 \in 1 .. Len(q) /\ t[i] = q[i + 1]
  BY <1>1
<1>4. \A i \in 1 .. Len(q) : i = 1 \/ (i - 1 \in 1 .. Len(t) /\ t[i - 1] = q[i])
  <2>1. \A i \in 1 .. Len(q) : i = 1 \/ i - 1 \in 1 .. Len(t)
    BY <1>1
  <2>2. \A i \in 1 .. Len(q) : (i - 1) + 1 = i
    OBVIOUS
  <2> QED BY <1>1, <2>1, <2>2
<1>5. \A k \in Places(l, q[1]) : g2[l[q[1].originator][k]] >= 1
  BY <1>1 DEF Places
<1>6. ASSUME NEW o, NEW k, Stands(l, q, o, k)
      PROVE  Stands(l, t, o, k) \/ g2[l[o][k]] >= 1
  <2>1. PICK i \in 1 .. Len(q) : q[i].originator = o /\ k \in Places(l, q[i])
    BY <1>6 DEF Stands
  <2> QED BY <1>4, <1>5, <2>1 DEF Stands
<1>7. ASSUME NEW i \in 1 .. Len(t), NEW k \in Places(l, t[i]), NEW j \in 1 .. k - 1
      PROVE  \/ g2[l[t[i].originator][j]] >= 1
             \/ \E n \in 1 .. i - 1 :
                  t[n].originator = t[i].originator /\ j \in Places(l, t[n])
  <2>1. i + 1 \in 1 .. Len(q) /\ t[i] = q[i + 1] /\ t[i] \in S /\ i \in Nat
    BY <1>2, <1>3
  <2>2. \/ g[l[t[i].originator][j]] >= 1
        \/ \E n \in 1 .. (i + 1) - 1 :
             q[n].originator = t[i].originator /\ j \in Places(l, q[n])
    BY <2>1 DEF Orderly
  <2>3. k \in 1 .. Len(l[t[i].originator]) /\ t[i].originator \in Box
    BY <2>1 DEF Places
  <2>4. CASE g[l[t[i].originator][j]] >= 1
    <3>1. j \in 1 .. Len(l[t[i].originator])
      BY <2>3
    <3> QED BY <2>3, <2>4, <3>1
  <2>5. ASSUME NEW n \in 1 .. (i + 1) - 1,
               q[n].originator = t[i].originator, j \in Places(l, q[n])
        PROVE  \/ g2[l[t[i].originator][j]] >= 1
               \/ \E p \in 1 .. i - 1 :
                    t[p].originator = t[i].originator /\ j \in Places(l, t[p])
    <3>1. n \in 1 .. Len(q)
      BY <1>1, <2>1
    <3>2. CASE n = 1
      BY <1>5, <2>5, <3>2
    <3>3. CASE n # 1
      <4>1. n - 1 \in 1 .. i - 1
        BY <2>1, <3>3
      <4>2. t[n - 1] = q[n]
        BY <1>4, <3>1, <3>3
      <4> QED BY <2>5, <4>1, <4>2
    <3> QED BY <3>2, <3>3
  <2> QED BY <2>2, <2>4, <2>5
<1>8. Orderly(l, t, g2)
  BY <1>7 DEF Orderly
<1> QED BY <1>6, <1>8 DEF t

LEMMA OnlyTwoNeighbors ==
  ASSUME NEW h, Spanned(h), scenario \in Scenarios, NEW b \in Box, Complete(b), NEW c \in Box,
         c # b, h[c] = h[b], ForAir(b, FALSE, c) # {}
  PROVE  \E n1, n2 \in AirNbrs(b) : n1 # n2
<1>1. scenario.toward[b][c] \in AirOf(scenario, b)
  BY DEF Spanned, SpannedBy
<1>2. Toward(b, c) \in AirNbrs(b)
  BY <1>1, AirIsOf DEF Toward
<1>3. Known(b) = Box \ {b} /\ AirNbrs(b) \subseteq Box \ {b}
  BY DEF Complete, AirNbrs
<1>4. PICK n \in AirNbrs(b) : Needs(b, c, n)
  BY DEF ForAir
<1>5. n # Toward(b, c)
  BY <1>3, <1>4 DEF Needs
<1> QED BY <1>2, <1>5

(* Of two packets of an originator the later one is newer, and no two have *)
(* the same number.                                                        *)
LEMMA LaterIsNewer ==
  ASSUME scenario \in Scenarios, FewFrames, NEW j \in 1 .. Frames, NEW k \in 1 .. Frames
  PROVE  /\ j < k => Newer(Nth(k), Nth(j))
         /\ Nth(j) = Nth(k) => j = k
<1>1. /\ scenario.first \in 0 .. Modulus - 1 /\ Modulus \in Nat /\ Modulus > 1
      /\ Frames \in Nat
  BY FirstNum, ConstAssumption DEF Num, ConstAssumption
<1>2. Nth(k) \in 0 .. Modulus - 1 /\ Nth(j) \in 0 .. Modulus - 1
  BY NthNext DEF Num
<1> DEFINE x == Nth(k) - Nth(j) + Modulus
<1>3. x \in Nat /\ x < 2 * Modulus
  BY <1>1, <1>2
<1>4. x % Modulus = IF x < Modulus THEN x ELSE x - Modulus
  BY <1>3, SmallMod
<1>5. 2 * Frames <= Modulus + 1
  BY DEF FewFrames
<1>6. j < k => x % Modulus = k - j
  <2> HIDE DEF x
  <2> QED BY <1>1, <1>2, <1>4, <1>5 DEF Nth, x
<1>7. k - j <= Modulus \div 2
  BY <1>1, <1>5
<1>8. j < k => Newer(Nth(k), Nth(j))
  BY <1>6, <1>7 DEF Newer, Ahead
<1>9. Nth(j) = Nth(k) => j = k
  BY <1>1, <1>5 DEF Nth
<1> QED BY <1>8, <1>9

LEMMA Lengths ==
  ASSUME NEW l, l \in [Box -> Seq(Frame)], Numbers(l), NEW o \in Box
  PROVE  /\ Len(l[o]) \in Nat /\ Len(l[o]) <= Frames /\ Distinct(l[o])
         /\ \A k \in 1 .. Len(l[o]) : k \in 1 .. Frames /\ l[o][k] \in Frame
<1>1. l[o] \in Seq(Frame) /\ Distinct(l[o]) /\ Frames \in Nat
  BY ConstAssumption DEF Numbers, ConstAssumption
<1>2. Len(l[o]) \in Nat /\ Len(l[o]) <= Frames /\ \A k \in 1 .. Len(l[o]) : l[o][k] \in Frame
  BY <1>1, Room, LenProperties, ElementOfSeq
<1> QED BY <1>1, <1>2

-----------------------------------------------------------------------------
(* The invariant of a network that loses nothing                           *)

(* What a box need not wait for any more: it has handed the frame on, or   *)
(* the frame is one that some box refused.                                 *)
Served == [b \in Box |-> [f \in Frame |-> IF f \in refused THEN 1 ELSE Seen[b][f]]]

LEMMA ServedTimes ==
  /\ Served \in [Box -> [Frame -> 0 .. 2]]
  /\ \A b \in Box : \A f \in Frame : Served[b][f] = IF f \in refused THEN 1 ELSE Seen[b][f]
<1>1. \A b \in Box : \A f \in Frame : (IF f \in refused THEN 1 ELSE Seen[b][f]) \in 0 .. 2
  BY SeenTimes
<1> QED BY <1>1 DEF Served

LEMMA ServedTimesNext ==
  /\ Served' \in [Box -> [Frame -> 0 .. 2]]
  /\ \A b \in Box : \A f \in Frame : Served'[b][f] = IF f \in refused' THEN 1 ELSE Seen'[b][f]
<1>1. \A b \in Box : \A f \in Frame : Times(b, f)' \in 0 .. 2
  BY DEF Times
<1>2. \A b \in Box : \A f \in Frame : Seen'[b][f] \in 0 .. 2
  BY <1>1 DEF Seen
<1>3. \A b \in Box : \A f \in Frame : (IF f \in refused' THEN 1 ELSE Seen'[b][f]) \in 0 .. 2
  BY <1>2
<1> QED BY <1>3 DEF Served

LEMMA ServedSame ==
  ASSUME UNCHANGED <<got, refused>>
  PROVE  Served' = Served
<1>1. Seen' = Seen
  BY SeenSame
<1> QED BY <1>1 DEF Served

LEMMA CountedServed ==
  ASSUME got \in Tally, refused' = refused,
         NEW b \in Box, NEW o \in Box, NEW f \in Frame, Counts(b, o, f)
  PROVE  /\ \A c \in Box : \A u \in Frame : ~ (c = b /\ u = f) => Served'[c][u] = Served[c][u]
         /\ Served'[b][f] >= 1
<1>1. \A c \in Box : \A u \in Frame :
        Seen'[c][u] = IF c = b /\ u = f THEN Twice(Seen[b][f]) ELSE Seen[c][u]
  BY CountedTwice
<1>2. Seen[b][f] \in 0 .. 2
  BY SeenTimes
<1>3. Seen'[b][f] >= 1
  BY <1>1, <1>2 DEF Twice
<1> QED BY <1>1, <1>3, ServedTimes, ServedTimesNext

FromOthers(h, q) ==
  \A r \in Box : \A m \in Packet : In(m, q[r]) => m.from # r /\ h[m.from] = h[r]
Own(l, g) == \A o \in Box : \A k \in 1 .. Len(l[o]) : g[o][l[o][k]] >= 1
Numbered1(l, s, n) == \A f \in Frame : f <= n /\ s[f] # None => In(f, l[s[f]])

(* A box handles the packets of another in their order and all of them,    *)
InTurn(l, g) ==
  \A b \in Box : \A o \in Box \ {b} : \A j \in 1 .. Len(l[o]) :
    LastNum(b, o) = Nth(j) => \A k \in 1 .. j : g[b][l[o][k]] >= 1
AllOrderly(l, g, q) == \A b \in Box : Orderly(l, q[b], g[b])

(* and whoever hears it will.                                              *)
Pending(l, g, q, r, o, k) == g[r][l[o][k]] >= 1 \/ Stands(l, q[r], o, k)
HandsOn(h, l, g, q) ==
  \A o, b \in Box : \A k \in 1 .. Len(l[o]) : \A r \in Hearers(b) :
    h[b] = h[o] /\ HandsTo(b, o) /\ g[b][l[o][k]] >= 1 => Pending(l, g, q, r, o, k)

(* What was sent on the Ethernet, or has come to it in its own part, comes *)
(* to all boxes there.                                                     *)
OnEthBy(h, s, g, f, w) ==
  \/ s[f] = None
  \/ h[w] # h[s[f]] /\ \E v \in scenario.wired : h[v] = h[s[f]] /\ g[v][f] >= 1
Across(h, s, g, e, n) ==
  \A f \in Frame : \A w \in scenario.wired :
    f <= n /\ OnEthBy(h, s, g, f, w) => g[w][f] >= 1 \/ In(f, e[w])

Flows(h, l, s) ==
  /\ Spanned(h) /\ RoomIn(radio) /\ RoomIn(eth) /\ FromOthers(h, radio)
  /\ refused \subseteq 1 .. sent
  /\ Own(l, Served) /\ Numbered1(l, s, sent) /\ InTurn(l, Served) /\ AllOrderly(l, Served, radio)
  /\ HandsOn(h, l, Served, radio) /\ Across(h, s, Served, eth, sent)

LEMMA InitFlows ==
  ASSUME Init, NEW h, Spanned(h)
  PROVE  Flows(h, NoneNumbered, NoneSent)
<1> DEFINE l == NoneNumbered
           s == NoneSent
<1>1. \A b \in Box : l[b] = <<>> /\ radio[b] = <<>> /\ eth[b] = <<>>
  BY DEF Init, NoneNumbered
<1>2. Len(<<>>) = 0 /\ 1 .. Len(<<>>) = {}
  OBVIOUS
<1>3. sent = 0 /\ \A f \in Frame : ~ (f <= sent)
  BY DEF Init, Frame
<1>4. Buffer \in Nat /\ refused = {}
  BY BufferNat DEF Init
<1> HIDE DEF l, s
<1>5. RoomIn(radio) /\ RoomIn(eth)
  BY <1>1, <1>2, <1>4 DEF RoomIn
<1>6. FromOthers(h, radio) /\ Own(l, Served)
  BY <1>1, <1>2 DEF FromOthers, Own, In
<1>7. InTurn(l, Served) /\ AllOrderly(l, Served, radio)
  BY <1>1, <1>2 DEF InTurn, AllOrderly, Orderly
<1>8. HandsOn(h, l, Served, radio)
  BY <1>1, <1>2 DEF HandsOn
<1>9. Numbered1(l, s, sent) /\ Across(h, s, Served, eth, sent)
  BY <1>3 DEF Numbered1, Across
<1> QED BY <1>4, <1>5, <1>6, <1>7, <1>8, <1>9 DEF Flows, l, s

-----------------------------------------------------------------------------
(* Reading                                                                 *)

(* Before what a box is about to read, it has handled all there was.       *)
LEMMA AllBefore ==
  ASSUME NEW h, NEW l, NEW s, J(h, l, s), Flows(h, l, s), NEW b \in Box, radio[b] # <<>>
  PROVE  LET m == Head(radio[b]) IN
         /\ m \in Packet /\ m.originator \in Box /\ m.frame \in Frame /\ m.from \in Box
         /\ In(m, radio[b]) /\ h[m.originator] = h[b]
         /\ m.from # b /\ h[m.from] = h[b]
         /\ \E k \in Places(l, m) : \A j \in 1 .. k - 1 : Served[b][l[m.originator][j]] >= 1
<1> DEFINE q == radio[b]
           m == Head(radio[b])
<1>1. q \in Seq(Packet) /\ q # <<>>
  BY DEF J, Shape
<1>2. Len(q) \in Nat /\ Len(q) > 0 /\ m = q[1]
  BY <1>1, HeadTailProperties, EmptySeq, LenProperties
<1>3. m \in Packet /\ In(m, q)
  BY <1>1, Tailed
<1>4. m.originator \in Box /\ m.frame \in Frame /\ m.from \in Box
  BY <1>3 DEF Packet
<1>5. m.from # b /\ h[m.from] = h[b]
  BY <1>3 DEF Flows, FromOthers
<1>6. h[m.originator] = h[b] /\ Places(l, m) # {}
  BY <1>3 DEF J, OnAir
<1>7. PICK k \in Places(l, m) : TRUE
  BY <1>6
<1>8. Orderly(l, q, Served[b])
  BY DEF Flows, AllOrderly
<1>9. 1 \in 1 .. Len(q) /\ 1 .. 1 - 1 = {}
  BY <1>2
<1> HIDE DEF q, m
<1>10. \A j \in 1 .. k - 1 : Served[b][l[m.originator][j]] >= 1
  BY <1>2, <1>7, <1>8, <1>9 DEF Orderly
<1> QED BY <1>3, <1>4, <1>5, <1>6, <1>7, <1>10 DEF q, m

(* What is not new to a box it has handled.                                *)
LEMMA OldIsHandled ==
  ASSUME NEW h, NEW l, NEW s, J(h, l, s), Flows(h, l, s), FewFrames, NEW b \in Box,
         NEW m \in Packet, NEW k \in Places(l, m), ~ FirstOf(b, m), ~ LaterOf(b, m)
  PROVE  Served[b][m.frame] >= 1
<1> DEFINE o == m.originator
<1>1. o \in Box /\ k \in 1 .. Len(l[o]) /\ l[o][k] = m.frame /\ m.num = Nth(k)
  BY DEF Packet, Places
<1>2. /\ l \in [Box -> Seq(Frame)] /\ Numbers(l) /\ scenario \in Scenarios
      /\ \A c \in Box : Complete(c)
      /\ \A p \in Box \ {b} :
           LastNum(b, p) = None \/ \E j \in 1 .. Len(l[p]) : LastNum(b, p) = Nth(j)
  BY DEF J, Shape, Lasts
<1>3. CASE o = b
  BY <1>1, <1>3 DEF Flows, Own
<1>4. CASE o # b
  <2>1. o \in Known(b)
    BY <1>1, <1>2, <1>4 DEF Complete
  <2>2. LastNum(b, o) # None /\ ~ Newer(m.num, LastNum(b, o))
    BY <1>4, <2>1 DEF FirstOf, LaterOf
  <2>3. PICK j \in 1 .. Len(l[o]) : LastNum(b, o) = Nth(j)
    BY <1>1, <1>2, <1>4, <2>2
  <2>4. j \in 1 .. Frames /\ k \in 1 .. Frames
    BY <1>1, <1>2, <2>3, Lengths
  <2>5. ~ (j < k)
    BY <1>1, <1>2, <2>2, <2>3, <2>4, LaterIsNewer
  <2>6. k \in 1 .. j
    BY <2>4, <2>5
  <2>7. Served[b][l[o][k]] >= 1
    BY <1>1, <1>4, <2>3, <2>6 DEF Flows, InTurn
  <2> QED BY <1>1, <2>7
<1> QED BY <1>3, <1>4

LEMMA StillOrderly ==
  ASSUME NEW q \in Seq(Packet), NEW l, NEW g, NEW g2, Orderly(l, q, g),
         \A o \in Box : Len(l[o]) \in Nat,
         \A o \in Box : \A j \in 1 .. Len(l[o]) : g[l[o][j]] >= 1 => g2[l[o][j]] >= 1
  PROVE  Orderly(l, q, g2)
<1>1. \A i \in 1 .. Len(q) : q[i] \in Packet
  BY ElementOfSeq
<1>2. \A x \in Packet : x.originator \in Box
  BY DEF Packet
<1> SUFFICES ASSUME NEW i \in 1 .. Len(q), NEW k \in Places(l, q[i]), NEW j \in 1 .. k - 1
             PROVE  \/ g2[l[q[i].originator][j]] >= 1
                    \/ \E n \in 1 .. i - 1 :
                         q[n].originator = q[i].originator /\ j \in Places(l, q[n])
  BY DEF Orderly
<1>3. \/ g[l[q[i].originator][j]] >= 1
      \/ \E n \in 1 .. i - 1 : q[n].originator = q[i].originator /\ j \in Places(l, q[n])
  BY DEF Orderly
<1>4. q[i].originator \in Box
  BY <1>1, <1>2
<1>5. k \in 1 .. Len(l[q[i].originator])
  BY DEF Places
<1>6. j \in 1 .. Len(l[q[i].originator])
  BY <1>4, <1>5
<1> QED BY <1>3, <1>4, <1>6

(* One packet less to read, and it has been handled.                       *)
LEMMA ReadFlows ==
  ASSUME NEW h, NEW l, NEW s, J(h, l, s), Flows(h, l, s), NEW b \in Box, radio[b] # <<>>,
         NEW rd, rd = [radio EXCEPT ![b] = Tail(@)],
         NEW g, \A r \in Box : \A f \in Frame : Served[r][f] >= 1 => g[r][f] >= 1,
         g[b][Head(radio[b]).frame] >= 1
  PROVE  /\ rd \in [Box -> Seq(Packet)] /\ RoomIn(rd) /\ FromOthers(h, rd)
         /\ AllOrderly(l, g, rd)
         /\ \A r, o \in Box : \A k \in 1 .. Len(l[o]) :
              Pending(l, Served, radio, r, o, k) => Pending(l, g, rd, r, o, k)
<1>1. /\ radio \in [Box -> Seq(Packet)] /\ l \in [Box -> Seq(Frame)] /\ Numbers(l)
      /\ RoomIn(radio) /\ FromOthers(h, radio) /\ AllOrderly(l, Served, radio)
  BY DEF J, Shape, Flows
<1>2. \A o \in Box : \A k \in 1 .. Len(l[o]) : l[o][k] \in Frame
  BY <1>1, Lengths
<1>3. FirstRead(Packet, radio, b, rd)
  BY <1>1, ReadOff
<1>4. rd[b] = Tail(radio[b]) /\ \A r \in Box : r # b => rd[r] = radio[r]
  BY <1>1
<1>5. RoomIn(rd)
  <2>1. /\ radio[b] \in Seq(Packet) /\ Len(Tail(radio[b])) = Len(radio[b]) - 1
        /\ Len(radio[b]) \in Nat /\ Len(radio[b]) <= Buffer /\ Buffer \in Nat
    BY <1>1, BufferNat, HeadTailProperties, EmptySeq, LenProperties DEF RoomIn, J, Shape
  <2>2. Len(rd[b]) <= Buffer
    BY <1>4, <2>1
  <2> QED BY <1>1, <1>4, <2>2 DEF RoomIn
<1>6. FromOthers(h, rd)
  BY <1>1, <1>3 DEF FromOthers, FirstRead
<1>7. /\ Orderly(l, Tail(radio[b]), g[b])
      /\ \A o, k : Stands(l, radio[b], o, k) =>
              Stands(l, Tail(radio[b]), o, k) \/ g[b][l[o][k]] >= 1
  <2>1. radio[b] \in Seq(Packet) /\ Orderly(l, radio[b], Served[b])
    BY <1>1 DEF AllOrderly
  <2>2. \A o \in Box : \A j \in 1 .. Len(l[o]) : Served[b][l[o][j]] >= 1 => g[b][l[o][j]] >= 1
    BY <1>2
  <2>3. \A x \in Packet : x.originator \in Box
    BY DEF Packet
  <2> QED BY <2>1, <2>2, <2>3, TailOrderly
<1>8. ASSUME NEW r \in Box, r # b PROVE Orderly(l, rd[r], g[r])
  <2>1. Orderly(l, radio[r], Served[r]) /\ rd[r] = radio[r] /\ radio[r] \in Seq(Packet)
    BY <1>1, <1>4, <1>8 DEF AllOrderly
  <2>2. \A o \in Box : Len(l[o]) \in Nat
    BY <1>1, Lengths
  <2>3. \A o \in Box : \A j \in 1 .. Len(l[o]) : Served[r][l[o][j]] >= 1 => g[r][l[o][j]] >= 1
    BY <1>2
  <2>4. Orderly(l, radio[r], g[r])
    BY <2>1, <2>2, <2>3, StillOrderly
  <2> QED BY <2>1, <2>4
<1>9. AllOrderly(l, g, rd)
  BY <1>4, <1>7, <1>8 DEF AllOrderly
<1>10. ASSUME NEW r \in Box, NEW o \in Box, NEW k \in 1 .. Len(l[o]),
              Pending(l, Served, radio, r, o, k)
       PROVE  Pending(l, g, rd, r, o, k)
  BY <1>2, <1>4, <1>7, <1>10 DEF Pending
<1> QED BY <1>3, <1>5, <1>6, <1>9, <1>10 DEF FirstRead

-----------------------------------------------------------------------------
(* Handing on                                                              *)

LEMMA HandedFlows ==
  ASSUME NEW h, Parts(h), Spanned(h), scenario \in Scenarios,
         NEW l, NEW g, NEW rd \in [Box -> Seq(Packet)],
         RoomIn(rd), FromOthers(h, rd), AllOrderly(l, g, rd),
         NEW b \in Box, NEW x \in Packet, x.from = b, NEW rs \in SUBSET Hearers(b),
         Full(rd, rs) = 0, NEW p, p = Hear(rd, rs, x),
         NEW k \in Places(l, x), \A i \in Places(l, x) : i = k,
         \A r \in rs : \A j \in 1 .. k - 1 : Pending(l, g, rd, r, x.originator, j)
  PROVE  /\ p \in [Box -> Seq(Packet)] /\ RoomIn(p) /\ FromOthers(h, p)
         /\ AllOrderly(l, g, p)
         /\ \A r, o \in Box : \A j : Pending(l, g, rd, r, o, j) => Pending(l, g, p, r, o, j)
         /\ \A r \in rs : Pending(l, g, p, r, x.originator, k)
<1>1. rs \subseteq Box /\ \A r \in rs : r # b /\ h[b] = h[r]
  BY DEF Hearers, Parts, Together, Spanned, TreeOf
<1>2. /\ p = [r \in Box |-> IF r \in rs THEN Append(rd[r], x) ELSE rd[r]]
      /\ RoomIn(p)
  BY <1>1, HeardByAll
<1>3. \A r \in Box : rd[r] \in Seq(Packet) /\ Append(rd[r], x) \in Seq(Packet)
  BY AppendProperties
<1>4. p \in [Box -> Seq(Packet)]
  BY <1>2, <1>3
<1>5. FromOthers(h, p)
  <2> SUFFICES ASSUME NEW r \in Box, NEW m \in Packet, In(m, p[r])
               PROVE  m.from # r /\ h[m.from] = h[r]
    BY DEF FromOthers
  <2>1. In(m, rd[r]) \/ (r \in rs /\ m = x)
    BY <1>2, <1>3, Appended
  <2> QED BY <1>1, <2>1 DEF FromOthers
<1>6. ASSUME NEW r \in Box PROVE Orderly(l, p[r], g[r])
  <2>1. Orderly(l, rd[r], g[r])
    BY DEF AllOrderly
  <2>2. CASE r \notin rs
    BY <1>2, <2>1, <2>2
  <2>3. CASE r \in rs
    <3>1. \A i \in Places(l, x) : \A j \in 1 .. i - 1 :
            g[r][l[x.originator][j]] >= 1 \/ Stands(l, rd[r], x.originator, j)
      BY <2>3 DEF Pending
    <3>2. Orderly(l, Append(rd[r], x), g[r])
      BY <1>3, <2>1, <3>1, AppendedOrderly
    <3> QED BY <1>2, <2>3, <3>2
  <2> QED BY <2>2, <2>3
<1>7. \A r \in Box : \A o, j :
        Stands(l, p[r], o, j) <=> \/ Stands(l, rd[r], o, j)
                                  \/ r \in rs /\ x.originator = o /\ j \in Places(l, x)
  <2> SUFFICES ASSUME NEW r \in Box, NEW o, NEW j
               PROVE  Stands(l, p[r], o, j)
                        <=> \/ Stands(l, rd[r], o, j)
                            \/ r \in rs /\ x.originator = o /\ j \in Places(l, x)
    OBVIOUS
  <2>1. CASE r \notin rs
    BY <1>2, <2>1
  <2>2. CASE r \in rs
    <3>1. p[r] = Append(rd[r], x)
      BY <1>2, <2>2
    <3>2. Stands(l, Append(rd[r], x), o, j)
           <=> Stands(l, rd[r], o, j) \/ (x.originator = o /\ j \in Places(l, x))
      BY <1>3, AppendedStands
    <3> QED BY <2>2, <3>1, <3>2
  <2> QED BY <2>1, <2>2
<1>8. \A r, o \in Box : \A j : Pending(l, g, rd, r, o, j) => Pending(l, g, p, r, o, j)
  BY <1>7 DEF Pending
<1>9. \A r \in rs : Pending(l, g, p, r, x.originator, k)
  BY <1>1, <1>7 DEF Pending
<1> QED BY <1>2, <1>4, <1>5, <1>6, <1>8, <1>9 DEF AllOrderly

(* Who gets what box b hands on, over the radio and over the Ethernet.     *)
OnRadio(b, local, c) == IF ForAir(b, local, c) # {} THEN Hearers(b) ELSE {}
OnWires(b, fromEth) == IF PutsOnEth(b, fromEth) THEN scenario.wired \ {b} ELSE {}

(* Box b hands frame f on; et is what is left on the Ethernet.             *)
HandedOver(h, s, s2, n, n2, b, f, fromEth, et, e2, g) ==
  /\ f \in Frame /\ fromEth \in BOOLEAN
  /\ et \in [Box -> Seq(Frame)] /\ RoomIn(et)
  /\ Full(et, OnWires(b, fromEth)) = 0 /\ e2 = Hear(et, OnWires(b, fromEth), f)
  /\ \A c \in Box : \A u \in Frame : ~ (c = b /\ u = f) => g[c][u] = Served[c][u]
  /\ g[b][f] >= 1
  /\ \A w \in Box : \A u \in Frame :
       In(u, eth[w]) => In(u, et[w]) \/ (w = b /\ u = f)
  /\ \A u \in Frame : u # f => (u <= n2 => u <= n /\ s2[u] = s[u])
  /\ ~ PutsOnEth(b, fromEth) => \A w \in scenario.wired \ {b} :
       f <= n2 /\ OnEthBy(h, s2, g, f, w) => f <= n /\ OnEthBy(h, s, Served, f, w)

LEMMA AcrossKept ==
  ASSUME NEW h, NEW s, NEW s2, NEW n, NEW n2, Across(h, s, Served, eth, n),
         scenario \in Scenarios, NEW b \in Box, NEW f, NEW fromEth, NEW et, NEW e2, NEW g,
         HandedOver(h, s, s2, n, n2, b, f, fromEth, et, e2, g)
  PROVE  RoomIn(e2) /\ Across(h, s2, g, e2, n2)
<1>h. /\ f \in Frame /\ fromEth \in BOOLEAN
      /\ et \in [Box -> Seq(Frame)] /\ RoomIn(et)
      /\ Full(et, OnWires(b, fromEth)) = 0 /\ e2 = Hear(et, OnWires(b, fromEth), f)
      /\ \A c \in Box : \A u \in Frame : ~ (c = b /\ u = f) => g[c][u] = Served[c][u]
      /\ g[b][f] >= 1
      /\ \A w \in Box : \A u \in Frame :
           In(u, eth[w]) => In(u, et[w]) \/ (w = b /\ u = f)
      /\ \A u \in Frame : u # f => (u <= n2 => u <= n /\ s2[u] = s[u])
      /\ ~ PutsOnEth(b, fromEth) => \A w \in scenario.wired \ {b} :
           f <= n2 /\ OnEthBy(h, s2, g, f, w) => f <= n /\ OnEthBy(h, s, Served, f, w)
  BY DEF HandedOver
<1> USE <1>h
<1>0. PICK es : es = OnWires(b, fromEth)
  OBVIOUS
<1>1. /\ scenario.wired \subseteq Box /\ es \subseteq Box
      /\ es = IF PutsOnEth(b, fromEth) THEN scenario.wired \ {b} ELSE {}
  BY <1>0, FirstNum DEF OnWires
<1>2. /\ e2 = [r \in Box |-> IF r \in es THEN Append(et[r], f) ELSE et[r]]
      /\ RoomIn(e2)
  <2>1. /\ et \in [Box -> Seq(Frame)] /\ RoomIn(et) /\ Full(et, es) = 0 /\ f \in Frame
        /\ es \subseteq Box /\ e2 = Hear(et, es, f)
    BY <1>0, <1>1
  <2>2. /\ Hear(et, es, f) = [r \in Box |-> IF r \in es THEN Append(et[r], f) ELSE et[r]]
        /\ RoomIn(Hear(et, es, f))
    BY ONLY <2>1, scenario \in Scenarios, ConstAssumption, HeardByAll
  <2> QED BY <2>1, <2>2
<1>3. \A r \in Box : et[r] \in Seq(Frame)
  OBVIOUS
<1>4. \A r \in Box : \A u : In(u, e2[r]) <=> In(u, et[r]) \/ (r \in es /\ u = f)
  <2>1. f \in Frame
    BY <1>h
  <2>2. \A r \in Box : \A u : In(u, Append(et[r], f)) <=> In(u, et[r]) \/ u = f
    BY ONLY <1>3, <2>1, Appended
  <2> QED BY <1>2, <2>2
<1>5. ASSUME NEW u \in Frame, NEW w \in scenario.wired, u <= n2, OnEthBy(h, s2, g, u, w)
      PROVE  g[w][u] >= 1 \/ In(u, e2[w])
  <2>1. CASE u # f
    <3>1. u <= n /\ s2[u] = s[u]
      BY <1>5, <2>1
    <3>2. OnEthBy(h, s, Served, u, w)
      BY <1>1, <1>5, <2>1, <3>1 DEF OnEthBy
    <3>3. Served[w][u] >= 1 \/ In(u, eth[w])
      BY <3>1, <3>2 DEF Across
    <3> QED BY <1>1, <1>4, <2>1, <3>3
  <2>2. CASE u = f /\ w = b
    BY <2>2
  <2>3. CASE u = f /\ w # b /\ PutsOnEth(b, fromEth)
    BY <1>1, <1>4, <2>3
  <2>4. CASE u = f /\ w # b /\ ~ PutsOnEth(b, fromEth)
    <3>1. f <= n /\ OnEthBy(h, s, Served, f, w)
      BY <1>5, <2>4
    <3>2. Served[w][f] >= 1 \/ In(f, eth[w])
      BY <3>1 DEF Across
    <3> QED BY <1>1, <1>4, <2>4, <3>2
  <2> QED BY <2>1, <2>2, <2>3, <2>4
<1> QED BY <1>2, <1>5 DEF Across

LEMMA FlowsNext ==
  ASSUME scenario' = scenario, NEW h, NEW l, NEW s, Spanned(h), RoomIn(radio'), RoomIn(eth'),
         refused' \subseteq 1 .. sent',
         FromOthers(h, radio'), Own(l, Served'), Numbered1(l, s, sent'), InTurn(l, Served)',
         AllOrderly(l, Served', radio'), HandsOn(h, l, Served', radio'),
         Across(h, s, Served', eth', sent')
  PROVE  Flows(h, l, s)'
<1>1. \A k : Nth(k)' = Nth(k)
  BY DEF Nth
<1>2. \A m : Places(l, m)' = Places(l, m)
  BY <1>1 DEF Places
<1>3. /\ \A b : AirNbrs(b)' = AirNbrs(b) /\ Hearers(b)' = Hearers(b)
      /\ Spanned(h)'
  BY DEF AirNbrs, Hearers, Toward, OnEth, Wired, Spanned
<1>4. RoomIn(radio)' /\ RoomIn(eth)' /\ FromOthers(h, radio)' /\ Own(l, Served)'
      /\ Numbered1(l, s, sent)' /\ (refused \subseteq 1 .. sent)'
  BY DEF RoomIn, Buffer, FromOthers, Own, Numbered1
<1>5. AllOrderly(l, Served, radio)'
  BY <1>2 DEF AllOrderly, Orderly
<1>6. \A q, o, k : Stands(l, q, o, k)' <=> Stands(l, q, o, k)
  BY <1>2 DEF Stands
<1>7. HandsOn(h, l, Served, radio)'
  <2>1. \A b, o : HandsTo(b, o)' <=> HandsTo(b, o)
    BY <1>3 DEF HandsTo
  <2>2. \A r, o, k : Pending(l, Served, radio, r, o, k)' <=> Pending(l, Served', radio', r, o, k)
    BY <1>2 DEF Pending, Stands
  <2> QED BY <1>3, <2>1, <2>2 DEF HandsOn
<1>8. Across(h, s, Served, eth, sent)'
  BY DEF Across, OnEthBy
<1> QED BY <1>3, <1>4, <1>5, <1>7, <1>8 DEF Flows

LEMMA NothingLost ==
  ASSUME scenario \in Scenarios, gaps = 0, got \in Tally, refused' = refused,
         NEW b \in Box, NEW m \in Packet, NEW local \in BOOLEAN, NEW c, NEW fromEth \in BOOLEAN,
         NEW rd, NEW et,
         Forward(b, m, local, c, fromEth, rd, et), lost' = 0
  PROVE  /\ radio' = Hear(rd, OnRadio(b, local, c), [m EXCEPT !.from = b])
         /\ Full(rd, OnRadio(b, local, c)) = 0
         /\ eth' = Hear(et, OnWires(b, fromEth), m.frame)
         /\ Full(et, OnWires(b, fromEth)) = 0
         /\ \A d \in Box : \A f \in Frame : ~ (d = b /\ f = m.frame) => Served'[d][f] = Served[d][f]
         /\ Served'[b][m.frame] >= 1
<1> DEFINE rs == OnRadio(b, local, c)
           es == OnWires(b, fromEth)
<1>1. /\ radio' = Hear(rd, rs, [m EXCEPT !.from = b])
      /\ eth' = Hear(et, es, m.frame)
      /\ lost' = IF Full(rd, rs) + Full(et, es) > 0 THEN 1 ELSE lost
      /\ got' = [got EXCEPT ![b][m.originator][m.frame] = Twice(@)]
  BY DEF Forward, OnRadio, OnWires
<1>2. rs \subseteq Box /\ es \subseteq Box
  BY FirstNum DEF Hearers, OnRadio, OnWires
<1> HIDE DEF rs, es
<1>3. ASSUME NEW q, NEW T, T \subseteq Box PROVE Full(q, T) \in Nat
  <2> DEFINE U == {r \in T : Len(q[r]) = Buffer}
  <2>1. IsFiniteSet(U)
    BY <1>3, ConstAssumption, FS_Subset DEF ConstAssumption
  <2> HIDE DEF U
  <2>2. Cardinality(U) \in Nat
    BY <2>1, FS_CardinalityType
  <2> QED BY <2>2 DEF Full, U
<1>4. Full(rd, rs) \in Nat /\ Full(et, es) \in Nat
  BY <1>2, <1>3
<1>5. ~ (Full(rd, rs) + Full(et, es) > 0)
  BY <1>1
<1>6. Full(rd, rs) = 0 /\ Full(et, es) = 0
  BY <1>4, <1>5
<1>7. m.frame \in Frame /\ m.originator \in Box
  BY DEF Packet
<1>8. PICK o, u : o = m.originator /\ u = m.frame
  OBVIOUS
<1>9. o \in Box /\ u \in Frame /\ Counts(b, o, u)
  BY <1>1, <1>7, <1>8 DEF Counts
<1>10. /\ \A d \in Box : \A f \in Frame : ~ (d = b /\ f = u) => Served'[d][f] = Served[d][f]
       /\ Served'[b][u] >= 1
  BY <1>9, CountedServed
<1> QED BY <1>1, <1>6, <1>8, <1>10 DEF rs, es

LEMMA SamePlaces ==
  ASSUME NEW l, NEW m, NEW x, x.originator = m.originator, x.num = m.num, x.frame = m.frame
  PROVE  Places(l, x) = Places(l, m)
BY DEF Places

LEMMA OnePlace ==
  ASSUME NEW l, l \in [Box -> Seq(Frame)], Numbers(l), NEW m \in Packet,
         NEW k \in Places(l, m), NEW j \in Places(l, m)
  PROVE  j = k
<1>1. m.originator \in Box
  BY DEF Packet
<1> QED BY <1>1 DEF Places, Numbers, Distinct

(* A box that marks a number has handled what was numbered before.         *)
LEMMA MarkedInTurn ==
  ASSUME scenario \in Scenarios, scenario' = scenario, FewFrames,
         NEW l, l \in [Box -> Seq(Frame)], Numbers(l), NEW b \in Box, NEW m \in Packet,
         FirstOf(b, m) \/ LaterOf(b, m), beacons \in [Box -> Seq(Beacon)],
         \A c \in Box : Complete(c), beacons' = Marked(b, m), InTurn(l, Served),
         NEW k \in Places(l, m), \A j \in 1 .. k - 1 : Served[b][l[m.originator][j]] >= 1,
         \A r \in Box : \A u \in Frame : Served[r][u] >= 1 => Served'[r][u] >= 1,
         Served'[b][m.frame] >= 1
  PROVE  InTurn(l, Served)'
<1> DEFINE o == m.originator
<1>1. /\ o \in Box /\ o # b /\ m.num = Nth(k) /\ k \in 1 .. Len(l[o])
      /\ l[o][k] = m.frame
  BY DEF Packet, Places, FirstOf, LaterOf
<1>2. \A c \in Box : \A p \in Box \ {c} :
        LastNum(c, p)' = IF c = b /\ p = o THEN m.num ELSE LastNum(c, p)
  BY MarkedLast
<1>3. \A i : Nth(i)' = Nth(i)
  BY DEF Nth
<1>4. \A p \in Box : Len(l[p]) \in Nat /\ \A i \in 1 .. Len(l[p]) : l[p][i] \in Frame
  BY Lengths
<1> SUFFICES ASSUME NEW c \in Box, NEW p \in Box \ {c}, NEW j \in 1 .. Len(l[p]),
                    LastNum(c, p)' = Nth(j), NEW i \in 1 .. j
             PROVE  Served'[c][l[p][i]] >= 1
  BY <1>3 DEF InTurn
<1>5. i \in 1 .. Len(l[p]) /\ l[p][i] \in Frame
  BY <1>4
<1>6. CASE c = b /\ p = o
  <2>1. Nth(j) = Nth(k)
    BY <1>1, <1>2, <1>6
  <2>2. j \in 1 .. Frames /\ k \in 1 .. Frames
    BY <1>1, <1>6, Lengths
  <2>3. j = k
    BY <2>1, <2>2, LaterIsNewer
  <2>4. i = k \/ i \in 1 .. k - 1
    BY <2>2, <2>3
  <2>5. CASE i = k
    BY <1>1, <1>6, <2>5
  <2>6. CASE i \in 1 .. k - 1
    BY <1>5, <1>6, <2>6
  <2> QED BY <2>4, <2>5, <2>6
<1>7. CASE ~ (c = b /\ p = o)
  <2>1. LastNum(c, p) = Nth(j)
    BY <1>2, <1>7
  <2>2. Served[c][l[p][i]] >= 1
    BY <2>1 DEF InTurn
  <2> QED BY <1>5, <2>2
<1> QED BY <1>6, <1>7

(* A packet new to box b is handed on.                                     *)
LEMMA NewReadFlows ==
  ASSUME NEW h, NEW l, NEW s, J(h, l, s), Flows(h, l, s), FewFrames, NEW b \in Box,
         radio[b] # <<>>, NEW m, m = Head(radio[b]), FirstOf(b, m) \/ LaterOf(b, m),
         NEW rd, rd = [radio EXCEPT ![b] = Tail(@)],
         beacons' = Marked(b, m), Forward(b, m, FALSE, m.from, FALSE, rd, eth),
         UNCHANGED <<scenario, sent, number, refused>>, lost' = 0
  PROVE  Flows(h, l, s)'
<1> DEFINE o == m.originator
           f == m.frame
           x == [m EXCEPT !.from = b]
           n == m.from
           no == FALSE
<1>a. PICK rs : rs = OnRadio(b, no, n)
  OBVIOUS
<1>b. PICK es : es = OnWires(b, no)
  OBVIOUS
<1>1. /\ Parts(h) /\ Spanned(h) /\ scenario \in Scenarios /\ l \in [Box -> Seq(Frame)]
      /\ Numbers(l) /\ gaps = 0 /\ got \in Tally /\ eth \in [Box -> Seq(Frame)]
      /\ RoomIn(eth) /\ Complete(b) /\ scenario.wired \subseteq Box
      /\ beacons \in [Box -> Seq(Beacon)] /\ \A c \in Box : Complete(c)
  BY FirstNum DEF J, Shape, Flows, Lasts
<1>2. /\ m \in Packet /\ o \in Box /\ f \in Frame /\ n \in Box /\ In(m, radio[b])
      /\ h[o] = h[b] /\ n # b /\ h[n] = h[b]
      /\ \E k \in Places(l, m) : \A j \in 1 .. k - 1 : Served[b][l[o][j]] >= 1
  BY AllBefore
<1>3. PICK k \in Places(l, m) : \A j \in 1 .. k - 1 : Served[b][l[o][j]] >= 1
  BY <1>2
<1>4. /\ o # b
      /\ k \in 1 .. Len(l[o]) /\ l[o][k] = f /\ m.num = Nth(k)
  <2>1. m \in Packet /\ h[m.originator] = h[b] /\ k \in Places(l, m)
    BY <1>2
  <2>2. m.originator # b
    BY <2>1, NewFrame
  <2> QED BY <2>2 DEF Places
<1>5. /\ radio' = Hear(rd, rs, x) /\ Full(rd, rs) = 0
      /\ eth' = Hear(eth, es, f) /\ Full(eth, es) = 0
      /\ \A d \in Box : \A u \in Frame : ~ (d = b /\ u = f) => Served'[d][u] = Served[d][u]
      /\ Served'[b][f] >= 1
  <2>1. no \in BOOLEAN /\ Forward(b, m, no, n, no, rd, eth)
    OBVIOUS
  <2> HIDE DEF no, n
  <2>2. /\ m \in Packet /\ lost' = 0 /\ scenario \in Scenarios
        /\ gaps = 0 /\ got \in Tally /\ refused' = refused
        /\ rs = OnRadio(b, no, n) /\ es = OnWires(b, no)
    BY <1>a, <1>b, <1>1, <1>2
  <2> QED BY ONLY <2>1, <2>2, b \in Box, NothingLost
<1>6. /\ x \in Packet /\ x.from = b /\ x.originator = o /\ x.num = m.num /\ x.frame = f
      /\ Places(l, x) = Places(l, m)
  <2>1. x \in Packet /\ x.from = b /\ x.originator = o /\ x.num = m.num /\ x.frame = f
    BY <1>2 DEF Packet
  <2> HIDE DEF x
  <2> QED BY <2>1, SamePlaces
<1>7. \A r \in Box : \A u \in Frame : Served[r][u] >= 1 => Served'[r][u] >= 1
  BY <1>5
<1>8. /\ rd \in [Box -> Seq(Packet)] /\ RoomIn(rd) /\ FromOthers(h, rd)
      /\ AllOrderly(l, Served', rd)
      /\ \A r, p \in Box : \A i \in 1 .. Len(l[p]) :
           Pending(l, Served, radio, r, p, i) => Pending(l, Served', rd, r, p, i)
  BY <1>5, <1>7, ReadFlows
<1> HIDE DEF x, no
<1>9. rs \in SUBSET Hearers(b)
  BY <1>a DEF OnRadio
<1>10. rs # {} => HandsTo(b, o)
  <2>1. rs # {} => ForAir(b, FALSE, n) # {}
    BY <1>a DEF no, OnRadio
  <2> QED BY <1>1, <1>2, <1>4, <2>1, OnlyTwoNeighbors DEF HandsTo
<1>11. \A p \in Box : Len(l[p]) \in Nat /\ \A i \in 1 .. Len(l[p]) : l[p][i] \in Frame
  BY <1>1, Lengths
<1>12. \A j \in 1 .. k - 1 : j \in 1 .. Len(l[o])
  <2>1. Len(l[o]) \in Nat
    BY <1>2, <1>11
  <2> QED BY <1>4, <2>1
<1>13. \A r \in rs : \A j \in 1 .. k - 1 : Pending(l, Served', rd, r, o, j)
  <2> SUFFICES ASSUME NEW r \in rs, NEW j \in 1 .. k - 1
               PROVE  Pending(l, Served', rd, r, o, j)
    OBVIOUS
  <2>1. r \in Hearers(b) /\ r \in Box /\ j \in 1 .. Len(l[o]) /\ HandsTo(b, o)
    BY <1>9, <1>10, <1>12 DEF Hearers
  <2>2. Served[b][l[o][j]] >= 1
    BY <1>3
  <2>3. Pending(l, Served, radio, r, o, j)
    BY <1>2, <2>1, <2>2 DEF Flows, HandsOn
  <2> QED BY <1>2, <1>8, <2>1, <2>3
<1>14. \A i \in Places(l, x) : i = k
  BY <1>1, <1>2, <1>6, OnePlace
<1>15. /\ radio' \in [Box -> Seq(Packet)] /\ RoomIn(radio') /\ FromOthers(h, radio')
       /\ AllOrderly(l, Served', radio')
       /\ \A r, p \in Box : \A j :
            Pending(l, Served', rd, r, p, j) => Pending(l, Served', radio', r, p, j)
       /\ \A r \in rs : Pending(l, Served', radio', r, o, k)
  <2>1. k \in Places(l, x) /\ \A r \in rs : \A j \in 1 .. k - 1 :
                                 Pending(l, Served', rd, r, x.originator, j)
    BY <1>6, <1>13
  <2>2. /\ rd \in [Box -> Seq(Packet)] /\ RoomIn(rd) /\ FromOthers(h, rd)
        /\ AllOrderly(l, Served', rd) /\ x \in Packet /\ x.from = b /\ rs \in SUBSET Hearers(b)
        /\ Full(rd, rs) = 0 /\ radio' = Hear(rd, rs, x)
        /\ Parts(h) /\ Spanned(h) /\ scenario \in Scenarios
    BY <1>1, <1>5, <1>6, <1>8, <1>9
  <2>3. /\ radio' \in [Box -> Seq(Packet)] /\ RoomIn(radio') /\ FromOthers(h, radio')
        /\ AllOrderly(l, Served', radio')
        /\ \A r, p \in Box : \A j :
             Pending(l, Served', rd, r, p, j) => Pending(l, Served', radio', r, p, j)
        /\ \A r \in rs : Pending(l, Served', radio', r, x.originator, k)
    BY ONLY <1>14, <2>1, <2>2, ConstAssumption, b \in Box, HandedFlows
  <2> QED BY <1>6, <2>3
<1>16. \A c \in Box : \A p \in Box \ {c} :
         LastNum(c, p)' = IF c = b /\ p = o THEN m.num ELSE LastNum(c, p)
  BY <1>1, <1>2, <1>4, MarkedLast
<1>17. Own(l, Served')
  BY <1>7, <1>11 DEF Flows, Own
<1>19. InTurn(l, Served)'
  <2>1. InTurn(l, Served) /\ m \in Packet /\ h[m.originator] = h[b]
    BY <1>2 DEF Flows
  <2> QED BY <1>1, <1>3, <1>5, <1>7, <2>1, MarkedInTurn
<1>20. HandsOn(h, l, Served', radio')
  <2> SUFFICES ASSUME NEW p \in Box, NEW c \in Box, NEW i \in 1 .. Len(l[p]), NEW r \in Hearers(c),
                      h[c] = h[p], HandsTo(c, p), Served'[c][l[p][i]] >= 1
               PROVE  Pending(l, Served', radio', r, p, i)
    BY DEF HandsOn
  <2>1. r \in Box /\ l[p][i] \in Frame
    BY <1>11 DEF Hearers
  <2>2. CASE ~ (c = b /\ l[p][i] = f)
    <3>1. Served[c][l[p][i]] >= 1
      BY <1>5, <2>1, <2>2
    <3>2. Pending(l, Served, radio, r, p, i)
      BY <3>1 DEF Flows, HandsOn
    <3> QED BY <1>8, <1>15, <2>1, <3>2
  <2>3. CASE c = b /\ l[p][i] = f
    <3>1. In(f, l[p]) /\ In(f, l[o])
      BY <1>4, <2>3 DEF In
    <3>2. p = o
      BY <1>2, <2>3, <3>1, OneOriginator
    <3>3. i = k
      <4>1. Distinct(l[o]) /\ i \in 1 .. Len(l[o]) /\ l[o][i] = l[o][k]
        BY <1>1, <1>2, <1>4, <2>3, <3>2 DEF Numbers
      <4> QED BY <1>4, <4>1 DEF Distinct
    <3>4. ForAir(b, FALSE, n) # {}
      <4>1. PICK n1 \in AirNbrs(b), n2 \in AirNbrs(b) : n1 # n2
        BY <1>4, <2>3, <3>2 DEF HandsTo
      <4> HIDE DEF n
      <4> QED BY <1>1, <1>2, <4>1, TwoNeighbors
    <3>5. r \in rs
      BY <1>a, <2>3, <3>4 DEF no, OnRadio
    <3> QED BY <1>15, <3>2, <3>3, <3>5
  <2> QED BY <2>2, <2>3
<1>21. RoomIn(eth') /\ Across(h, s, Served', eth', sent)
  <2>1. \A w \in Box : \A u \in Frame : In(u, eth[w]) => In(u, eth[w]) \/ (w = b /\ u = f)
    OBVIOUS
  <2>2. \A u \in Frame : u # f => (u <= sent => u <= sent /\ s[u] = s[u])
    OBVIOUS
  <2>3. ~ PutsOnEth(b, no) => \A w \in scenario.wired \ {b} :
           f <= sent /\ OnEthBy(h, s, Served', f, w) => f <= sent /\ OnEthBy(h, s, Served, f, w)
    <3>1. ~ PutsOnEth(b, no) => \A v \in scenario.wired : v # b /\ v \in Box
      BY <1>1 DEF PutsOnEth, Wired, no
    <3>2. ~ PutsOnEth(b, no) => \A v \in scenario.wired : Served'[v][f] = Served[v][f]
      BY <1>2, <1>5, <3>1
    <3> QED BY <3>2 DEF OnEthBy
  <2>4. Across(h, s, Served, eth, sent)
    BY DEF Flows
  <2>5. /\ f \in Frame
        /\ RoomIn(eth) /\ eth \in [Box -> Seq(Frame)] /\ scenario \in Scenarios
        /\ Full(eth, OnWires(b, no)) = 0 /\ eth' = Hear(eth, OnWires(b, no), f)
        /\ \A d \in Box : \A u \in Frame : ~ (d = b /\ u = f) => Served'[d][u] = Served[d][u]
        /\ Served'[b][f] >= 1 /\ no \in BOOLEAN
    BY <1>b, <1>1, <1>2, <1>5 DEF no
  <2>6. HandedOver(h, s, s, sent, sent, b, f, no, eth, eth', Served')
    BY <2>1, <2>2, <2>3, <2>5 DEF HandedOver
  <2> HIDE DEF f
  <2> QED BY <1>1, <2>4, <2>6, AcrossKept
<1>22. /\ Numbered1(l, s, sent') /\ Across(h, s, Served', eth', sent') /\ scenario' = scenario
       /\ refused' \subseteq 1 .. sent'
  BY <1>21 DEF Flows
<1> QED BY <1>1, <1>15, <1>17, <1>19, <1>20, <1>21, <1>22, FlowsNext

(* One that box b refuses nobody need wait for any more.                   *)
LEMMA RefusedFlows ==
  ASSUME NEW h, NEW l, NEW s, J(h, l, s), Flows(h, l, s), FewFrames, NEW b \in Box,
         radio[b] # <<>>, NEW m, m = Head(radio[b]), LaterOf(b, m),
         NEW rd, rd = [radio EXCEPT ![b] = Tail(@)],
         beacons' = Marked(b, m), radio' = rd, refused' = refused \cup {m.frame},
         UNCHANGED <<scenario, sent, number, eth, got>>
  PROVE  Flows(h, l, s)'
<1> DEFINE o == m.originator
           f == m.frame
<1>1. /\ Spanned(h) /\ scenario \in Scenarios /\ l \in [Box -> Seq(Frame)]
      /\ Numbers(l) /\ RoomIn(eth) /\ scenario.wired \subseteq Box
      /\ beacons \in [Box -> Seq(Beacon)] /\ \A c \in Box : Complete(c)
      /\ HandsOn(h, l, Served, radio) /\ Own(l, Served) /\ InTurn(l, Served)
      /\ Numbered1(l, s, sent) /\ Across(h, s, Served, eth, sent)
      /\ refused \subseteq 1 .. sent
  BY FirstNum DEF J, Shape, Flows, Lasts
<1>2. /\ m \in Packet /\ o \in Box /\ f \in Frame /\ h[o] = h[b]
      /\ \E k \in Places(l, m) : \A j \in 1 .. k - 1 : Served[b][l[o][j]] >= 1
  BY AllBefore
<1>3. PICK k \in Places(l, m) : \A j \in 1 .. k - 1 : Served[b][l[o][j]] >= 1
  BY <1>2
<1>4. /\ \A r \in Box : Served'[r][f] = 1
      /\ \A r \in Box : \A u \in Frame : u # f => Served'[r][u] = Served[r][u]
  <2>1. Seen' = Seen
    BY SeenSame
  <2> QED BY <1>2, <2>1, ServedTimes, ServedTimesNext
<1>5. \A r \in Box : \A u \in Frame : Served[r][u] >= 1 => Served'[r][u] >= 1
  BY <1>4
<1>6. /\ rd \in [Box -> Seq(Packet)] /\ RoomIn(rd) /\ FromOthers(h, rd)
      /\ AllOrderly(l, Served', rd)
      /\ \A r, p \in Box : \A i \in 1 .. Len(l[p]) :
           Pending(l, Served, radio, r, p, i) => Pending(l, Served', rd, r, p, i)
  <2>1. Served'[b][Head(radio[b]).frame] >= 1
    BY <1>4
  <2> QED BY <1>5, <2>1, ReadFlows
<1>7. \A p \in Box : Len(l[p]) \in Nat /\ \A i \in 1 .. Len(l[p]) : l[p][i] \in Frame
  BY <1>1, Lengths
<1>8. Own(l, Served')
  BY <1>1, <1>5, <1>7 DEF Own
<1>9. InTurn(l, Served)'
  <2>1. Served'[b][m.frame] >= 1
    BY <1>4
  <2> QED BY <1>1, <1>2, <1>3, <1>5, <2>1, MarkedInTurn
<1>10. HandsOn(h, l, Served', rd)
  <2> SUFFICES ASSUME NEW p \in Box, NEW c \in Box, NEW i \in 1 .. Len(l[p]), NEW r \in Hearers(c),
                      h[c] = h[p], HandsTo(c, p), Served'[c][l[p][i]] >= 1
               PROVE  Pending(l, Served', rd, r, p, i)
    BY DEF HandsOn
  <2>1. r \in Box /\ l[p][i] \in Frame
    BY <1>7 DEF Hearers
  <2>2. CASE l[p][i] = f
    <3>1. Served'[r][l[p][i]] >= 1
      BY <1>4, <2>1, <2>2
    <3> QED BY <3>1 DEF Pending
  <2>3. CASE l[p][i] # f
    <3>1. Served[c][l[p][i]] >= 1
      BY <1>4, <2>1, <2>3
    <3>2. Pending(l, Served, radio, r, p, i)
      BY <1>1, <3>1 DEF HandsOn
    <3> QED BY <1>6, <2>1, <3>2
  <2> QED BY <2>2, <2>3
<1>11. Across(h, s, Served', eth, sent)
  <2> SUFFICES ASSUME NEW u \in Frame, NEW w \in scenario.wired,
                      u <= sent, OnEthBy(h, s, Served', u, w)
               PROVE  Served'[w][u] >= 1 \/ In(u, eth[w])
    BY DEF Across
  <2>1. w \in Box
    BY <1>1
  <2>2. CASE u = f
    BY <1>4, <2>1, <2>2
  <2>3. CASE u # f
    <3>1. OnEthBy(h, s, Served, u, w)
      BY <1>1, <1>4, <2>3 DEF OnEthBy
    <3>2. Served[w][u] >= 1 \/ In(u, eth[w])
      BY <1>1, <3>1 DEF Across
    <3> QED BY <1>4, <2>1, <2>3, <3>2
  <2> QED BY <2>2, <2>3
<1>12. f <= sent
  <2>1. In(f, l[o])
    BY <1>3 DEF Places, In
  <2> QED BY <1>2, <2>1 DEF J, Numbering
<1>13. refused' \subseteq 1 .. sent'
  <2>1. f \in 1 .. sent
    BY <1>2, <1>12 DEF Frame, J, Shape
  <2> QED BY <1>1, <2>1
<1> QED BY <1>1, <1>6, <1>8, <1>9, <1>10, <1>11, <1>13, FlowsNext

LEMMA ReadRadioFlows ==
  ASSUME NEW h, NEW l, NEW s, J(h, l, s), Flows(h, l, s), FewFrames, NEW b \in Box,
         ReadRadio(b), lost' = 0
  PROVE  Flows(h, l, s)'
<1>1. PICK m \in Packet, rd \in [Box -> Seq(Packet)] :
        /\ m = Head(radio[b]) /\ rd = [radio EXCEPT ![b] = Tail(@)] /\ radio[b] # <<>>
        /\ UNCHANGED <<scenario, sent, number, gaps>>
        /\ \/ /\ FirstOf(b, m) \/ LaterOf(b, m)
              /\ beacons' = Marked(b, m)
              /\ Forward(b, m, FALSE, m.from, FALSE, rd, eth) /\ refused' = refused
           \/ /\ LaterOf(b, m) /\ beacons' = Marked(b, m)
              /\ radio' = rd /\ UNCHANGED <<eth, got>> /\ refused' = refused \cup {m.frame}
           \/ /\ ~ FirstOf(b, m) /\ ~ LaterOf(b, m)
              /\ radio' = rd /\ UNCHANGED <<beacons, eth, got, refused>>
  <2>1. radio \in [Box -> Seq(Packet)] /\ gaps = 0
    BY DEF J, Shape
  <2> QED BY <2>1, ReadOnce
<1>2. CASE /\ FirstOf(b, m) \/ LaterOf(b, m)
           /\ beacons' = Marked(b, m)
           /\ Forward(b, m, FALSE, m.from, FALSE, rd, eth) /\ refused' = refused
  BY <1>1, <1>2, NewReadFlows
<1>3. CASE /\ LaterOf(b, m) /\ beacons' = Marked(b, m)
           /\ radio' = rd /\ UNCHANGED <<eth, got>> /\ refused' = refused \cup {m.frame}
  BY <1>1, <1>3, RefusedFlows
<1>4. CASE /\ ~ FirstOf(b, m) /\ ~ LaterOf(b, m)
           /\ radio' = rd /\ UNCHANGED <<beacons, eth, got, refused>>
  <2>1. \E k \in Places(l, m) : TRUE
    BY <1>1, AllBefore
  <2>2. Served[b][Head(radio[b]).frame] >= 1
    BY <1>1, <1>4, <2>1, OldIsHandled
  <2>3. \A r \in Box : \A u \in Frame : Served[r][u] >= 1 => Served[r][u] >= 1
    OBVIOUS
  <2>4. /\ RoomIn(rd) /\ FromOthers(h, rd) /\ AllOrderly(l, Served, rd)
        /\ \A r, p \in Box : \A i \in 1 .. Len(l[p]) :
             Pending(l, Served, radio, r, p, i) => Pending(l, Served, rd, r, p, i)
    BY <1>1, <2>2, <2>3, ReadFlows
  <2>5. HandsOn(h, l, Served, rd)
    <3>1. \A c : \A r \in Hearers(c) : r \in Box
      BY DEF Hearers
    <3> QED BY <2>4, <3>1 DEF Flows, HandsOn
  <2>6. radio' = rd /\ Served' = Served /\ eth' = eth /\ sent' = sent /\ scenario' = scenario
        /\ beacons' = beacons /\ refused' = refused
    BY <1>1, <1>4, ServedSame
  <2>7. InTurn(l, Served)'
    <3>1. \A c, p : LastNum(c, p)' = LastNum(c, p)
      BY <2>6 DEF LastNum, At
    <3>2. \A k : Nth(k)' = Nth(k)
      BY <2>6 DEF Nth
    <3> QED BY <2>6, <3>1, <3>2 DEF Flows, InTurn
  <2>8. /\ Spanned(h) /\ RoomIn(eth) /\ Own(l, Served) /\ Numbered1(l, s, sent)
        /\ Across(h, s, Served, eth, sent) /\ refused \subseteq 1 .. sent
    BY DEF Flows
  <2> QED BY <2>4, <2>5, <2>6, <2>7, <2>8, FlowsNext
<1> QED BY <1>1, <1>2, <1>3, <1>4

-----------------------------------------------------------------------------
(* Numbering                                                               *)

(* The longer list says the same of what is under way.                     *)
LongerThan(l, l2, b, f, n) ==
  /\ n = Len(l[b]) + 1 /\ n \in 1 .. Frames
  /\ Len(l2[b]) = n /\ l2[b][n] = f
  /\ \A o \in Box : Len(l[o]) \in Nat /\ Distinct(l2[o])
                    /\ \A i \in 1 .. Len(l[o]) : i \in 1 .. Len(l2[o]) /\ l2[o][i] = l[o][i]
  /\ \A o \in Box : \A i \in 1 .. Len(l2[o]) :
       l2[o][i] \in Frame /\ (i \in 1 .. Len(l[o]) \/ (o = b /\ i = n))

(* Nobody else of its part has seen a frame that a box numbers.            *)
LEMMA NobodyYet ==
  ASSUME NEW h, NEW l, NEW s, J(h, l, s), NEW b \in Box, NEW f \in Frame, NEW l2, NEW s2, NEW n,
         LongerThan(l, l2, b, f, n), J(h, l2, s2)', scenario' = scenario, ~ In(f, l[b])
  PROVE  /\ \A p \in Box : h[p] = h[b] => ~ In(f, l[p])
         /\ \A c \in Box : h[c] = h[b] => Seen[c][f] = 0
<1>1. l \in [Box -> Seq(Frame)] /\ Seen \in [Box -> [Frame -> 0 .. 2]] /\ Parts(h)
  BY DEF J, Shape
<1>2. In(f, l2[b]) /\ \A p \in Box : In(f, l[p]) => p # b /\ In(f, l2[p])
  <2>1. /\ n \in 1 .. Frames /\ Len(l2[b]) = n /\ l2[b][n] = f
        /\ \A o \in Box : \A i \in 1 .. Len(l[o]) : i \in 1 .. Len(l2[o]) /\ l2[o][i] = l[o][i]
    BY DEF LongerThan
  <2>2. n \in 1 .. Len(l2[b])
    BY <2>1
  <2>3. ASSUME NEW p \in Box, In(f, l[p]) PROVE p # b /\ In(f, l2[p])
    <3>1. PICK i \in 1 .. Len(l[p]) : l[p][i] = f
      BY <2>3 DEF In
    <3>2. i \in 1 .. Len(l2[p]) /\ l2[p][i] = f
      BY <2>1, <3>1
    <3> QED BY <2>3, <3>2 DEF In
  <2> QED BY <2>1, <2>2, <2>3 DEF In
<1>3. ASSUME NEW p \in Box, h[p] = h[b], In(f, l[p]) PROVE FALSE
  <2>1. p # b /\ In(f, l2[p])
    BY <1>2, <1>3
  <2>2. /\ s2[f] = None => b \in scenario.wired /\ p \in scenario.wired
        /\ s2[f] # None => /\ b = s2[f] \/ (b \in scenario.wired /\ h[b] # h[s2[f]])
                           /\ p = s2[f] \/ (p \in scenario.wired /\ h[p] # h[s2[f]])
    BY <1>2, <2>1 DEF J, Numbering
  <2> QED BY <1>1, <1>3, <2>1, <2>2 DEF Parts, Together
<1>4. ASSUME NEW c \in Box, h[c] = h[b] PROVE Seen[c][f] = 0
  <2>1. ASSUME Seen[c][f] = 1 PROVE FALSE
    <3>1. PICK p \in Box : h[p] = h[c] /\ Handled(l, c, p, f)
      BY <2>1 DEF J, Once
    <3>2. In(f, l[p])
      BY <3>1 DEF Handled, In
    <3> QED BY <1>3, <1>4, <3>1, <3>2
  <2>2. Seen[c][f] \in 0 .. 2 /\ Seen[c][f] <= 1
    BY <1>1 DEF J, Once
  <2> QED BY <2>1, <2>2
<1> QED BY <1>3, <1>4

LEMMA Longer ==
  ASSUME NEW h, NEW l, NEW s, J(h, l, s), NEW b \in Box, NEW f \in Frame, NEW l2, NEW s2,
         l2 = [l EXCEPT ![b] = Append(@, f)], J(h, l2, s2)'
  PROVE  LongerThan(l, l2, b, f, Len(l[b]) + 1)
<1>1. /\ l \in [Box -> Seq(Frame)] /\ l2 \in [Box -> Seq(Frame)]
      /\ \A o \in Box : Distinct(l2[o])
  BY DEF J, Shape, Numbers
<1>2. l2[b] = Append(l[b], f) /\ l[b] \in Seq(Frame) /\ \A o \in Box : o # b => l2[o] = l[o]
  BY <1>1
<1>3. /\ Len(l2[b]) = Len(l[b]) + 1 /\ l2[b][Len(l[b]) + 1] = f
      /\ \A i \in 1 .. Len(l[b]) : l2[b][i] = l[b][i]
  BY <1>2, AppendProperties
<1>4. \A o \in Box : Len(l[o]) \in Nat /\ Len(l2[o]) \in Nat
  BY <1>1, LenProperties
<1>5. \A o \in Box : \A i \in 1 .. Len(l2[o]) : l2[o][i] \in Frame
  BY <1>1, ElementOfSeq
<1>6. Len(l2[b]) <= Frames
  <2>1. l2[b] \in Seq(Frame) /\ Distinct(l2[b])
    BY <1>1
  <2> QED BY <2>1, Room
<1>7. \A o \in Box : \A i \in 1 .. Len(l[o]) : i \in 1 .. Len(l2[o]) /\ l2[o][i] = l[o][i]
  BY <1>2, <1>3, <1>4
<1>8. \A o \in Box : \A i \in 1 .. Len(l2[o]) :
        i \in 1 .. Len(l[o]) \/ (o = b /\ i = Len(l[b]) + 1)
  BY <1>2, <1>3, <1>4
<1>9. Len(l[b]) + 1 \in 1 .. Frames
  BY <1>3, <1>4, <1>6, ConstAssumption DEF ConstAssumption
<1> QED BY <1>1, <1>3, <1>4, <1>5, <1>7, <1>8, <1>9 DEF LongerThan

LEMMA PlacesInLonger ==
  ASSUME NEW l, NEW l2, NEW b \in Box, NEW f, NEW n, LongerThan(l, l2, b, f, n),
         NEW m \in Packet
  PROVE  /\ Places(l, m) \subseteq Places(l2, m)
         /\ Places(l, m) # {} => Places(l2, m) \subseteq Places(l, m)
<1>1. m.originator \in Box
  BY DEF Packet
<1>2. Places(l, m) \subseteq Places(l2, m)
  BY <1>1 DEF Places, LongerThan
<1>3. ASSUME NEW k \in Places(l, m), NEW i \in Places(l2, m) PROVE i = k
  <2>1. k \in Places(l2, m)
    BY <1>2
  <2> QED BY <1>1, <2>1 DEF Places, LongerThan, Distinct
<1> QED BY <1>2, <1>3

LEMMA LongerOrderly ==
  ASSUME NEW l, NEW l2, NEW b \in Box, NEW f, NEW n, LongerThan(l, l2, b, f, n),
         NEW q \in Seq(Packet), \A i \in 1 .. Len(q) : Places(l, q[i]) # {},
         NEW g, NEW g2, Orderly(l, q, g), \A u \in Frame : g[u] >= 1 => g2[u] >= 1
  PROVE  /\ Orderly(l2, q, g2)
         /\ \A o, k : Stands(l, q, o, k) => Stands(l2, q, o, k)
<1>1. \A i \in 1 .. Len(q) : q[i] \in Packet
  BY ElementOfSeq
<1>2. \A i \in 1 .. Len(q) : Places(l2, q[i]) = Places(l, q[i])
  <2> SUFFICES ASSUME NEW i \in 1 .. Len(q) PROVE Places(l2, q[i]) = Places(l, q[i])
    OBVIOUS
  <2>1. PICK x \in Packet : x = q[i] /\ Places(l, x) # {}
    BY <1>1
  <2>2. /\ Places(l, x) \subseteq Places(l2, x)
        /\ Places(l, x) # {} => Places(l2, x) \subseteq Places(l, x)
    BY PlacesInLonger
  <2>3. Places(l, x) \subseteq Places(l2, x) /\ Places(l2, x) \subseteq Places(l, x)
    BY ONLY <2>1, <2>2, Zenon
  <2> QED BY <2>1, <2>3
<1>3. \A x \in Packet : x.originator \in Box
  BY DEF Packet
<1>4. \A o, k : Stands(l, q, o, k) => Stands(l2, q, o, k)
  BY <1>2 DEF Stands
<1>5. ASSUME NEW i \in 1 .. Len(q), NEW k \in Places(l2, q[i]), NEW j \in 1 .. k - 1
      PROVE  \/ g2[l2[q[i].originator][j]] >= 1
             \/ \E p \in 1 .. i - 1 : q[p].originator = q[i].originator /\ j \in Places(l2, q[p])
  <2>1. q[i].originator \in Box /\ k \in Places(l, q[i])
    BY <1>1, <1>2, <1>3
  <2>2. k \in 1 .. Len(l[q[i].originator])
    BY <2>1 DEF Places
  <2>3. j \in 1 .. Len(l[q[i].originator])
    BY <2>1, <2>2 DEF LongerThan
  <2>4. l2[q[i].originator][j] = l[q[i].originator][j] /\ l2[q[i].originator][j] \in Frame
    BY <2>1, <2>3 DEF LongerThan
  <2>5. \/ g[l[q[i].originator][j]] >= 1
        \/ \E p \in 1 .. i - 1 : q[p].originator = q[i].originator /\ j \in Places(l, q[p])
    BY <2>1 DEF Orderly
  <2>6. \A p \in 1 .. i - 1 : p \in 1 .. Len(q)
    <3>1. Len(q) \in Nat
      BY LenProperties
    <3> QED BY <3>1
  <2> QED BY <1>2, <2>4, <2>5, <2>6
<1>6. Orderly(l2, q, g2)
  BY <1>5 DEF Orderly
<1> QED BY <1>4, <1>6

(* Box b numbers frame f, which came from a client or over the Ethernet.   *)
LEMMA NumberedFlows ==
  ASSUME NEW h, NEW l, NEW s, J(h, l, s), Flows(h, l, s), FewFrames,
         NEW b \in Box, NEW f \in Frame, NEW fromEth \in BOOLEAN, NEW et, NEW s2,
         ComesIn(h, l, s, b, f, fromEth, et, s2), RoomIn(et),
         \A w \in Box : \A u \in Frame : In(u, eth[w]) => In(u, et[w]) \/ (w = b /\ u = f),
         \/ fromEth /\ sent' = sent /\ s2 = s /\ In(f, eth[b])
         \/ ~ fromEth /\ sent' = sent + 1 /\ f = sent + 1 /\ s2[f] = b,
         refused' = refused, lost' = 0
  PROVE  Flows(h, [l EXCEPT ![b] = Append(@, f)], s2)'
<1>l. PICK l2 : l2 = [l EXCEPT ![b] = Append(@, f)]
  OBVIOUS
<1>0. /\ et \in [Box -> Seq(Frame)] /\ s2 \in [Frame -> Box \cup {None}]
      /\ ~ In(f, l[b])
      /\ \A u \in Frame : u <= sent => s2[u] = s[u]
      /\ Forward(b, Wrapped(b, f), TRUE, b, fromEth, radio, et)
      /\ scenario' = scenario /\ beacons' = beacons
  BY DEF ComesIn
<1>1. /\ Parts(h) /\ Spanned(h) /\ scenario \in Scenarios /\ l \in [Box -> Seq(Frame)]
      /\ Numbers(l) /\ gaps = 0 /\ got \in Tally /\ number \in [Box -> Num]
      /\ radio \in [Box -> Seq(Packet)] /\ scenario.wired \subseteq Box
      /\ RoomIn(radio) /\ FromOthers(h, radio) /\ sent \in 0 .. Frames
      /\ HandsOn(h, l, Served, radio) /\ Own(l, Served) /\ AllOrderly(l, Served, radio)
      /\ refused \subseteq 1 .. sent
  BY FirstNum DEF J, Shape, Flows
<1>2. J(h, l2, s2)'
  <2>1. \A u \in Frame : \A on \in BOOLEAN : \A e, t :
          ComesIn(h, l, s, b, u, on, e, t) => J(h, [l EXCEPT ![b] = Append(@, u)], t)'
    BY ComesInKept
  <2>2. J(h, [l EXCEPT ![b] = Append(@, f)], s2)'
    BY <2>1
  <2> QED BY <1>l, <2>2
<1>a. PICK n : n = Len(l[b]) + 1
  OBVIOUS
<1>3. LongerThan(l, l2, b, f, n)
  BY <1>l, <1>2, <1>a, Longer
<1>4. /\ n \in 1 .. Frames /\ Len(l2[b]) = n /\ l2[b][n] = f
      /\ \A o \in Box : Len(l[o]) \in Nat /\ Distinct(l2[o])
                    /\ \A i \in 1 .. Len(l[o]) : i \in 1 .. Len(l2[o]) /\ l2[o][i] = l[o][i]
      /\ \A o \in Box : \A i \in 1 .. Len(l2[o]) :
           l2[o][i] \in Frame /\ (i \in 1 .. Len(l[o]) \/ (o = b /\ i = n))
  BY <1>3 DEF LongerThan
<1>5. /\ \A p \in Box : h[p] = h[b] => ~ In(f, l[p])
      /\ \A c \in Box : h[c] = h[b] => Seen[c][f] = 0
  <2>1. J(h, l, s) /\ scenario' = scenario /\ ~ In(f, l[b])
    BY <1>0
  <2> QED BY ONLY <2>1, <1>2, <1>3, b \in Box, f \in Frame, ConstAssumption, NobodyYet
<1>b. PICK m : m = Wrapped(b, f)
  OBVIOUS
<1>6. /\ m \in Packet /\ m.originator = b /\ m.from = b /\ m.frame = f /\ m.num = Nth(n)
      /\ [m EXCEPT !.from = b] = m
  <2>1. m = [from |-> b, originator |-> b, num |-> number[b], frame |-> f]
    BY <1>b DEF Wrapped
  <2>2. number[b] = Nth(n) /\ number[b] \in Num
    BY <1>1, <1>a DEF Numbers
  <2> QED BY <2>1, <2>2 DEF Packet
<1> DEFINE yes == TRUE
<1>c. PICK rs : rs = OnRadio(b, yes, b)
  OBVIOUS
<1>7. /\ radio' = Hear(radio, rs, m) /\ Full(radio, rs) = 0
      /\ eth' = Hear(et, OnWires(b, fromEth), f) /\ Full(et, OnWires(b, fromEth)) = 0
      /\ \A d \in Box : \A u \in Frame : ~ (d = b /\ u = f) => Served'[d][u] = Served[d][u]
      /\ Served'[b][f] >= 1
  <2>1. yes \in BOOLEAN /\ Forward(b, m, yes, b, fromEth, radio, et)
    BY <1>0, <1>b
  <2> HIDE DEF yes
  <2>2. /\ radio' = Hear(radio, OnRadio(b, yes, b), [m EXCEPT !.from = b])
        /\ Full(radio, OnRadio(b, yes, b)) = 0
        /\ eth' = Hear(et, OnWires(b, fromEth), m.frame) /\ Full(et, OnWires(b, fromEth)) = 0
        /\ \A d \in Box : \A u \in Frame : ~ (d = b /\ u = m.frame) => Served'[d][u] = Served[d][u]
        /\ Served'[b][m.frame] >= 1
    <3>1. /\ m \in Packet /\ scenario \in Scenarios /\ lost' = 0
          /\ gaps = 0 /\ got \in Tally /\ refused' = refused
      BY <1>1, <1>6
    <3>2. PICK yr : yr = OnRadio(b, yes, b)
      OBVIOUS
    <3>3. PICK es : es = OnWires(b, fromEth)
      OBVIOUS
    <3>4. /\ radio' = Hear(radio, yr, [m EXCEPT !.from = b])
          /\ Full(radio, yr) = 0
          /\ eth' = Hear(et, es, m.frame) /\ Full(et, es) = 0
          /\ \A d \in Box : \A u \in Frame :
               ~ (d = b /\ u = m.frame) => Served'[d][u] = Served[d][u]
          /\ Served'[b][m.frame] >= 1
      BY ONLY <2>1, <3>1, <3>2, <3>3, b \in Box, fromEth \in BOOLEAN, NothingLost
    <3> QED BY <3>2, <3>3, <3>4
  <2> QED BY <1>c, <1>6, <2>2
<1>8. rs \in SUBSET Hearers(b) /\ (rs # {} => HandsTo(b, b)) /\ (HandsTo(b, b) => rs = Hearers(b))
  BY <1>c, FromItself DEF OnRadio, HandsTo
<1> HIDE DEF yes
<1>9. \A r \in Box : \A u \in Frame : Served[r][u] >= 1 => Served'[r][u] >= 1
  BY <1>7
<1>10. ASSUME NEW r \in Box
       PROVE  /\ Orderly(l2, radio[r], Served'[r])
              /\ \A o, k : Stands(l, radio[r], o, k) => Stands(l2, radio[r], o, k)
  <2>1. radio[r] \in Seq(Packet) /\ Orderly(l, radio[r], Served[r])
    BY <1>1 DEF AllOrderly
  <2>2. \A i \in 1 .. Len(radio[r]) : Places(l, radio[r][i]) # {}
    <3>1. \A i \in 1 .. Len(radio[r]) : radio[r][i] \in Packet /\ In(radio[r][i], radio[r])
      BY <2>1, ElementOfSeq DEF In
    <3> QED BY <3>1 DEF J, OnAir
  <2>3. \A u \in Frame : Served[r][u] >= 1 => Served'[r][u] >= 1
    BY <1>9
  <2> QED BY <1>3, <2>1, <2>2, <2>3, LongerOrderly
<1>11. AllOrderly(l2, Served', radio)
  BY <1>10 DEF AllOrderly
<1>12. \A r, o \in Box : \A k \in 1 .. Len(l[o]) :
         Pending(l, Served, radio, r, o, k) => Pending(l2, Served', radio, r, o, k)
  <2>1. \A o \in Box : \A k \in 1 .. Len(l[o]) : l2[o][k] = l[o][k] /\ l2[o][k] \in Frame
    BY <1>4
  <2> QED BY <1>9, <1>10, <2>1 DEF Pending
<1>13. \A r \in rs : \A j \in 1 .. n - 1 : Pending(l2, Served', radio, r, b, j)
  <2> SUFFICES ASSUME NEW r \in rs, NEW j \in 1 .. n - 1
               PROVE  Pending(l2, Served', radio, r, b, j)
    OBVIOUS
  <2>1. r \in Hearers(b) /\ r \in Box /\ HandsTo(b, b)
    BY <1>8 DEF Hearers
  <2>2. j \in 1 .. Len(l[b])
    BY <1>4, <1>a
  <2>3. Served[b][l[b][j]] >= 1
    BY <1>1, <2>2 DEF Own
  <2>4. Pending(l, Served, radio, r, b, j)
    BY <1>1, <2>1, <2>2, <2>3 DEF HandsOn
  <2> QED BY <1>12, <2>1, <2>2, <2>4
<1>14. n \in Places(l2, m) /\ \A i \in Places(l2, m) : i = n
  <2>1. n \in Places(l2, m)
    BY <1>4, <1>6 DEF Places
  <2>2. ASSUME NEW i \in Places(l2, m) PROVE i = n
    <3>1. Distinct(l2[b]) /\ i \in 1 .. Len(l2[b]) /\ n \in 1 .. Len(l2[b]) /\ l2[b][i] = l2[b][n]
      BY <1>4, <1>6, <2>2 DEF Places
    <3> QED BY <3>1 DEF Distinct
  <2> QED BY <2>1, <2>2
<1>15. /\ radio' \in [Box -> Seq(Packet)] /\ RoomIn(radio') /\ FromOthers(h, radio')
       /\ AllOrderly(l2, Served', radio')
       /\ \A r, p \in Box : \A j :
            Pending(l2, Served', radio, r, p, j) => Pending(l2, Served', radio', r, p, j)
       /\ \A r \in rs : Pending(l2, Served', radio', r, b, n)
  <2>1. \A r \in rs : \A j \in 1 .. n - 1 : Pending(l2, Served', radio, r, m.originator, j)
    BY <1>6, <1>13
  <2>2. /\ radio \in [Box -> Seq(Packet)] /\ RoomIn(radio) /\ FromOthers(h, radio)
        /\ AllOrderly(l2, Served', radio) /\ m \in Packet /\ m.from = b /\ rs \in SUBSET Hearers(b)
        /\ Full(radio, rs) = 0 /\ radio' = Hear(radio, rs, m)
        /\ Parts(h) /\ Spanned(h) /\ scenario \in Scenarios
    BY <1>1, <1>6, <1>7, <1>8, <1>11
  <2>3. /\ radio' \in [Box -> Seq(Packet)] /\ RoomIn(radio') /\ FromOthers(h, radio')
        /\ AllOrderly(l2, Served', radio')
        /\ \A r, p \in Box : \A j :
             Pending(l2, Served', radio, r, p, j) => Pending(l2, Served', radio', r, p, j)
        /\ \A r \in rs : Pending(l2, Served', radio', r, m.originator, n)
    BY ONLY <1>14, <2>1, <2>2, ConstAssumption, b \in Box, HandedFlows
  <2> QED BY <1>6, <2>3
<1>16. Own(l2, Served')
  <2> SUFFICES ASSUME NEW o \in Box, NEW k \in 1 .. Len(l2[o]) PROVE Served'[o][l2[o][k]] >= 1
    BY DEF Own
  <2>1. CASE k \in 1 .. Len(l[o])
    BY <1>1, <1>4, <1>9, <2>1 DEF Own
  <2>2. CASE o = b /\ k = n
    BY <1>4, <1>7, <2>2
  <2> QED BY <1>4, <2>1, <2>2
<1>17. \A i : Nth(i)' = Nth(i)
  BY <1>0 DEF Nth
<1>18. InTurn(l2, Served)'
  <2> SUFFICES ASSUME NEW c \in Box, NEW p \in Box \ {c}, NEW j \in 1 .. Len(l2[p]),
                      LastNum(c, p)' = Nth(j), NEW i \in 1 .. j
               PROVE  Served'[c][l2[p][i]] >= 1
    BY <1>17 DEF InTurn
  <2>1. LastNum(c, p) = Nth(j)
    BY <1>0 DEF LastNum, At
  <2>2. CASE j \in 1 .. Len(l[p])
    <3>1. i \in 1 .. Len(l[p])
      BY <1>4, <2>2
    <3>2. Served[c][l[p][i]] >= 1
      BY <2>1, <2>2 DEF Flows, InTurn
    <3>3. l2[p][i] = l[p][i] /\ l2[p][i] \in Frame
      BY <1>4, <3>1
    <3> QED BY <1>9, <3>2, <3>3
  <2>3. CASE p = b /\ j = n
    <3>1. LastNum(c, b) = None \/ \E k \in 1 .. Len(l[b]) : LastNum(c, b) = Nth(k)
      BY <2>3 DEF J, Lasts
    <3>2. Nth(n) \in Num
      BY <1>1, <1>4, NthNext
    <3>3. PICK k \in 1 .. Len(l[b]) : Nth(k) = Nth(n)
      BY <2>1, <2>3, <3>1, <3>2, ConstAssumption DEF ConstAssumption
    <3>4. k \in 1 .. Frames /\ k # n
      <4>1. Len(l[b]) \in Nat /\ n = Len(l[b]) + 1 /\ n \in 1 .. Frames /\ Frames \in Nat
        BY <1>4, <1>a, ConstAssumption DEF ConstAssumption
      <4> QED BY <4>1
    <3> QED BY <1>1, <1>4, <3>3, <3>4, LaterIsNewer
  <2> QED BY <1>4, <2>2, <2>3
<1>19. HandsOn(h, l2, Served', radio')
  <2> SUFFICES ASSUME NEW p \in Box, NEW c \in Box, NEW i \in 1 .. Len(l2[p]),
                      NEW r \in Hearers(c),
                      h[c] = h[p], HandsTo(c, p), Served'[c][l2[p][i]] >= 1
               PROVE  Pending(l2, Served', radio', r, p, i)
    BY DEF HandsOn
  <2>1. r \in Box /\ l2[p][i] \in Frame
    BY <1>4 DEF Hearers
  <2>2. CASE i \in 1 .. Len(l[p])
    <3>1. l2[p][i] = l[p][i]
      BY <1>4, <2>2
    <3>2. ~ (c = b /\ l2[p][i] = f)
      BY <1>5, <2>2, <3>1 DEF In
    <3>3. Served[c][l[p][i]] >= 1
      BY <1>7, <2>1, <3>1, <3>2
    <3>4. Pending(l, Served, radio, r, p, i)
      BY <1>1, <2>2, <3>3 DEF HandsOn
    <3> QED BY <1>12, <1>15, <2>1, <2>2, <3>4
  <2>3. CASE p = b /\ i = n
    <3>1. l2[p][i] = f
      BY <1>4, <2>3
    <3>2. CASE c = b
      <4>1. r \in rs
        BY <1>8, <2>3, <3>2
      <4> QED BY <1>15, <2>3, <4>1
    <3>3. CASE c # b
      <4>1. Served'[c][f] >= 1 /\ Served'[c][f] = Served[c][f] /\ Seen[c][f] = 0
        BY <1>5, <1>7, <2>3, <3>1, <3>3
      <4>2. f \in refused'
        BY <4>1, ServedTimes
      <4>3. Served'[r][f] = 1
        BY <2>1, <4>2, ServedTimesNext
      <4> QED BY <3>1, <4>3 DEF Pending
    <3> QED BY <3>2, <3>3
  <2> QED BY <1>4, <2>2, <2>3
<1>20. \A u \in Frame : u \in Nat /\ (u # f /\ u <= sent' => u <= sent /\ s2[u] = s[u])
  <2>1. \A u \in Frame : u \in Nat
    BY DEF Frame
  <2>2. \A u \in Frame : u # f /\ u <= sent' => u <= sent
    <3>1. CASE sent' = sent
      BY <3>1
    <3>2. CASE sent' = sent + 1 /\ f = sent + 1
      BY <1>1, <2>1, <3>2
    <3> QED BY <3>1, <3>2
  <2> QED BY <1>0, <2>1, <2>2
<1>21. Numbered1(l2, s2, sent')
  <2> SUFFICES ASSUME NEW u \in Frame, u <= sent', s2[u] # None PROVE In(u, l2[s2[u]])
    BY DEF Numbered1
  <2>1. CASE u <= sent
    <3>1. s2[u] = s[u] /\ s[u] \in Box
      BY <1>0, <2>1
    <3>2. In(u, l[s[u]])
      BY <2>1, <3>1 DEF Flows, Numbered1
    <3>3. PICK i \in 1 .. Len(l[s[u]]) : l[s[u]][i] = u
      BY <3>2 DEF In
    <3>4. i \in 1 .. Len(l2[s[u]]) /\ l2[s[u]][i] = u
      BY <1>4, <3>1, <3>3
    <3> QED BY <3>1, <3>4 DEF In
  <2>2. CASE ~ (u <= sent)
    <3>1. u = f /\ s2[f] = b
      BY <1>20, <2>2
    <3>2. n \in 1 .. Len(l2[b])
      BY <1>4
    <3> QED BY <1>4, <3>1, <3>2 DEF In
  <2> QED BY <2>1, <2>2
<1>22. RoomIn(eth') /\ Across(h, s2, Served', eth', sent')
  <2>1. \A u \in Frame : u # f => (u <= sent' => u <= sent /\ s2[u] = s[u])
    BY <1>20
  <2>2. ASSUME ~ PutsOnEth(b, fromEth), NEW w \in scenario.wired \ {b},
               f <= sent', OnEthBy(h, s2, Served', f, w)
        PROVE  f <= sent /\ OnEthBy(h, s, Served, f, w)
    <3>1. CASE fromEth /\ sent' = sent /\ s2 = s /\ In(f, eth[b])
      <4>1. s[f] # None => h[s[f]] # h[b]
        BY <3>1 DEF J, OnWire
      <4>2. \A v \in scenario.wired : v \in Box
        BY <1>1
      <4>3. s[f] # None => \A v \in scenario.wired :
              h[v] = h[s[f]] => v # b /\ Served'[v][f] = Served[v][f]
        BY <1>7, <4>1, <4>2
      <4> QED BY <2>2, <3>1, <4>3 DEF OnEthBy
    <3>2. CASE ~ fromEth /\ sent' = sent + 1 /\ f = sent + 1 /\ s2[f] = b
      <4>1. b \notin scenario.wired
        BY <2>2, <3>2 DEF PutsOnEth, Wired
      <4>2. b # None
        BY ConstAssumption DEF ConstAssumption
      <4>3. PICK v \in scenario.wired : h[v] = h[b] /\ Served'[v][f] >= 1
        BY <2>2, <3>2, <4>2 DEF OnEthBy
      <4>4. v \in Box /\ v # b /\ Served'[v][f] = Served[v][f]
        BY <1>1, <1>7, <4>1, <4>3
      <4>5. Served[v][f] = 0
        <5>1. f \notin refused
          BY <1>1, <3>2
        <5> QED BY <1>5, <4>3, <4>4, <5>1, ServedTimes
      <4> QED BY <4>3, <4>4, <4>5
    <3> QED BY <3>1, <3>2
  <2>3. Across(h, s, Served, eth, sent)
    BY DEF Flows
  <2>4. HandedOver(h, s, s2, sent, sent', b, f, fromEth, et, eth', Served')
    BY <1>0, <1>7, <2>1, <2>2 DEF HandedOver
  <2> QED BY <1>1, <2>3, <2>4, AcrossKept
<1>23. refused' \subseteq 1 .. sent'
  <2>1. 1 .. sent \subseteq 1 .. sent'
    BY <1>1
  <2> QED BY <1>1, <2>1
<1>24. Flows(h, l2, s2)'
  BY <1>0, <1>1, <1>23, <1>15, <1>16, <1>18, <1>19, <1>21, <1>22, FlowsNext
<1> QED BY <1>l, <1>24

-----------------------------------------------------------------------------
(* Every step                                                              *)

(* What comes over the Ethernet from a client there.                       *)
FromEthOnly(s) == \A f \in Frame : f <= sent /\ s[f] = None => scenario.sources = {}
DInv == gaps = 0 /\ lost = 0 /\ Apart /\ Spanned(scenario.part) =>
          \E h, l, s : J(h, l, s) /\ Flows(h, l, s) /\ FromEthOnly(s)

LEMMA SendOnEthFlows ==
  ASSUME NEW h, NEW l, NEW s, J(h, l, s), Flows(h, l, s), SendOnEth, lost' = 0,
         NEW s2, s2[sent + 1] = None, \A g \in Frame : g <= sent => s2[g] = s[g]
  PROVE  Flows(h, l, s2)'
<1>a. PICK f : f = sent + 1
  OBVIOUS
<1>b. PICK es : es = scenario.wired
  OBVIOUS
<1>1. /\ eth' = Hear(eth, es, f) /\ lost' = IF Full(eth, es) > 0 THEN 1 ELSE lost
      /\ sent' = f /\ sent < scenario.sends
      /\ UNCHANGED <<scenario, number, beacons, radio, got, refused>>
  BY <1>a, <1>b DEF SendOnEth
<1>2. /\ sent \in 0 .. Frames /\ f \in Frame /\ eth \in [Box -> Seq(Frame)]
      /\ RoomIn(eth) /\ es \subseteq Box /\ scenario \in Scenarios
      /\ Served' = Served
  <2>1. scenario \in Scenarios /\ sent \in 0 .. Frames
    BY DEF J, Shape
  <2>2. scenario.sends \in 0 .. Frames /\ Frames \in Nat
    BY <2>1, ConstAssumption DEF ConstAssumption, Scenario
  <2>3. f \in Frame
    BY <1>a, <1>1, <2>1, <2>2 DEF Frame
  <2> QED BY <1>b, <1>1, <2>1, <2>3, FirstNum, ServedSame DEF J, Shape, Flows
<1>3. Full(eth, es) = 0
  <2> DEFINE T == {r \in es : Len(eth[r]) = Buffer}
  <2>1. IsFiniteSet(es)
    BY <1>2, ConstAssumption, FS_Subset DEF ConstAssumption
  <2>2. IsFiniteSet(T)
    BY <2>1, FS_Subset
  <2> HIDE DEF T
  <2>3. Cardinality(T) \in Nat
    BY <2>2, FS_CardinalityType
  <2>4. Full(eth, es) \in Nat
    BY <2>3 DEF Full, T
  <2> QED BY <1>1, <2>4
<1>4. /\ eth' = [r \in Box |-> IF r \in es THEN Append(eth[r], f) ELSE eth[r]]
      /\ RoomIn(eth')
  <2>1. /\ Hear(eth, es, f) = [r \in Box |-> IF r \in es THEN Append(eth[r], f) ELSE eth[r]]
        /\ RoomIn(Hear(eth, es, f))
    BY ONLY <1>2, <1>3, ConstAssumption, HeardByAll
  <2> QED BY <1>1, <2>1
<1>5. \A r \in Box : \A u : In(u, eth'[r]) <=> In(u, eth[r]) \/ (r \in es /\ u = f)
  <2>1. \A r \in Box : eth[r] \in Seq(Frame)
    BY <1>2
  <2>2. \A r \in Box : \A u : In(u, Append(eth[r], f)) <=> In(u, eth[r]) \/ u = f
    BY ONLY <1>2, <2>1, Appended
  <2> QED BY <1>4, <2>2
<1>6. \A u \in Frame : u <= sent' => u = f \/ (u <= sent /\ s2[u] = s[u])
  BY <1>a, <1>1, <1>2 DEF Frame
<1>7. s2[f] = None
  BY <1>a
<1>8. Numbered1(l, s2, sent')
  BY <1>6, <1>7 DEF Flows, Numbered1
<1>9. InTurn(l, Served)'
  <2>1. \A c, p : LastNum(c, p)' = LastNum(c, p)
    BY <1>1 DEF LastNum, At
  <2>2. \A k : Nth(k)' = Nth(k)
    BY <1>1 DEF Nth
  <2> QED BY <1>2, <2>1, <2>2 DEF Flows, InTurn
<1>10. Across(h, s2, Served', eth', sent')
  <2> SUFFICES ASSUME NEW u \in Frame, NEW w \in scenario.wired,
                      u <= sent', OnEthBy(h, s2, Served', u, w)
               PROVE  Served'[w][u] >= 1 \/ In(u, eth'[w])
    BY DEF Across
  <2>1. w \in Box /\ w \in es /\ Served' = Served
    BY <1>b, <1>1, <1>2
  <2>2. CASE u = f
    BY <1>5, <2>1, <2>2
  <2>3. CASE u <= sent /\ s2[u] = s[u]
    <3>1. OnEthBy(h, s, Served, u, w)
      BY <2>1, <2>3 DEF OnEthBy
    <3>2. Served[w][u] >= 1 \/ In(u, eth[w])
      BY <2>3, <3>1 DEF Flows, Across
    <3> QED BY <1>5, <2>1, <3>2
  <2> QED BY <1>6, <2>2, <2>3
<1>11. /\ Spanned(h) /\ RoomIn(radio') /\ FromOthers(h, radio') /\ Own(l, Served')
       /\ AllOrderly(l, Served', radio') /\ HandsOn(h, l, Served', radio') /\ scenario' = scenario
       /\ refused' \subseteq 1 .. sent'
  <2>1. 1 .. sent \subseteq 1 .. sent'
    BY <1>a, <1>1, <1>2
  <2> QED BY <1>1, <1>2, <2>1 DEF Flows
<1> QED BY <1>4, <1>8, <1>9, <1>10, <1>11, FlowsNext

LEMMA SendFlows ==
  ASSUME NEW h, NEW l, NEW s, J(h, l, s), Flows(h, l, s), FromEthOnly(s), FewFrames,
         NEW b \in Box, Send(b), lost' = 0
  PROVE  \E l2, s2 : J(h, l2, s2)' /\ Flows(h, l2, s2)' /\ FromEthOnly(s2)'
<1> DEFINE no == FALSE
<1>1. PICK f, s2 : f \in Frame /\ f = sent + 1 /\ s2[f] = b /\ ComesIn(h, l, s, b, f, no, eth, s2)
  BY SendComesIn
<1>2. PICK l2 : l2 = [l EXCEPT ![b] = Append(@, f)]
  OBVIOUS
<1>3. sent' = sent + 1 /\ scenario' = scenario /\ refused' = refused
  BY DEF Send
<1>4. no \in BOOLEAN /\ ~ no
  OBVIOUS
<1> HIDE DEF no
<1>5. J(h, l2, s2)'
  <2>1. \A u \in Frame : \A on \in BOOLEAN : \A e, t :
          ComesIn(h, l, s, b, u, on, e, t) => J(h, [l EXCEPT ![b] = Append(@, u)], t)'
    BY ComesInKept
  <2>2. J(h, [l EXCEPT ![b] = Append(@, f)], s2)'
    BY <1>1, <1>4, <2>1
  <2> QED BY <1>2, <2>2
<1>6. Flows(h, l2, s2)'
  <2>1. PICK et : et = eth
    OBVIOUS
  <2>2. ComesIn(h, l, s, b, f, no, et, s2) /\ RoomIn(et)
    BY <1>1, <2>1 DEF Flows
  <2>3. \A w \in Box : \A u \in Frame : In(u, eth[w]) => In(u, et[w]) \/ (w = b /\ u = f)
    BY <2>1
  <2>4. \/ no /\ sent' = sent /\ s2 = s /\ In(f, eth[b])
        \/ ~ no /\ sent' = sent + 1 /\ f = sent + 1 /\ s2[f] = b
    BY <1>1, <1>3, <1>4
  <2>5. J(h, l, s) /\ Flows(h, l, s) /\ FewFrames /\ lost' = 0
    OBVIOUS
  <2>6. f \in Frame /\ refused' = refused
    BY <1>1, <1>3
  <2>7. Flows(h, [l EXCEPT ![b] = Append(@, f)], s2)'
    BY ONLY <1>4, <2>2, <2>3, <2>4, <2>5, <2>6, b \in Box, ConstAssumption, NumberedFlows
  <2> QED BY <1>2, <2>7
<1>7. FromEthOnly(s2)'
  <2>1. sent \in 0 .. Frames /\ b # None
    BY ConstAssumption DEF J, Shape, ConstAssumption
  <2>2. \A u \in Frame : u <= sent' => u = f \/ u <= sent
    BY <1>1, <1>3, <2>1 DEF Frame
  <2>3. \A u \in Frame : u <= sent => s2[u] = s[u]
    BY <1>1 DEF ComesIn
  <2> QED BY <1>1, <1>3, <2>1, <2>2, <2>3 DEF FromEthOnly
<1> QED BY <1>5, <1>6, <1>7

LEMMA ReadEthFlows ==
  ASSUME NEW h, NEW l, NEW s, J(h, l, s), Flows(h, l, s), FromEthOnly(s), FewFrames,
         NEW b \in Box, ReadEth(b), lost' = 0
  PROVE  \E l2 : J(h, l2, s)' /\ Flows(h, l2, s)' /\ FromEthOnly(s)'
<1> DEFINE yes == TRUE
<1>1. PICK f : f = Head(eth[b])
  OBVIOUS
<1>2. PICK et : et = [eth EXCEPT ![b] = Tail(@)]
  OBVIOUS
<1>3. f \in Frame /\ sent' = sent /\ ComesIn(h, l, s, b, f, yes, et, s)
  BY <1>1, <1>2, ReadEthComesIn
<1>4. PICK l2 : l2 = [l EXCEPT ![b] = Append(@, f)]
  OBVIOUS
<1>5. scenario' = scenario /\ yes \in BOOLEAN /\ yes /\ refused' = refused
  BY DEF ReadEth
<1> HIDE DEF yes
<1>6. J(h, l2, s)'
  <2>1. \A u \in Frame : \A on \in BOOLEAN : \A e, t :
          ComesIn(h, l, s, b, u, on, e, t) => J(h, [l EXCEPT ![b] = Append(@, u)], t)'
    BY ComesInKept
  <2>2. J(h, [l EXCEPT ![b] = Append(@, f)], s)'
    BY <1>3, <1>5, <2>1
  <2> QED BY <1>4, <2>2
<1>7. /\ eth \in [Box -> Seq(Frame)] /\ eth[b] # <<>> /\ RoomIn(eth)
  BY DEF J, Shape, Flows, ReadEth
<1>8. /\ In(f, eth[b]) /\ RoomIn(et)
      /\ \A w \in Box : \A u \in Frame : In(u, eth[w]) => In(u, et[w]) \/ (w = b /\ u = f)
  <2> DEFINE q == eth[b]
             t == Tail(q)
  <2>1. /\ Len(q) \in Nat /\ Len(q) > 0 /\ Len(t) = Len(q) - 1 /\ f = q[1]
        /\ \A i \in 1 .. Len(t) : t[i] = q[i + 1]
    BY <1>1, <1>7, HeadTailProperties, EmptySeq, LenProperties
  <2>2. et = [eth EXCEPT ![b] = t]
    BY <1>2
  <2>3. Len(q) <= Buffer /\ Buffer \in Nat /\ \A w \in Box : Len(eth[w]) <= Buffer
    BY <1>7, BufferNat DEF RoomIn, J, Shape
  <2> HIDE DEF t
  <2>4. Len(t) <= Buffer
    BY <2>1, <2>3
  <2>5. et[b] = t /\ \A w \in Box \ {b} : et[w] = eth[w]
    BY <1>7, <2>2
  <2>6. RoomIn(et)
    BY <2>3, <2>4, <2>5 DEF RoomIn
  <2> HIDE DEF q
  <2>7. In(f, q)
    <3>1. 1 \in 1 .. Len(q)
      BY <2>1
    <3> QED BY <2>1, <3>1 DEF In
  <2>8. \A u : In(u, q) => In(u, t) \/ u = f
    <3> SUFFICES ASSUME NEW i \in 1 .. Len(q) PROVE q[i] = f \/ In(q[i], t)
      BY DEF In
    <3>1. CASE i = 1
      BY <2>1, <3>1
    <3>2. CASE i # 1
      <4>1. i - 1 \in 1 .. Len(t) /\ (i - 1) + 1 = i
        BY <2>1, <3>2
      <4>2. t[i - 1] = q[i]
        BY <2>1, <4>1
      <4> QED BY <4>1, <4>2 DEF In
    <3> QED BY <3>1, <3>2
  <2> QED BY <2>5, <2>6, <2>7, <2>8 DEF q
<1>9. Flows(h, l2, s)'
  <2>0. PICK s2 : s2 = s
    OBVIOUS
  <2>1. /\ ComesIn(h, l, s, b, f, yes, et, s2)
        /\ \/ yes /\ sent' = sent /\ s2 = s /\ In(f, eth[b])
           \/ ~ yes /\ sent' = sent + 1 /\ f = sent + 1 /\ s2[f] = b
    BY <1>3, <1>5, <1>8, <2>0
  <2>2. J(h, l, s) /\ Flows(h, l, s) /\ FewFrames /\ lost' = 0
    OBVIOUS
  <2>3. Flows(h, [l EXCEPT ![b] = Append(@, f)], s2)'
    BY ONLY <1>3, <1>5, <1>8, <2>1, <2>2, b \in Box, ConstAssumption, NumberedFlows
  <2> QED BY <1>4, <2>0, <2>3
<1>10. FromEthOnly(s)'
  BY <1>3, <1>5 DEF FromEthOnly
<1> QED BY <1>6, <1>9, <1>10

LEMMA SameFlows ==
  ASSUME NEW h, NEW l, NEW s, Flows(h, l, s), UNCHANGED vars
  PROVE  Flows(h, l, s)'
<1>1. InTurn(l, Served)'
  <2>1. \A c, p : LastNum(c, p)' = LastNum(c, p)
    BY DEF vars, LastNum, At
  <2>2. \A k : Nth(k)' = Nth(k)
    BY DEF vars, Nth
  <2>3. Served' = Served
    BY ServedSame DEF vars, faultVars
  <2> QED BY <2>1, <2>2, <2>3 DEF Flows, InTurn
<1>2. /\ scenario' = scenario /\ radio' = radio /\ eth' = eth /\ sent' = sent
      /\ Served' = Served /\ refused' = refused
  BY ServedSame DEF vars, faultVars
<1>3. /\ Spanned(h) /\ RoomIn(radio') /\ RoomIn(eth') /\ FromOthers(h, radio') /\ Own(l, Served')
      /\ Numbered1(l, s, sent') /\ AllOrderly(l, Served', radio') /\ HandsOn(h, l, Served', radio')
      /\ Across(h, s, Served', eth', sent') /\ refused' \subseteq 1 .. sent'
  BY <1>2 DEF Flows
<1> QED BY <1>1, <1>2, <1>3, FlowsNext

LEMMA NextDInv ==
  ASSUME DInv, FewFrames, [Next]_vars
  PROVE  DInv'
<1> SUFFICES ASSUME gaps' = 0, lost' = 0, Apart', Spanned(scenario.part)'
             PROVE  \E h, l, s : J(h, l, s)' /\ Flows(h, l, s)' /\ FromEthOnly(s)'
  BY DEF DInv
<1>0. Apart /\ Spanned(scenario.part)
  <2>1. scenario' = scenario
    BY SameScenario
  <2> QED BY <2>1 DEF Apart, Spanned
<1>1. CASE UNCHANGED vars
  <2>1. gaps = 0 /\ lost = 0
    BY <1>1 DEF vars, faultVars
  <2>2. PICK h, l, s : J(h, l, s) /\ Flows(h, l, s) /\ FromEthOnly(s)
    BY <1>0, <2>1 DEF DInv
  <2>3. J(h, l, s)'
    BY <1>1, <2>2, FewerKept DEF vars, faultVars, J, Shape
  <2>4. Flows(h, l, s)' /\ FromEthOnly(s)'
    BY <1>1, <2>2, SameFlows DEF vars, FromEthOnly
  <2> QED BY <2>3, <2>4
<1>2. CASE Next
  <2>1. gaps = 0 /\ lost = 0
    <3>1. SendOnEth => gaps' = gaps /\ (lost' = lost \/ lost' = 1)
      BY DEF SendOnEth
    <3>2. \A b \in Box : Send(b) \/ ReadEth(b) => gaps' = gaps /\ (lost' = lost \/ lost' = 1)
      BY DEF Send, ReadEth, Forward
    <3>3. \A b \in Box : ReadRadio(b) => gaps' = gaps /\ (lost' = lost \/ lost' = 1)
      BY DEF ReadRadio, Forward
    <3>4. \A b \in Box : FirstBeacon(b) => gaps' = gaps /\ lost' = lost
      BY DEF FirstBeacon, faultVars
    <3>5. \A b \in Box : ~ Miss(b) /\ ~ Reboot(b)
      BY DEF Miss, Reboot
    <3> QED BY <1>2, <3>1, <3>2, <3>3, <3>4, <3>5 DEF Next
  <2>2. PICK h, l, s : J(h, l, s) /\ Flows(h, l, s) /\ FromEthOnly(s)
    BY <1>0, <2>1 DEF DInv
  <2>3. CASE SendOnEth
    <3>1. PICK s2 : /\ J(h, l, s2)' /\ s2[sent + 1] = None
                    /\ \A g \in Frame : g <= sent => s2[g] = s[g]
      BY <2>2, <2>3, SendOnEthKept
    <3>2. Flows(h, l, s2)'
      BY <2>2, <2>3, <3>1, SendOnEthFlows
    <3>3. FromEthOnly(s2)'
      BY <2>3 DEF SendOnEth, FromEthOnly
    <3> QED BY <3>1, <3>2, <3>3
  <2>4. ASSUME NEW b \in Box, Send(b)
        PROVE  \E l2, s2 : J(h, l2, s2)' /\ Flows(h, l2, s2)' /\ FromEthOnly(s2)'
    BY <2>2, <2>4, SendFlows
  <2>5. ASSUME NEW b \in Box, ReadEth(b)
        PROVE  \E l2 : J(h, l2, s)' /\ Flows(h, l2, s)' /\ FromEthOnly(s)'
    BY <2>2, <2>5, ReadEthFlows
  <2>6. ASSUME NEW b \in Box, ReadRadio(b)
        PROVE  J(h, l, s)' /\ Flows(h, l, s)' /\ FromEthOnly(s)'
    <3>1. J(h, l, s)'
      BY <2>2, <2>6, ReadRadioKept
    <3>2. Flows(h, l, s)'
      BY <2>2, <2>6, ReadRadioFlows
    <3>3. FromEthOnly(s)'
      BY <2>2, <2>6 DEF ReadRadio, FromEthOnly
    <3> QED BY <3>1, <3>2, <3>3
  <2>7. ASSUME NEW b \in Box, FirstBeacon(b)
        PROVE  FALSE
    BY <2>2, <2>7 DEF FirstBeacon, J, Lasts, Complete
  <2>8. ASSUME NEW b \in Box, Miss(b) \/ Reboot(b)
        PROVE  FALSE
    BY <2>8 DEF Miss, Reboot
  <2> QED BY <1>2, <2>3, <2>4, <2>5, <2>6, <2>7, <2>8 DEF Next
<1> QED BY <1>1, <1>2

-----------------------------------------------------------------------------
(* When the network is silent                                              *)

LEMMA ThroughPart ==
  ASSUME NEW h, NEW l, NEW s, J(h, l, s), Flows(h, l, s), Silent,
         NEW o \in Box, NEW f \in Frame, In(f, l[o])
  PROVE  \A b \in Box : h[b] = h[o] => Served[b][f] >= 1
<1>1. /\ TreeOf(scenario) /\ SpannedBy(h, scenario) /\ Together(h)
      /\ scenario \in Scenarios
  BY DEF J, Shape, Parts, Flows, Spanned
<1>2. PICK k \in 1 .. Len(l[o]) : l[o][k] = f
  BY DEF In
<1> DEFINE S == {x \in Box : h[x] = h[o] => Served[x][f] >= 1}
<1>3. o \in S
  BY <1>2 DEF Flows, Own
<1>4. ASSUME NEW b \in Box \ {o}, scenario.toward[b][o] \in S PROVE b \in S
  <2> SUFFICES ASSUME h[b] = h[o] PROVE Served[b][f] >= 1
    OBVIOUS
  <2>1. PICK z : z = scenario.toward[b][o]
    OBVIOUS
  <2>2. z \in AirOf(scenario, b)
    BY <1>1, <2>1 DEF SpannedBy
  <2>3. z \in Box /\ z # b
    BY <2>2 DEF AirOf
  <2>4. b \in AirOf(scenario, z)
    BY <1>1, <2>2 DEF TreeOf
  <2>5. z \in scenario.hears[b]
    BY <1>1, <2>3, <2>4 DEF TreeOf
  <2>6. b \in Hearers(z) /\ h[b] = h[z]
    BY <1>1, <2>3, <2>5 DEF Hearers, Together
  <2>7. Served[z][f] >= 1
    BY <1>4, <2>1, <2>6
  <2>8. HandsTo(z, o)
    <3>1. CASE z = o
      BY <2>4, <3>1, AirIsOf DEF HandsTo
    <3>2. CASE z # o
      <4>1. PICK v : v = scenario.toward[z][o]
        OBVIOUS
      <4>2. v \in AirOf(scenario, z)
        BY <1>1, <2>3, <2>6, <3>2, <4>1 DEF SpannedBy
      <4>3. ASSUME v = b
            PROVE  FALSE
        <5>1. PICK T : T = Box \ {b, z}
          OBVIOUS
        <5>2. o \in T /\ T \in SUBSET Box
          BY <3>2, <5>1
        <5>3. \A c \in Box \ {o} : scenario.toward[c][o] \in T => c \in T
          BY <2>1, <4>1, <4>3, <5>1
        <5>4. T = Box
          BY <1>1, <5>2, <5>3 DEF TreeOf
        <5> QED BY <5>1, <5>4
      <4> QED BY <2>4, <3>2, <4>2, <4>3, AirIsOf DEF HandsTo
    <3> QED BY <3>1, <3>2
  <2>9. Pending(l, Served, radio, b, o, k)
    BY <1>2, <2>3, <2>6, <2>7, <2>8 DEF Flows, HandsOn
  <2>10. ~ Stands(l, radio[b], o, k)
    <3>1. radio[b] = <<>> /\ Len(<<>>) = 0 /\ 1 .. 0 = {}
      BY DEF Silent
    <3> QED BY <3>1 DEF Stands
  <2> QED BY <1>2, <2>9, <2>10 DEF Pending
<1>5. S \in SUBSET Box
  OBVIOUS
<1> HIDE DEF S
<1>6. S = Box
  BY <1>1, <1>3, <1>4, <1>5 DEF TreeOf
<1> QED BY <1>6 DEF S

LEMMA AllHave ==
  ASSUME NEW h, NEW l, NEW s, J(h, l, s), Flows(h, l, s), FromEthOnly(s), Silent,
         NEW b \in Box, NEW f \in (1 .. sent) \ refused
  PROVE  Has(b, f)
<1>1. /\ SpannedBy(h, scenario) /\ scenario.wired \subseteq Box
      /\ sent \in 0 .. Frames /\ s \in [Frame -> Box \cup {None}]
      /\ Seen \in [Box -> [Frame -> 0 .. 2]]
  BY FirstNum DEF J, Shape, Flows, Spanned
<1>2. f \in Frame /\ f <= sent /\ Frames \in Nat
  BY <1>1, ConstAssumption DEF Frame, ConstAssumption
<1>3. ASSUME NEW w \in scenario.wired, h[w] = h[b], OnEthBy(h, s, Served, f, w)
      PROVE  Served[b][f] >= 1
  <2>1. ~ In(f, eth[w])
    <3>1. eth[w] = <<>> /\ Len(<<>>) = 0 /\ 1 .. 0 = {}
      BY <1>1 DEF Silent
    <3> QED BY <3>1 DEF In
  <2>2. Served[w][f] >= 1
    BY <1>2, <1>3, <2>1 DEF Flows, Across
  <2>3. w \in Box /\ Seen[w][f] \in 0 .. 2 /\ Seen[w][f] <= 1 /\ Seen[w][f] = Served[w][f]
    BY <1>1, <1>2, ServedTimes DEF J, Once
  <2>4. Seen[w][f] = 1
    BY <2>2, <2>3
  <2>5. PICK p \in Box : h[p] = h[w] /\ Handled(l, w, p, f)
    BY <1>2, <2>3, <2>4 DEF J, Once
  <2>6. In(f, l[p])
    BY <2>5 DEF Handled, In
  <2> QED BY <1>2, <1>3, <2>5, <2>6, ThroughPart
<1>4. Served[b][f] >= 1
  <2>1. CASE s[f] = None
    <3>1. scenario.sources = {}
      BY <1>2, <2>1 DEF FromEthOnly
    <3>2. PICK w \in scenario.wired : h[w] = h[b]
      BY <1>1, <3>1 DEF SpannedBy
    <3> QED BY <1>3, <2>1, <3>2 DEF OnEthBy
  <2>2. CASE s[f] # None
    <3>1. PICK o \in Box : s[f] = o
      BY <1>1, <1>2, <2>2
    <3>2. In(f, l[o])
      BY <1>2, <2>2, <3>1 DEF Flows, Numbered1
    <3>3. \A v \in Box : h[v] = h[o] => Served[v][f] >= 1
      BY <1>2, <3>2, ThroughPart
    <3>4. CASE h[b] = h[o]
      BY <3>3, <3>4
    <3>5. CASE h[b] # h[o]
      <4>1. PICK w \in scenario.wired : h[w] = h[b]
        BY <1>1, <3>5 DEF SpannedBy
      <4>2. PICK v \in scenario.wired : h[v] = h[o]
        BY <1>1, <3>5 DEF SpannedBy
      <4>3. OnEthBy(h, s, Served, f, w)
        BY <1>1, <3>1, <3>3, <3>5, <4>1, <4>2 DEF OnEthBy
      <4> QED BY <1>3, <4>1, <4>3
    <3> QED BY <3>4, <3>5
  <2> QED BY <2>1, <2>2
<1>5. Times(b, f) >= 1
  BY <1>2, <1>4, ServedTimes, SeenTimes
<1>6. PICK o \in Box : got[b][o][f] # 0
  BY <1>5 DEF Times, NoneOf
<1>7. got[b][o][f] \in 0 .. 2
  BY <1>2 DEF J, Shape, Tally
<1> QED BY <1>6, <1>7 DEF Has

(* Boxes leave out whom they think others have served, look each neighbor  *)
(* up in a beacon, and drop what is not newer than the last: still, when   *)
(* nothing is under way any more, a broadcast of a client has come to every*)
(* box, if no packet was lost, nobody lacks a beacon, and no box dropped   *)
(* that broadcast though its number was newer (new_from_originator forgets *)
(* to say so). That is so for every number of boxes, buffer, first number, *)
(* choice of who overhears whom and set of boxes with clients, and for     *)
(* every tree that leads everywhere and whose neighbors on the radio hear  *)
(* each other, if the boxes on the Ethernet are apart.                     *)
THEOREM DeliveredToAll ==
  ASSUME FewFrames
  PROVE  Spec => [](Apart /\ Spanned(scenario.part) => Delivered)
<1>1. Init => DInv
  <2> SUFFICES ASSUME Init, gaps = 0, Apart, Spanned(scenario.part)
               PROVE  \E h, l, s : J(h, l, s) /\ Flows(h, l, s) /\ FromEthOnly(s)
    BY DEF DInv
  <2>1. PICK h : h = scenario.part
    OBVIOUS
  <2>2. Parts(h) /\ Spanned(h)
    BY <2>1, PartsThere DEF Init
  <2>3. J(h, NoneNumbered, NoneSent)
    BY <2>2, InitJ
  <2>4. Flows(h, NoneNumbered, NoneSent)
    BY <2>2, InitFlows
  <2>5. FromEthOnly(NoneSent)
    <3>1. \A f \in Frame : ~ (f <= sent)
      BY DEF Init, Frame
    <3> QED BY <3>1 DEF FromEthOnly
  <2> QED BY <2>3, <2>4, <2>5
<1>2. DInv /\ [Next]_vars => DInv'
  BY NextDInv
<1>3. DInv => (Apart /\ Spanned(scenario.part) => Delivered)
  BY AllHave DEF DInv, Delivered
<1> QED BY <1>1, <1>2, <1>3, PTL DEF Spec
=============================================================================
