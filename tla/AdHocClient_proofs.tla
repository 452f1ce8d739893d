--------------------------- MODULE AdHocClient_proofs ---------------------------
(***************************************************************************)
(* Theorems about AdHocClient, for all boxes, clients, trees, strengths and*)
(* bounds: types with what the lists promise, and that a broadcast is never*)
(* taken for another's without a lost or wiped block.                      *)
(***************************************************************************)
EXTENDS AdHocClient, SetInduction, SequenceTheorems, FunctionTheorems

-----------------------------------------------------------------------------
(* Entries taken out of a list                                             *)

Step(l, I, f, n) == IF n = 0 THEN <<>> ELSE IF n \in I THEN Append(f[n - 1], l[n]) ELSE f[n - 1]
Upto(l, I, k, f) == f = [n \in 0 .. k |-> Step(l, I, f, n)]

LEMMA UptoExists ==
  ASSUME NEW l, NEW I
  PROVE  \A k \in Nat : \E f : Upto(l, I, k, f)
<1> DEFINE T == {k \in Nat : \E f : Upto(l, I, k, f)}
<1>1. 0 \in T
  <2> DEFINE f == [n \in 0 .. 0 |-> <<>>]
  <2>1. f = [n \in 0 .. 0 |-> Step(l, I, f, n)]
    BY DEF Step
  <2> QED BY <2>1 DEF Upto
<1>2. \A k \in Nat : k \in T => k + 1 \in T
  <2> SUFFICES ASSUME NEW k \in Nat, NEW g, Upto(l, I, k, g)
               PROVE  \E f : Upto(l, I, k + 1, f)
    OBVIOUS
  <2> DEFINE new == IF k + 1 \in I THEN Append(g[k], l[k + 1]) ELSE g[k]
             f == [n \in 0 .. k + 1 |-> IF n = k + 1 THEN new ELSE g[n]]
  <2>1. \A n \in 0 .. k : g[n] = Step(l, I, g, n)
    BY DEF Upto
  <2>2. \A n \in 0 .. k : Step(l, I, f, n) = Step(l, I, g, n)
    BY DEF Step
  <2>3. Step(l, I, f, k + 1) = new
    BY DEF Step
  <2>4. \A n \in 0 .. k + 1 : f[n] = Step(l, I, f, n)
    <3> HIDE DEF new
    <3>1. \A n \in 0 .. k : n # k + 1 /\ f[n] = g[n]
      OBVIOUS
    <3>2. f[k + 1] = new
      OBVIOUS
    <3>3. \A n \in 0 .. k + 1 : n \in 0 .. k \/ n = k + 1
      OBVIOUS
    <3> HIDE DEF f
    <3> QED BY <2>1, <2>2, <2>3, <3>1, <3>2, <3>3
  <2>5. f = [n \in 0 .. k + 1 |-> Step(l, I, f, n)]
    <3> HIDE DEF new
    <3> DEFINE F == [n \in 0 .. k + 1 |-> Step(l, I, f, n)]
    <3>1. \A n \in 0 .. k + 1 : f[n] = F[n]
      BY <2>4
    <3>2. DOMAIN f = 0 .. k + 1 /\ DOMAIN F = 0 .. k + 1
      OBVIOUS
    <3>3. f = [n \in 0 .. k + 1 |-> f[n]]
      OBVIOUS
    <3> QED BY <3>1, <3>3
  <2> QED BY <2>5 DEF Upto
<1> HIDE DEF T
<1>3. \A k \in Nat : k \in T
  BY <1>1, <1>2, Induction
<1> QED BY <1>3 DEF T

(* What is left is a list of entries of the old one, in their order.       *)
Picks(k, l, I, o) ==
  /\ k \in [1 .. Len(o) -> I \cap (1 .. Len(l))]
  /\ \A i \in 1 .. Len(o) : o[i] = l[k[i]]
  /\ \A i, j \in 1 .. Len(o) : i < j => k[i] < k[j]

LEMMA OnlyPicks ==
  ASSUME NEW S, NEW l \in Seq(S), NEW I
  PROVE  Only(l, I) \in Seq(S) /\ \E k : Picks(k, l, I, Only(l, I))
<1> DEFINE N == Len(l)
<1>1. \E f : Upto(l, I, N, f)
  BY UptoExists, LenProperties
<1> DEFINE F == CHOOSE g : Upto(l, I, N, g)
<1>2. Upto(l, I, N, F)
  BY <1>1
<1>3. Only(l, I) = F[N]
  BY DEF Only, Upto, Step
<1> HIDE DEF F
<1> DEFINE Good(n) == /\ F[n] \in Seq(S)
                      /\ \E k : /\ k \in [1 .. Len(F[n]) -> I \cap (1 .. n)]
                                /\ \A i \in 1 .. Len(F[n]) : F[n][i] = l[k[i]]
                                /\ \A i, j \in 1 .. Len(F[n]) : i < j => k[i] < k[j]
           T == {n \in Nat : n <= N => Good(n)}
<1>4. \A n \in 0 .. N : F[n] = Step(l, I, F, n)
  BY <1>2 DEF Upto
<1>5. 0 \in T
  <2>1. F[0] = <<>>
    BY <1>4 DEF Step
  <2> DEFINE k == [i \in {} |-> 0]
  <2>2. 1 .. Len(F[0]) = {}
    BY <2>1
  <2>3. k \in [1 .. Len(F[0]) -> I \cap (1 .. 0)]
    BY <2>2
  <2>4. \A i \in 1 .. Len(F[0]) : FALSE
    BY <2>2
  <2>5. F[0] \in Seq(S)
    BY <2>1
  <2> HIDE DEF k
  <2>6. Good(0)
    BY <2>3, <2>4, <2>5
  <2> QED BY <2>6
<1>6. ASSUME NEW n \in Nat, n \in T
      PROVE  n + 1 \in T
  <2> SUFFICES ASSUME n + 1 <= N
               PROVE  Good(n + 1)
    OBVIOUS
  <2>1. Good(n)
    BY <1>6
  <2>2. PICK k : /\ k \in [1 .. Len(F[n]) -> I \cap (1 .. n)]
                 /\ \A i \in 1 .. Len(F[n]) : F[n][i] = l[k[i]]
                 /\ \A i, j \in 1 .. Len(F[n]) : i < j => k[i] < k[j]
    BY <2>1
  <2>3. F[n + 1] = IF n + 1 \in I THEN Append(F[n], l[n + 1]) ELSE F[n]
    BY <1>4, n + 1 \in 0 .. N DEF Step
  <2>4. CASE n + 1 \notin I
    BY <2>1, <2>2, <2>3, <2>4
  <2>5. CASE n + 1 \in I
    <3> DEFINE m == Len(F[n])
               k2 == [i \in 1 .. m + 1 |-> IF i = m + 1 THEN n + 1 ELSE k[i]]
    <3>1. m \in Nat /\ l[n + 1] \in S
      BY <2>1, n + 1 \in 1 .. N
    <3>2. F[n + 1] = Append(F[n], l[n + 1])
      BY <2>3, <2>5
    <3>3. F[n + 1] \in Seq(S) /\ Len(F[n + 1]) = m + 1
      BY <2>1, <3>1, <3>2
    <3>4. \A i \in 1 .. m + 1 : F[n + 1][i] = IF i = m + 1 THEN l[n + 1] ELSE F[n][i]
      BY <2>1, <3>1, <3>2
    <3>5. k2 \in [1 .. m + 1 -> I \cap (1 .. n + 1)]
      BY <2>2, <2>5, <3>1
    <3>6. \A i \in 1 .. m + 1 : F[n + 1][i] = l[k2[i]]
      BY <2>2, <3>1, <3>4
    <3>7. \A i, j \in 1 .. m + 1 : i < j => k2[i] < k2[j]
      <4>1. \A i \in 1 .. m : k[i] \in 1 .. n
        BY <2>2
      <4> QED BY <2>2, <3>1, <4>1
    <3> HIDE DEF k2, m
    <3> QED BY <3>3, <3>5, <3>6, <3>7
  <2> QED BY <2>4, <2>5
<1> HIDE DEF T
<1>7. N \in T
  BY <1>5, <1>6, Induction
<1>8. Good(N)
  BY <1>7 DEF T
<1> QED BY <1>3, <1>8 DEF Picks

-----------------------------------------------------------------------------
(* Lists of clients                                                        *)

Distinct(l) == \A i, j \in DOMAIN l : l[i].name = l[j].name => i = j
GoodList(l) == /\ l \in Seq(Entry) /\ Distinct(l) /\ Len(l) <= Across
               /\ RoomBelow(PerBox + 1, l)

LEMMA NamesFinite == IsFiniteSet(Name)
BY ConstAssumption, FS_Union DEF Name

LEMMA ServedFinite ==
  ASSUME NEW l \in Seq(Entry)
  PROVE  /\ \A b : Served(b, l) = Served(None, l)
         /\ Served(None, l) \subseteq Listed(l) /\ Listed(l) \subseteq Name
         /\ IsFiniteSet(Listed(l)) /\ IsFiniteSet(Served(None, l))
         /\ Cardinality(Served(None, l)) \in Nat
<1>1. \A b : Served(b, l) = Served(None, l)
  BY DEF Served
<1>2. Served(None, l) \subseteq Listed(l) /\ Listed(l) \subseteq Name
  <2>1. \A i \in DOMAIN l : l[i] \in Entry
    BY LenProperties, ElementOfSeq
  <2>2. \A i \in DOMAIN l : l[i].name \in Name
    BY <2>1 DEF Entry
  <2> QED BY <2>2 DEF Served, Listed
<1>3. IsFiniteSet(Listed(l)) /\ IsFiniteSet(Served(None, l))
  BY <1>2, NamesFinite, FS_Subset
<1> QED BY <1>1, <1>2, <1>3, FS_CardinalityType

LEMMA FewServed ==
  ASSUME NEW l \in Seq(Entry)
  PROVE  RoomBelow(PerBox + 1, l) <=> Cardinality(Served(None, l)) <= PerBox
BY ServedFinite, ConstAssumption DEF RoomBelow

LEMMA Numbers == \A n \in Nat : IsFiniteSet(1 .. n) /\ Cardinality(1 .. n) = n
<1> TAKE n \in Nat
<1>1. Cardinality(1 .. n) = IF 1 > n THEN 0 ELSE n - 1 + 1
  BY FS_Interval
<1> QED BY <1>1, FS_Interval

(* No name twice: as many names as entries.                                *)
LEMMA DistinctCounts ==
  ASSUME NEW l \in Seq(Entry), Distinct(l)
  PROVE  Cardinality(Listed(l)) = Len(l)
<1> DEFINE f == [i \in 1 .. Len(l) |-> l[i].name]
<1>1. Len(l) \in Nat /\ DOMAIN l = 1 .. Len(l)
  BY LenProperties
<1>2. f \in Bijection(1 .. Len(l), Listed(l))
  <2>1. f \in [1 .. Len(l) -> Listed(l)]
    BY <1>1 DEF Listed
  <2>2. \A i, j \in 1 .. Len(l) : f[i] = f[j] => i = j
    BY <1>1 DEF Distinct
  <2>3. \A n \in Listed(l) : \E i \in 1 .. Len(l) : f[i] = n
    BY <1>1 DEF Listed
  <2> QED BY <2>1, <2>2, <2>3, Fun_IsBij
<1>3. ExistsBijection(1 .. Len(l), Listed(l))
  BY <1>2 DEF ExistsBijection
<1>4. IsFiniteSet(1 .. Len(l)) /\ Cardinality(1 .. Len(l)) = Len(l)
  BY <1>1, Numbers
<1> QED BY <1>3, <1>4, FS_Bijection

(* A list whose entries come from different ones of a good list, no more of*)
(* them ours, is good.                                                     *)
From(k, l2, l) ==
  /\ k \in [1 .. Len(l2) -> 1 .. Len(l)]
  /\ \A i, j \in 1 .. Len(l2) : k[i] = k[j] => i = j
  /\ \A i \in 1 .. Len(l2) : /\ l2[i].name = l[k[i]].name
                             /\ l2[i].status = "mine" => l[k[i]].status = "mine"

LEMMA FromGood ==
  ASSUME NEW l, GoodList(l), NEW l2 \in Seq(Entry), NEW k, From(k, l2, l)
  PROVE  GoodList(l2)
<1>1. l \in Seq(Entry) /\ Len(l) \in Nat /\ DOMAIN l = 1 .. Len(l)
  BY LenProperties DEF GoodList
<1>2. Len(l2) \in Nat /\ DOMAIN l2 = 1 .. Len(l2)
  BY LenProperties
<1>3. Distinct(l2)
  BY <1>1, <1>2 DEF Distinct, GoodList, From
<1>4. Len(l2) <= Len(l)
  <2>1. k \in Injection(1 .. Len(l2), 1 .. Len(l))
    BY Fun_IsInj DEF From
  <2>2. /\ IsFiniteSet(1 .. Len(l))
        /\ Cardinality(1 .. Len(l)) = Len(l) /\ Cardinality(1 .. Len(l2)) = Len(l2)
    BY <1>1, <1>2, Numbers
  <2> QED BY <2>1, <2>2, FS_Injection
<1>5. Served(None, l2) \subseteq Served(None, l)
  <2> SUFFICES ASSUME NEW i \in DOMAIN l2, l2[i].status = "mine"
               PROVE  l2[i].name \in Served(None, l)
    BY DEF Served
  <2>1. k[i] \in DOMAIN l /\ l[k[i]].status = "mine" /\ l[k[i]].name = l2[i].name
    BY <1>1, <1>2 DEF From
  <2> QED BY <2>1 DEF Served
<1>6. Cardinality(Served(None, l2)) <= Cardinality(Served(None, l))
  BY <1>1, <1>5, ServedFinite, FS_Subset
<1>7. Cardinality(Served(None, l2)) <= PerBox
  BY <1>1, <1>6, ServedFinite, FewServed, ConstAssumption DEF GoodList
<1> QED BY <1>1, <1>2, <1>3, <1>4, <1>7, FewServed, ConstAssumption DEF GoodList

(* The same places, perhaps other entries: as long as the names stay and   *)
(* nothing becomes ours.                                                   *)
LEMMA SamePlaces ==
  ASSUME NEW l, GoodList(l), NEW l2 \in Seq(Entry), Len(l2) <= Len(l),
         \A i \in 1 .. Len(l2) : /\ l2[i].name = l[i].name
                                 /\ l2[i].status = "mine" => l[i].status = "mine"
  PROVE  GoodList(l2)
<1> DEFINE k == [i \in 1 .. Len(l2) |-> i]
<1>1. Len(l) \in Nat /\ Len(l2) \in Nat
  BY LenProperties DEF GoodList
<1>2. From(k, l2, l)
  BY <1>1 DEF From
<1> QED BY <1>2, FromGood

LEMMA OnlyGood ==
  ASSUME NEW l, GoodList(l), NEW I
  PROVE  GoodList(Only(l, I))
<1>1. l \in Seq(Entry) /\ Len(l) \in Nat
  BY LenProperties DEF GoodList
<1> DEFINE o == Only(l, I)
<1>2. o \in Seq(Entry)
  BY <1>1, OnlyPicks
<1>3. PICK k : Picks(k, l, I, o)
  BY <1>1, OnlyPicks
<1>4. Len(o) \in Nat
  BY <1>2, LenProperties
<1> HIDE DEF o
<1>5. \A i, j \in 1 .. Len(o) : k[i] = k[j] => i = j
  <2>1. \A i \in 1 .. Len(o) : k[i] \in Int
    BY <1>1, <1>3 DEF Picks
  <2> QED BY <1>3, <1>4, <2>1 DEF Picks
<1>6. From(k, o, l)
  BY <1>3, <1>5 DEF Picks, From
<1>7. GoodList(o)
  BY <1>2, <1>6, FromGood
<1> QED BY <1>7 DEF o

LEMMA GoodListType ==
  ASSUME NEW l, GoodList(l)
  PROVE  /\ l \in Seq(Entry) /\ Len(l) \in Nat /\ DOMAIN l = 1 .. Len(l)
         /\ \A i \in 1 .. Len(l) : l[i] \in Entry
BY LenProperties, ElementOfSeq DEF GoodList

LEMMA ChangedSig ==
  ASSUME NEW e \in Entry, NEW n \in Nat
  PROVE  /\ [e EXCEPT !.sig = n] \in Entry /\ [e EXCEPT !.sig = n].name = e.name
         /\ [e EXCEPT !.sig = n].status = e.status
BY DEF Entry

(* More entries, of other names and none of them ours.                     *)
LEMMA LongerGood ==
  ASSUME NEW l, GoodList(l), NEW more \in Seq(Entry), Len(l) + Len(more) <= Across,
         Distinct(more),
         \A i \in 1 .. Len(more) : more[i].name \notin Listed(l) /\ more[i].status # "mine"
  PROVE  GoodList(l \o more)
<1> DEFINE o == l \o more
<1>1. /\ l \in Seq(Entry) /\ Len(l) \in Nat /\ DOMAIN l = 1 .. Len(l)
      /\ Len(more) \in Nat /\ DOMAIN more = 1 .. Len(more)
  BY GoodListType, LenProperties
<1>2. /\ o \in Seq(Entry) /\ Len(o) = Len(l) + Len(more)
      /\ \A i \in 1 .. Len(l) + Len(more) :
           o[i] = IF i <= Len(l) THEN l[i] ELSE more[i - Len(l)]
  BY <1>1, ConcatProperties
<1> HIDE DEF o
<1>3. DOMAIN o = 1 .. Len(l) + Len(more)
  BY <1>2, LenProperties
<1>4. \A i \in DOMAIN o : \/ i \in DOMAIN l /\ o[i] = l[i] /\ o[i].name \in Listed(l)
                          \/ /\ i - Len(l) \in DOMAIN more /\ o[i] = more[i - Len(l)]
                             /\ o[i].name \notin Listed(l) /\ o[i].status # "mine"
  <2> TAKE i \in DOMAIN o
  <2>1. CASE i <= Len(l)
    BY <1>1, <1>2, <1>3, <2>1 DEF Listed
  <2>2. CASE ~ (i <= Len(l))
    <3>1. i - Len(l) \in DOMAIN more /\ o[i] = more[i - Len(l)]
      BY <1>1, <1>2, <1>3, <2>2
    <3> QED BY <1>1, <3>1
  <2> QED BY <2>1, <2>2
<1>5. Distinct(o)
  <2> SUFFICES ASSUME NEW i \in DOMAIN o, NEW j \in DOMAIN o, o[i].name = o[j].name
               PROVE  i = j
    BY DEF Distinct
  <2>1. CASE o[i].name \in Listed(l)
    BY <1>4, <2>1 DEF Distinct, GoodList
  <2>2. CASE o[i].name \notin Listed(l)
    <3>1. i - Len(l) = j - Len(l)
      BY <1>4, <2>2 DEF Distinct
    <3> QED BY <1>1, <1>3, <3>1
  <2> QED BY <2>1, <2>2
<1>6. Served(None, o) = Served(None, l)
  <2>1. \A i \in DOMAIN o : o[i].status = "mine" => i \in DOMAIN l /\ o[i] = l[i]
    BY <1>4
  <2>2. \A i \in DOMAIN l : i \in DOMAIN o /\ o[i] = l[i]
    BY <1>1, <1>2, <1>3
  <2> QED BY <2>1, <2>2 DEF Served
<1>7. GoodList(o)
  BY <1>1, <1>2, <1>5, <1>6 DEF GoodList, RoomBelow
<1> QED BY <1>7 DEF o

LEMMA AddedGood ==
  ASSUME NEW b, NEW l, GoodList(l), NEW n \in Name
  PROVE  GoodList(Added(b, l, n))
<1>1. CASE n \in Listed(l) \cup {b} \/ Len(l) = Across
  BY <1>1 DEF Added
<1>2. CASE ~ (n \in Listed(l) \cup {b} \/ Len(l) = Across)
  <2> DEFINE e == [name |-> n, status |-> "unknown", server |-> None, sig |-> Weak, owner |-> 0]
  <2>1. e \in Entry
    BY DEF Entry, Status, Weak
  <2>2. <<e>> \in Seq(Entry) /\ Len(<<e>>) = 1 /\ DOMAIN <<e>> = 1 .. 1
    BY <2>1
  <2>3. Added(b, l, n) = l \o <<e>>
    BY <1>2, <2>1, GoodListType, AppendIsConcat DEF Added
  <2>4. Len(l) + 1 <= Across
    BY <1>2, GoodListType, ConstAssumption DEF GoodList
  <2>5. \A i \in 1 .. 1 : <<e>>[i].name \notin Listed(l) /\ <<e>>[i].status # "mine"
    BY <1>2
  <2>6. Distinct(<<e>>)
    BY <2>2 DEF Distinct
  <2> HIDE DEF e
  <2> QED BY <2>2, <2>3, <2>4, <2>5, <2>6, LongerGood
<1> QED BY <1>1, <1>2

LEMMA StrengthType ==
  ASSUME hears \in [Box -> [Name -> Nat]], NEW b \in Box, NEW e \in Entry
  PROVE  Strength(b, e) \in Nat
BY DEF Strength, Entry

LEMMA CutType ==
  ASSUME NEW b, NEW l, GoodList(l)
  PROVE  Cut(b, l) \in 1 .. Len(l) + 1
<1> DEFINE low == {i \in DOMAIN l : Strength(b, l[i]) = Low}
<1>1. Len(l) \in Nat /\ DOMAIN l = 1 .. Len(l)
  BY GoodListType
<1>2. CASE low = {}
  BY <1>1, <1>2 DEF Cut
<1>3. CASE low # {}
  <2>1. low \in SUBSET Nat
    BY <1>1
  <2>2. \E i \in low : \A j \in low : i <= j
    BY <1>3, <2>1, Least
  <2>3. Cut(b, l) \in low
    BY <1>3, <2>2 DEF Cut
  <2> QED BY <1>1, <2>3
<1> QED BY <1>2, <1>3

LEMMA RefreshedGood ==
  ASSUME hears \in [Box -> [Name -> Nat]], NEW b \in Box, NEW l, GoodList(l)
  PROVE  /\ GoodList(Refreshed(b, l)) /\ Len(Refreshed(b, l)) = Len(l)
         /\ \A i \in 1 .. Len(l) : /\ Refreshed(b, l)[i].name = l[i].name
                                   /\ Refreshed(b, l)[i].status = l[i].status
<1> DEFINE r == Refreshed(b, l)
<1>1. /\ l \in Seq(Entry) /\ Len(l) \in Nat /\ DOMAIN l = 1 .. Len(l)
      /\ \A i \in 1 .. Len(l) : l[i] \in Entry
  BY GoodListType
<1>2. r = [i \in 1 .. Len(l) |-> [l[i] EXCEPT !.sig = Strength(b, l[i])]]
  BY <1>1 DEF Refreshed
<1> HIDE DEF r
<1>3. \A i \in 1 .. Len(l) : /\ r[i] \in Entry /\ r[i].name = l[i].name
                             /\ r[i].status = l[i].status
  <2> TAKE i \in 1 .. Len(l)
  <2>1. r[i] = [l[i] EXCEPT !.sig = Strength(b, l[i])] /\ Strength(b, l[i]) \in Nat
    BY <1>1, <1>2, StrengthType
  <2>2. l[i] \in Entry
    BY <1>1
  <2> QED BY <2>1, <2>2, ChangedSig
<1>4. r \in Seq(Entry) /\ Len(r) = Len(l)
  BY <1>1, <1>2, <1>3
<1>5. GoodList(r)
  BY <1>1, <1>3, <1>4, SamePlaces
<1> QED BY <1>3, <1>4, <1>5 DEF r

LEMMA AfterBeaconGood ==
  ASSUME hears \in [Box -> [Name -> Nat]], NEW b \in Box, NEW l, GoodList(l)
  PROVE  GoodList(AfterBeacon(b, l))
<1> DEFINE r == Refreshed(b, l)
           s == SubSeq(r, 1, Cut(b, l) - 1)
<1>1. GoodList(r) /\ Len(r) = Len(l) /\ Len(l) \in Nat
  BY RefreshedGood, GoodListType
<1>2. Cut(b, l) - 1 \in 0 .. Len(l)
  BY <1>1, CutType
<1>3. r \in Seq(Entry)
  BY <1>1, GoodListType
<1> HIDE DEF r
<1>4. /\ s \in Seq(Entry) /\ Len(s) = Cut(b, l) - 1
      /\ \A i \in 1 .. Cut(b, l) - 1 : s[i] = r[i]
  BY <1>1, <1>2, <1>3
<1> HIDE DEF s
<1>5. Len(s) <= Len(r) /\ \A i \in 1 .. Len(s) : s[i] = r[i]
  BY <1>1, <1>2, <1>4
<1>6. GoodList(s)
  BY <1>1, <1>4, <1>5, SamePlaces
<1> QED BY <1>6 DEF r, s, AfterBeacon

(* Claims: one more client each, and only while there is room.             *)
LEMMA ClaimServes ==
  ASSUME NEW b \in Box, NEW l, GoodList(l), NEW is
  PROVE  /\ Claim(b, l, is) \in Seq(Entry) /\ Len(Claim(b, l, is)) = Len(l)
         /\ \A i \in 1 .. Len(l) : Claim(b, l, is)[i].name = l[i].name
         /\ Served(None, Claim(b, l, is)) =
              Served(None, l) \cup {l[i].name : i \in is \cap DOMAIN l}
<1> DEFINE c == Claim(b, l, is)
           new(i) == [l[i] EXCEPT !.status = "mine", !.server = b]
<1>1. /\ l \in Seq(Entry) /\ Len(l) \in Nat /\ DOMAIN l = 1 .. Len(l)
      /\ \A i \in 1 .. Len(l) : l[i] \in Entry
  BY GoodListType
<1>2. c = [i \in 1 .. Len(l) |-> IF i \in is THEN new(i) ELSE l[i]]
  BY <1>1 DEF Claim
<1>3. \A i \in 1 .. Len(l) : new(i) \in Entry /\ new(i).name = l[i].name /\ new(i).status = "mine"
  <2>1. "mine" \in Status
    BY DEF Status
  <2> QED BY <1>1, <2>1 DEF Entry
<1> HIDE DEF c, new
<1>4. \A i \in 1 .. Len(l) :
        /\ c[i] \in Entry /\ c[i].name = l[i].name
        /\ c[i].status = "mine" <=> i \in is \/ l[i].status = "mine"
  BY <1>1, <1>2, <1>3
<1>5. c \in Seq(Entry) /\ Len(c) = Len(l) /\ DOMAIN c = 1 .. Len(l)
  BY <1>1, <1>2, <1>4
<1>6. Served(None, c) = Served(None, l) \cup {l[i].name : i \in is \cap DOMAIN l}
  <2>1. Served(None, c) = {l[i].name : i \in {j \in 1 .. Len(l) : c[j].status = "mine"}}
    BY <1>4, <1>5 DEF Served
  <2> QED BY <1>1, <1>4, <2>1 DEF Served
<1> QED BY <1>4, <1>5, <1>6 DEF c

LEMMA ClaimGood ==
  ASSUME NEW b \in Box, NEW l, GoodList(l), NEW is,
         Cardinality(Served(None, Claim(b, l, is))) <= PerBox
  PROVE  GoodList(Claim(b, l, is))
<1> DEFINE c == Claim(b, l, is)
<1>1. /\ c \in Seq(Entry) /\ Len(c) = Len(l)
      /\ \A i \in 1 .. Len(l) : c[i].name = l[i].name
  BY ClaimServes
<1>2. DOMAIN c = 1 .. Len(l) /\ DOMAIN l = 1 .. Len(l)
  BY <1>1, LenProperties, GoodListType
<1> HIDE DEF c
<1>3. Distinct(c)
  BY <1>1, <1>2 DEF Distinct, GoodList
<1>4. RoomBelow(PerBox + 1, c)
  BY <1>1, FewServed DEF c
<1> QED BY <1>1, <1>3, <1>4 DEF GoodList, c

LEMMA OneMore ==
  ASSUME NEW l, GoodList(l), Room(l), NEW n, NEW S, S \subseteq Served(None, l) \cup {n}
  PROVE  Cardinality(S) <= PerBox
<1>1. IsFiniteSet(Served(None, l)) /\ Cardinality(Served(None, l)) \in Nat
  BY GoodListType, ServedFinite
<1>2. Cardinality(Served(None, l)) < PerBox
  BY DEF Room, RoomBelow
<1>3. /\ IsFiniteSet(Served(None, l) \cup {n})
      /\ Cardinality(Served(None, l) \cup {n}) <= Cardinality(Served(None, l)) + 1
  BY <1>1, FS_AddElement
<1>4. /\ Cardinality(S) <= Cardinality(Served(None, l) \cup {n})
      /\ IsFiniteSet(S)
  BY <1>3, FS_Subset
<1>5. Cardinality(S) \in Nat /\ Cardinality(Served(None, l) \cup {n}) \in Nat
  BY <1>3, <1>4, FS_CardinalityType
<1> QED BY <1>1, <1>2, <1>3, <1>4, <1>5, ConstAssumption

LEMMA ClaimedGood ==
  ASSUME NEW b \in Box, NEW l, GoodList(l)
  PROVE  GoodList(Claim(b, l, Claimed(b, l)))
<1> DEFINE is == Claimed(b, l)
<1>1. /\ l \in Seq(Entry) /\ Len(l) \in Nat /\ DOMAIN l = 1 .. Len(l)
  BY GoodListType
<1>2. is \subseteq Orphans(l) /\ Orphans(l) \subseteq 1 .. Len(l)
  BY <1>1 DEF Claimed, Orphans
<1>3. CASE is = {}
  <2>1. Served(None, Claim(b, l, is)) = Served(None, l)
    <3> HIDE DEF is
    <3>1. {l[i].name : i \in is \cap DOMAIN l} = {}
      BY <1>3
    <3>2. Served(None, Claim(b, l, is)) =
            Served(None, l) \cup {l[i].name : i \in is \cap DOMAIN l}
      BY ClaimServes
    <3> QED BY <3>1, <3>2
  <2>2. Cardinality(Served(None, l)) <= PerBox
    BY <1>1, FewServed DEF GoodList
  <2> QED BY <2>1, <2>2, ClaimGood
<1>4. CASE is # {}
  <2>1. is \in SUBSET (0 .. Len(l))
    BY <1>1, <1>2
  <2>2. PICK g \in is : \A i \in is : i <= g
    <3> HIDE DEF is
    <3> QED BY <1>1, <1>4, <2>1, Greatest
  <2> DEFINE below == {j \in Orphans(l) : j < g}
  <2>3. Room(Claim(b, l, below))
    BY <2>2 DEF Claimed
  <2>4. is \subseteq below \cup {g}
    BY <1>2, <2>2
  <2> HIDE DEF is, below
  <2>5. GoodList(Claim(b, l, below))
    <3>1. Claim(b, l, below) \in Seq(Entry)
      BY ClaimServes
    <3>2. Cardinality(Served(None, Claim(b, l, below))) \in Nat
      BY <3>1, ServedFinite
    <3>3. Cardinality(Served(None, Claim(b, l, below))) <= PerBox
      BY <2>3, <3>2, ConstAssumption DEF Room, RoomBelow
    <3> QED BY <3>3, ClaimGood
  <2>6. Served(None, Claim(b, l, is)) \subseteq Served(None, Claim(b, l, below)) \cup {l[g].name}
    BY <2>4, ClaimServes
  <2>7. Cardinality(Served(None, Claim(b, l, is))) <= PerBox
    BY <2>3, <2>5, <2>6, OneMore
  <2> QED BY <2>7, ClaimGood DEF is
<1> QED BY <1>3, <1>4

LEMMA ImprovedGood ==
  ASSUME NEW b \in Box, NEW l, GoodList(l), NEW l2 \in Improved(b, l)
  PROVE  GoodList(l2)
<1> DEFINE m == Claim(b, l, Claimed(b, l))
<1>1. GoodList(m)
  BY ClaimedGood
<1>2. CASE l2 = m
  BY <1>1, <1>2
<1>3. CASE l2 # m
  <2>1. Room(m) /\ \E i \in Best(m) : l2 = Claim(b, m, {i})
    BY <1>3 DEF Improved
  <2> HIDE DEF m
  <2>2. PICK i \in Best(m) : l2 = Claim(b, m, {i})
    BY <2>1
  <2>3. Served(None, Claim(b, m, {i})) \subseteq Served(None, m) \cup {m[i].name}
    BY <1>1, ClaimServes
  <2>4. Cardinality(Served(None, Claim(b, m, {i}))) <= PerBox
    BY <1>1, <2>1, <2>3, OneMore
  <2> QED BY <1>1, <2>2, <2>4, ClaimGood
<1> QED BY <1>2, <1>3

LEMMA UnservedGood ==
  ASSUME NEW b \in Box, NEW l, GoodList(l), NEW gone
  PROVE  GoodList(Unserved(b, l, gone))
<1> DEFINE u == Unserved(b, l, gone)
           new(i) == [l[i] EXCEPT !.status = "unknown"]
           lost(i) == \E o \in gone : recv[b][o] # {} /\ l[i].server = o
<1>1. /\ l \in Seq(Entry) /\ Len(l) \in Nat /\ DOMAIN l = 1 .. Len(l)
      /\ \A i \in 1 .. Len(l) : l[i] \in Entry
  BY GoodListType
<1>2. u = [i \in 1 .. Len(l) |-> IF lost(i) THEN new(i) ELSE l[i]]
  BY <1>1 DEF Unserved
<1>3. \A i \in 1 .. Len(l) : new(i) \in Entry /\ new(i).name = l[i].name /\ new(i).status = "unknown"
  <2>1. "unknown" \in Status
    BY DEF Status
  <2> QED BY <1>1, <2>1 DEF Entry
<1> HIDE DEF u, new, lost
<1>4. \A i \in 1 .. Len(l) : /\ u[i] \in Entry /\ u[i].name = l[i].name
                             /\ u[i].status = "mine" => l[i].status = "mine"
  BY <1>1, <1>2, <1>3
<1>5. u \in Seq(Entry) /\ Len(u) = Len(l)
  BY <1>1, <1>2, <1>4
<1>6. GoodList(u)
  BY <1>1, <1>4, <1>5, SamePlaces
<1> QED BY <1>6 DEF u

-----------------------------------------------------------------------------
(* Beacons                                                                 *)

ToldEntry == [name : Name, sig : Nat]
BeaconFrame == {m \in [kind : {"beacon"}, originator : Box, clients : Seq(ToldEntry)] :
                  Distinct(m.clients)}
Packet == [kind : {"packet"}, client : Client]
WireFrame == BeaconFrame \cup Packet

LEMMA BeaconType ==
  ASSUME NEW m \in BeaconFrame
  PROVE  /\ m.kind = "beacon" /\ m.originator \in Box /\ m.clients \in Seq(ToldEntry)
         /\ Distinct(m.clients) /\ Len(m.clients) \in Nat
         /\ DOMAIN m.clients = 1 .. Len(m.clients)
         /\ \A i \in 1 .. Len(m.clients) : m.clients[i].name \in Name /\ m.clients[i].sig \in Nat
<1>1. /\ m.kind = "beacon" /\ m.originator \in Box /\ m.clients \in Seq(ToldEntry)
      /\ Distinct(m.clients)
  BY DEF BeaconFrame
<1>2. /\ Len(m.clients) \in Nat /\ DOMAIN m.clients = 1 .. Len(m.clients)
      /\ \A i \in 1 .. Len(m.clients) : m.clients[i] \in ToldEntry
  BY <1>1, LenProperties, ElementOfSeq
<1> QED BY <1>1, <1>2 DEF ToldEntry

LEMMA RelistedGood ==
  ASSUME NEW l, GoodList(l), NEW m \in BeaconFrame
  PROVE  GoodList(Relisted(l, m)) /\ Len(Relisted(l, m)) = Len(l)
<1> DEFINE r == Relisted(l, m)
           told(i) == l[i].name \in Names(m.clients)
<1>1. /\ l \in Seq(Entry) /\ Len(l) \in Nat /\ DOMAIN l = 1 .. Len(l)
      /\ \A i \in 1 .. Len(l) : l[i] \in Entry
  BY GoodListType
<1>2. r = [i \in 1 .. Len(l) |-> IF told(i) THEN Other(l[i], m) ELSE l[i]]
  BY <1>1 DEF Relisted
<1>3. \A i \in 1 .. Len(l) : told(i) =>
        /\ Other(l[i], m) \in Entry /\ Other(l[i], m).name = l[i].name
        /\ Other(l[i], m).status = "other"
  <2> SUFFICES ASSUME NEW i \in 1 .. Len(l), told(i)
               PROVE  /\ Other(l[i], m) \in Entry /\ Other(l[i], m).name = l[i].name
                      /\ Other(l[i], m).status = "other"
    OBVIOUS
  <2>1. \E j \in DOMAIN m.clients : m.clients[j].name = l[i].name
    BY DEF Names
  <2>2. SigOf(m.clients, l[i].name) \in Nat
    BY <2>1, BeaconType DEF SigOf
  <2>3. "other" \in Status
    BY DEF Status
  <2>4. l[i] \in Entry /\ m.originator \in Box
    BY <1>1, BeaconType
  <2> HIDE DEF told
  <2> QED BY <2>2, <2>3, <2>4 DEF Other, Entry
<1> HIDE DEF r, told
<1>4. \A i \in 1 .. Len(l) : /\ r[i] \in Entry /\ r[i].name = l[i].name
                             /\ r[i].status = "mine" => l[i].status = "mine"
  BY <1>1, <1>2, <1>3
<1>5. r \in Seq(Entry) /\ Len(r) = Len(l)
  BY <1>1, <1>2, <1>4
<1>6. GoodList(r)
  BY <1>1, <1>4, <1>5, SamePlaces
<1> QED BY <1>5, <1>6 DEF r

LEMMA DroppedGood ==
  ASSUME NEW l, GoodList(l), NEW m
  PROVE  GoodList(Dropped(l, m))
<1> DEFINE d == Dropped(l, m)
           new(i) == [l[i] EXCEPT !.status = "unknown"]
           gone(i) == l[i].server = m.originator /\ l[i].name \notin Names(m.clients)
<1>1. /\ l \in Seq(Entry) /\ Len(l) \in Nat /\ DOMAIN l = 1 .. Len(l)
      /\ \A i \in 1 .. Len(l) : l[i] \in Entry
  BY GoodListType
<1>2. d = [i \in 1 .. Len(l) |-> IF gone(i) THEN new(i) ELSE l[i]]
  BY <1>1 DEF Dropped
<1>3. \A i \in 1 .. Len(l) : new(i) \in Entry /\ new(i).name = l[i].name /\ new(i).status = "unknown"
  <2>1. "unknown" \in Status
    BY DEF Status
  <2> QED BY <1>1, <2>1 DEF Entry
<1> HIDE DEF d, new, gone
<1>4. \A i \in 1 .. Len(l) : /\ d[i] \in Entry /\ d[i].name = l[i].name
                             /\ d[i].status = "mine" => l[i].status = "mine"
  BY <1>1, <1>2, <1>3
<1>5. d \in Seq(Entry) /\ Len(d) = Len(l)
  BY <1>1, <1>2, <1>4
<1>6. GoodList(d)
  BY <1>1, <1>4, <1>5, SamePlaces
<1> QED BY <1>6 DEF d

LEMMA NewEntriesType ==
  ASSUME NEW b, NEW l, GoodList(l), NEW m \in BeaconFrame
  PROVE  LET more == NewEntries(b, l, m) IN
         /\ more \in Seq(Entry) /\ Len(l) + Len(more) <= Across /\ Distinct(more)
         /\ \A i \in 1 .. Len(more) : more[i].name \notin Listed(l) /\ more[i].status # "mine"
<1> DEFINE I == {i \in DOMAIN m.clients : m.clients[i].name \notin Listed(l) \cup {b}}
           news == Only(m.clients, I)
           room == IF Across - Len(l) < Len(news) THEN Across - Len(l) ELSE Len(news)
           entry(i) == [name |-> news[i].name, status |-> "other", server |-> m.originator,
                        sig |-> Weak, owner |-> news[i].sig]
           more == [i \in 1 .. room |-> entry(i)]
<1>1. /\ m.clients \in Seq(ToldEntry) /\ m.originator \in Box /\ Distinct(m.clients)
      /\ DOMAIN m.clients = 1 .. Len(m.clients) /\ Len(m.clients) \in Nat
  BY BeaconType
<1>2. news \in Seq(ToldEntry)
  BY <1>1, OnlyPicks
<1>3. PICK k : Picks(k, m.clients, I, news)
  BY <1>1, OnlyPicks
<1>4. \A i \in 1 .. Len(news) : k[i] \in I /\ k[i] \in DOMAIN m.clients /\ news[i] = m.clients[k[i]]
  BY <1>1, <1>3 DEF Picks
<1>5. \A i \in 1 .. Len(news) : news[i].name \notin Listed(l)
  BY <1>4
<1>6. \A i, j \in 1 .. Len(news) : i < j => k[i] < k[j]
  BY <1>3 DEF Picks
<1>7. NewEntries(b, l, m) = more
  BY DEF NewEntries
<1> HIDE DEF I, news
<1>8. Len(news) \in Nat /\ \A i \in 1 .. Len(news) : news[i].name \in Name /\ news[i].sig \in Nat
  <2>1. \A i \in 1 .. Len(news) : news[i] \in ToldEntry
    BY <1>2, ElementOfSeq
  <2> QED BY <1>2, <2>1, LenProperties DEF ToldEntry
<1>9. room \in Nat /\ room <= Len(news) /\ Len(l) + room <= Across
  BY <1>8, GoodListType, ConstAssumption DEF GoodList
<1>10. \A i \in 1 .. room : entry(i) \in Entry
  BY <1>1, <1>8, <1>9 DEF Entry, Status, Weak
<1>11. \A i, j \in 1 .. room : news[i].name = news[j].name => i = j
  <2> SUFFICES ASSUME NEW i \in 1 .. room, NEW j \in 1 .. room, news[i].name = news[j].name
               PROVE  i = j
    OBVIOUS
  <2>1. k[i] = k[j]
    <3>1. i \in 1 .. Len(news) /\ j \in 1 .. Len(news)
      BY <1>8, <1>9
    <3>2. /\ k[i] \in DOMAIN m.clients /\ news[i] = m.clients[k[i]]
          /\ k[j] \in DOMAIN m.clients /\ news[j] = m.clients[k[j]]
      BY <1>4, <3>1
    <3> QED BY <1>1, <3>2 DEF Distinct
  <2>2. k[i] \in Int /\ k[j] \in Int
    BY <1>1, <1>4, <1>8, <1>9
  <2> QED BY <1>6, <1>8, <1>9, <2>1, <2>2
<1>12. \A i \in 1 .. room : more[i] = entry(i)
  OBVIOUS
<1>13. \A i \in 1 .. room : more[i].name = news[i].name /\ more[i].status = "other"
  BY <1>12
<1> HIDE DEF entry
<1>14. more \in Seq(Entry) /\ Len(more) = room /\ DOMAIN more = 1 .. room
  BY <1>9, <1>10
<1> HIDE DEF more, room
<1>15. Distinct(more)
  BY <1>11, <1>13, <1>14 DEF Distinct
<1>16. \A i \in 1 .. room : more[i].name \notin Listed(l) /\ more[i].status # "mine"
  BY <1>5, <1>8, <1>9, <1>13
<1> QED BY <1>7, <1>9, <1>14, <1>15, <1>16

LEMMA ProcessClientsGood ==
  ASSUME NEW b, NEW l, GoodList(l), NEW m \in BeaconFrame
  PROVE  GoodList(ProcessClients(b, l, m))
<1> DEFINE l1 == Relisted(l, m)
<1>1. GoodList(l1)
  BY RelistedGood
<1>2. GoodList(l1 \o NewEntries(b, l1, m))
  <2> HIDE DEF l1
  <2> QED BY <1>1, NewEntriesType, LongerGood
<1> QED BY <1>2, DroppedGood DEF ProcessClients

LEMMA ToldType ==
  ASSUME hears \in [Box -> [Name -> Nat]], NEW b \in Box, NEW l, GoodList(l)
  PROVE  Told(b, l) \in Seq(ToldEntry) /\ Distinct(Told(b, l))
<1> DEFINE strength(i) == IF i = Cut(b, l) /\ i < Len(l) THEN l[Len(l)].sig ELSE Strength(b, l[i])
           entry(i) == [name |-> l[i].name, sig |-> strength(i)]
           t == [i \in DOMAIN l |-> entry(i)]
           I == {i \in DOMAIN l : i <= Cut(b, l) /\ l[i].status = "mine"}
           o == Only(t, I)
<1>1. /\ Len(l) \in Nat /\ DOMAIN l = 1 .. Len(l) /\ \A i \in 1 .. Len(l) : l[i] \in Entry
      /\ Distinct(l)
  BY GoodListType DEF GoodList
<1>2. \A i \in 1 .. Len(l) : l[i].name \in Name /\ strength(i) \in Nat
  <2> TAKE i \in 1 .. Len(l)
  <2>1. l[i].name \in Name /\ l[Len(l)].sig \in Nat
    BY <1>1, Len(l) \in 1 .. Len(l) DEF Entry
  <2>2. Strength(b, l[i]) \in Nat
    BY <1>1, StrengthType
  <2> QED BY <2>1, <2>2
<1>3. Told(b, l) = o
  BY DEF Told
<1>4. \A i \in 1 .. Len(l) : t[i].name = l[i].name
  BY <1>1
<1> HIDE DEF strength
<1>5. t \in Seq(ToldEntry) /\ Len(t) = Len(l)
  <2>1. \A i \in 1 .. Len(l) : entry(i) \in ToldEntry
    BY <1>2 DEF ToldEntry
  <2>2. t = [i \in 1 .. Len(l) |-> entry(i)]
    BY <1>1
  <2> HIDE DEF entry, t
  <2> QED BY <1>1, <2>1, <2>2
<1> HIDE DEF t, I
<1>6. o \in Seq(ToldEntry) /\ \E k : Picks(k, t, I, o)
  BY <1>5, OnlyPicks
<1>7. PICK k : Picks(k, t, I, o)
  BY <1>6
<1>8. Len(o) \in Nat /\ DOMAIN o = 1 .. Len(o)
  BY <1>6, LenProperties
<1> HIDE DEF o
<1>9. Distinct(o)
  <2> SUFFICES ASSUME NEW i \in 1 .. Len(o), NEW j \in 1 .. Len(o), o[i].name = o[j].name
               PROVE  i = j
    BY <1>8 DEF Distinct
  <2>1. /\ k[i] \in 1 .. Len(l) /\ o[i].name = l[k[i]].name
        /\ k[j] \in 1 .. Len(l) /\ o[j].name = l[k[j]].name
    BY <1>4, <1>5, <1>7 DEF Picks
  <2>2. k[i] = k[j]
    BY <1>1, <2>1 DEF Distinct
  <2> QED BY <1>1, <1>7, <1>8, <2>1, <2>2 DEF Picks
<1> QED BY <1>3, <1>6, <1>9

LEMMA BeaconOf ==
  ASSUME NEW o \in Box, NEW t \in Seq(ToldEntry), Distinct(t)
  PROVE  Beacon(o, t) \in WireFrame
BY DEF Beacon, BeaconFrame, WireFrame

LEMMA SendType ==
  ASSUME NEW w \in [Box -> [Box -> Seq(WireFrame)]], NEW a \in Box, NEW to,
         NEW msgs \in Seq(WireFrame)
  PROVE  Send(w, a, to, msgs) \in [Box -> [Box -> Seq(WireFrame)]]
<1>1. \A b \in Box : w[a][b] \o msgs \in Seq(WireFrame)
  <2> TAKE b \in Box
  <2> HIDE DEF WireFrame
  <2> QED BY w[a][b] \in Seq(WireFrame), ConcatProperties
<1> HIDE DEF WireFrame
<1> QED BY <1>1 DEF Send

LEMMA UnwireType ==
  ASSUME NEW w \in [Box -> [Box -> Seq(WireFrame)]], NEW a \in Box, NEW b \in Box,
         w[a][b] # <<>>
  PROVE  /\ Head(w[a][b]) \in WireFrame
         /\ [w EXCEPT ![a][b] = Tail(@)] \in [Box -> [Box -> Seq(WireFrame)]]
<1>1. w[a][b] \in Seq(WireFrame)
  OBVIOUS
<1>2. Head(w[a][b]) \in WireFrame /\ Tail(w[a][b]) \in Seq(WireFrame)
  BY <1>1, HeadTailProperties
<1> QED BY <1>2

-----------------------------------------------------------------------------
(* Frames on the air                                                       *)

AirFrame == {f \in [kind : {"frame", "block", "unblock"}, from : Name, client : Client] :
               f.from \in Client => f.kind = "frame" /\ f.client = f.from}

LEMMA HeardType ==
  ASSUME NEW rd \in [Box -> Seq(AirFrame)], NEW n, NEW msgs \in Seq(AirFrame)
  PROVE  Heard(rd, n, msgs) \in [Box -> Seq(AirFrame)]
<1>1. \A r \in Box : rd[r] \o msgs \in Seq(AirFrame)
  <2> TAKE r \in Box
  <2> HIDE DEF AirFrame
  <2> QED BY rd[r] \in Seq(AirFrame), ConcatProperties
<1> HIDE DEF AirFrame
<1> QED BY <1>1 DEF Heard

LEMMA BurstType ==
  ASSUME NEW b \in Box, NEW c \in Client
  PROVE  Burst(b, c) \in Seq(AirFrame) /\ Len(Burst(b, c)) = 3
<1>1. \A k \in {"frame", "block", "unblock"} : OnAir(k, b, c) \in AirFrame
  BY ConstAssumption DEF OnAir, AirFrame, Name
<1> QED BY <1>1 DEF Burst, BlockFirst

LEMMA PutOutType ==
  ASSUME NEW rd \in [Box -> Seq(AirFrame)], NEW b \in Box, NEW c \in Client
  PROVE  PutOut(rd, b, c) \in [Box -> Seq(AirFrame)]
BY BurstType, HeardType DEF PutOut

LEMMA UnheardType ==
  ASSUME NEW rd \in [Box -> Seq(AirFrame)], NEW b \in Box, rd[b] # <<>>
  PROVE  /\ Head(rd[b]) \in AirFrame
         /\ [rd EXCEPT ![b] = Tail(@)] \in [Box -> Seq(AirFrame)]
<1>1. rd[b] \in Seq(AirFrame)
  OBVIOUS
<1>2. Head(rd[b]) \in AirFrame /\ Tail(rd[b]) \in Seq(AirFrame)
  BY <1>1, HeadTailProperties
<1> QED BY <1>2

-----------------------------------------------------------------------------
(* Types                                                                   *)

Types ==
  /\ scenario \in Scenarios /\ left \in Budget
  /\ up \subseteq Box /\ arcs \subseteq SUBSET Box
  /\ hears \in [Box -> [Name -> Nat]]
  /\ devices \in [Box -> SUBSET Name]
  /\ list \in [Box -> Seq(Entry)] /\ \A b \in Box : GoodList(list[b])
  /\ wire \in [Box -> [Box -> Seq(WireFrame)]]
  /\ radio \in [Box -> Seq(AirFrame)]
  /\ blocks \in [Box -> [Box -> [Client -> Nat]]]
  /\ echoes \in Nat /\ faults \in Nat

LEMMA TypesMean == Types => TypeOK
<1> SUFFICES ASSUME Types PROVE TypeOK
  OBVIOUS
<1>1. ASSUME NEW b \in Box
      PROVE  /\ list[b] \in Seq(Entry) /\ Len(list[b]) <= Across
             /\ Cardinality(Listed(list[b])) = Len(list[b])
             /\ Cardinality(Mine(b)) <= PerBox
  <2>1. GoodList(list[b])
    BY DEF Types
  <2>2. Cardinality(Served(None, list[b])) <= PerBox
    BY <2>1, FewServed DEF GoodList
  <2>3. Mine(b) = Served(None, list[b])
    BY DEF Mine, Served
  <2> QED BY <2>1, <2>2, <2>3, DistinctCounts DEF GoodList
<1> QED BY <1>1 DEF Types, TypeOK

LEMMA ScenarioType ==
  ASSUME NEW s \in Scenarios
  PROVE  /\ s.arcs \subseteq SUBSET Box /\ s.new \subseteq SUBSET Box
         /\ s.serving \in [Client -> Box \cup {None}]
         /\ s.hears \in [Box -> [Name -> Nat]] /\ s.to \in [Box -> [Name -> Nat]]
         /\ s.left \in Budget
<1>1. s \in Scenario
  BY ConstAssumption
<1> QED BY <1>1 DEF Scenario

(* SeqOf lists each member of a finite set once.                           *)
LEMMA SeqOfType ==
  ASSUME NEW S, IsFiniteSet(S)
  PROVE  /\ Cardinality(S) \in Nat /\ SeqOf(S) \in [1 .. Cardinality(S) -> S]
         /\ \A i, j \in 1 .. Cardinality(S) : SeqOf(S)[i] = SeqOf(S)[j] => i = j
<1> DEFINE n == Cardinality(S)
           q == SeqOf(S)
<1>1. n \in Nat /\ ExistsBijection(1 .. n, S)
  BY FS_CardinalityType
<1>2. PICK f \in [1 .. n -> S] : \A s \in S : \E i \in 1 .. n : f[i] = s
  BY <1>1 DEF ExistsBijection, Bijection, Surjection
<1>3. S = {f[i] : i \in DOMAIN f}
  BY <1>2
<1>4. \E g \in [1 .. n -> S] : S = {g[i] : i \in DOMAIN g}
  BY <1>3
<1>5. q \in [1 .. n -> S] /\ S = {q[i] : i \in DOMAIN q}
  BY <1>4 DEF SeqOf
<1> HIDE DEF q
<1>6. q \in Surjection(1 .. n, S)
  <2>1. \A s \in S : \E i \in 1 .. n : q[i] = s
    BY <1>5
  <2> QED BY <1>5, <2>1, Fun_IsSurj
<1>7. q \in Injection(1 .. n, S)
  <2>1. IsFiniteSet(1 .. n) /\ Cardinality(1 .. n) = n
    BY <1>1, Numbers
  <2> QED BY <1>6, <2>1, FS_SurjSameCardinalityImpliesInj
<1>8. \A i, j \in 1 .. n : q[i] = q[j] => i = j
  BY <1>7 DEF Injection, IsInjective
<1> QED BY <1>1, <1>5, <1>8 DEF q

LEMMA InitTypes == Init => Types
<1> SUFFICES ASSUME Init PROVE Types
  OBVIOUS
<1> DEFINE s == scenario
           seen == {c \in Client : s.serving[c] # None}
           q == SeqOf(seen)
           n == Cardinality(seen)
<1>1. s \in Scenarios
  BY DEF Init
<1>2. /\ s.arcs \subseteq SUBSET Box /\ s.serving \in [Client -> Box \cup {None}]
      /\ s.hears \in [Box -> [Name -> Nat]] /\ s.left \in Budget
  BY <1>1, ScenarioType
<1>3. IsFiniteSet(seen)
  BY FS_Subset, ConstAssumption
<1>4. /\ n \in Nat /\ q \in [1 .. n -> seen]
      /\ \A i, j \in 1 .. n : q[i] = q[j] => i = j
  <2> HIDE DEF seen
  <2> QED BY <1>3, SeqOfType
<1>5. \A b \in Box, c \in seen : /\ Known(s, b, c) \in Entry /\ Known(s, b, c).name = c
                                 /\ Known(s, b, c).status = "mine" => s.serving[c] = b
  <2> TAKE b \in Box, c \in seen
  <2>1. c \in Client /\ c \in Name /\ s.serving[c] \in Box
    BY <1>2 DEF Name
  <2>2. s.hears[b][c] \in Nat /\ s.hears[s.serving[c]][c] \in Nat
    BY <1>2, <2>1
  <2> QED BY <2>1, <2>2 DEF Known, Entry, Status
<1>6. list = [b \in Box |-> [i \in 1 .. n |-> Known(s, b, q[i])]]
  BY DEF Init
<1>7. ASSUME NEW b \in Box
      PROVE  list[b] \in Seq(Entry) /\ GoodList(list[b])
  <2> DEFINE l == [i \in 1 .. n |-> Known(s, b, q[i])]
  <2>1. \A i \in 1 .. n : /\ l[i] \in Entry /\ l[i].name = q[i]
                          /\ l[i].status = "mine" => s.serving[q[i]] = b
    BY <1>4, <1>5
  <2> HIDE DEF seen, q, n
  <2>2. l \in Seq(Entry) /\ Len(l) = n /\ DOMAIN l = 1 .. n
    BY <1>4, <2>1
  <2> HIDE DEF l
  <2>3. Distinct(l)
    BY <1>4, <2>1, <2>2 DEF Distinct
  <2>4. Len(l) <= Across
    BY <1>1, <2>2, ConstAssumption DEF n, seen
  <2>5. Cardinality(Served(None, l)) <= PerBox
    <3> DEFINE mine == {c \in Client : s.serving[c] = b}
    <3>1. Served(None, l) \subseteq mine
      BY <1>4, <2>1, <2>2 DEF Served, seen
    <3>2. IsFiniteSet(mine)
      BY FS_Subset, ConstAssumption
    <3>3. Cardinality(mine) <= PerBox
      BY <1>1, ConstAssumption
    <3> HIDE DEF mine
    <3>4. Cardinality(Served(None, l)) <= Cardinality(mine) /\ Cardinality(mine) \in Nat
      BY <3>1, <3>2, FS_Subset, FS_CardinalityType
    <3>5. Cardinality(Served(None, l)) \in Nat
      BY <2>2, ServedFinite
    <3> QED BY <3>3, <3>4, <3>5, ConstAssumption
  <2>6. GoodList(l)
    BY <2>2, <2>3, <2>4, <2>5, FewServed DEF GoodList
  <2> QED BY <1>6, <2>2, <2>6 DEF l
<1>8. devices \in [Box -> SUBSET Name]
  BY DEF Init, Name
<1>9. wire \in [Box -> [Box -> Seq(WireFrame)]] /\ radio \in [Box -> Seq(AirFrame)]
      /\ blocks \in [Box -> [Box -> [Client -> Nat]]]
  BY DEF Init
<1>10. list \in [Box -> Seq(Entry)]
  <2> HIDE DEF q, n
  <2> QED BY <1>6, <1>7
<1> QED BY <1>1, <1>2, <1>7, <1>8, <1>9, <1>10 DEF Init, Types

LEMMA SpendType ==
  ASSUME left \in Budget, NEW what \in {"moves", "offs", "casts", "faults"}, Spend(what)
  PROVE  left' \in Budget
BY DEF Spend, Budget

LEMMA NoticeTypes == ASSUME Types, NEW b \in Box, Notice(b) PROVE Types'
<1>1. PICK n \in Name : /\ devices' = [devices EXCEPT ![b] = @ \cup {n}]
                        /\ list' = [list EXCEPT ![b] = Added(b, @, n)]
  BY DEF Notice
<1>2. GoodList(Added(b, list[b], n)) /\ Added(b, list[b], n) \in Seq(Entry)
  BY AddedGood DEF Types, GoodList
<1>3. list' \in [Box -> Seq(Entry)] /\ \A a \in Box : GoodList(list'[a])
  BY <1>1, <1>2 DEF Types
<1>4. devices' \in [Box -> SUBSET Name]
  BY <1>1 DEF Types
<1> QED BY <1>3, <1>4 DEF Types, Notice, airVars

LEMMA RoundTypes == ASSUME Types, NEW b \in Box, Round(b) PROVE Types'
<1>1. PICK gone \in SUBSET {o \in Box \ up : recv[b][o] # None} :
        LET l0 == Unserved(b, list[b], gone)
            l1 == AfterBeacon(b, l0)
        IN  \E l2 \in Improved(b, l1) :
              LET msgs == IF l2 = l1 THEN <<Beacon(b, Told(b, l0))>>
                          ELSE <<Beacon(b, Told(b, l0)), Beacon(b, Told(b, l2))>>
              IN  /\ list' = [list EXCEPT ![b] = IF l2 = l1 THEN l1 ELSE AfterBeacon(b, l2)]
                  /\ wire' = Send(wire, b, Nbrs(b), msgs)
  BY DEF Round
<1> DEFINE l0 == Unserved(b, list[b], gone)
           l1 == AfterBeacon(b, l0)
<1>2. GoodList(l0)
  BY UnservedGood DEF Types
<1>3. GoodList(l1)
  <2> HIDE DEF l0
  <2> QED BY <1>2, AfterBeaconGood DEF Types
<1>4. PICK l2 \in Improved(b, l1) :
        LET msgs == IF l2 = l1 THEN <<Beacon(b, Told(b, l0))>>
                    ELSE <<Beacon(b, Told(b, l0)), Beacon(b, Told(b, l2))>>
        IN  /\ list' = [list EXCEPT ![b] = IF l2 = l1 THEN l1 ELSE AfterBeacon(b, l2)]
            /\ wire' = Send(wire, b, Nbrs(b), msgs)
  BY <1>1
<1> DEFINE l3 == IF l2 = l1 THEN l1 ELSE AfterBeacon(b, l2)
           m1 == Beacon(b, Told(b, l0))
           m2 == Beacon(b, Told(b, l2))
           msgs == IF l2 = l1 THEN <<m1>> ELSE <<m1, m2>>
<1>5. list' = [list EXCEPT ![b] = l3] /\ wire' = Send(wire, b, Nbrs(b), msgs)
  BY <1>4
<1> HIDE DEF l0, l1
<1>6. GoodList(l2)
  BY <1>3, ImprovedGood
<1>7. GoodList(l3)
  BY <1>3, <1>6, AfterBeaconGood DEF Types
<1>8. m1 \in WireFrame /\ m2 \in WireFrame
  BY <1>2, <1>6, ToldType, BeaconOf DEF Types
<1> HIDE DEF m1, m2, l3, WireFrame
<1>9. msgs \in Seq(WireFrame)
  BY <1>8
<1> HIDE DEF msgs
<1>10. wire' \in [Box -> [Box -> Seq(WireFrame)]]
  BY <1>5, <1>9, SendType DEF Types
<1>11. list' \in [Box -> Seq(Entry)] /\ \A a \in Box : GoodList(list'[a])
  BY <1>5, <1>7 DEF Types, GoodList
<1> QED BY <1>10, <1>11 DEF Types, Round, airVars

LEMMA ReadBeaconTypes == ASSUME Types, NEW a \in Box, NEW b \in Box, ReadBeacon(a, b) PROVE Types'
<1> DEFINE m == Head(wire[a][b])
           w == [wire EXCEPT ![a][b] = Tail(@)]
           l == Trim(list[b], Trimmed(a, m))
<1>1. /\ wire[a][b] # <<>> /\ m.kind = "beacon"
      /\ list' = [list EXCEPT ![b] = ProcessClients(b, l, m)]
      /\ wire' = Send(w, b, Nbrs(b) \ {a}, <<m>>)
  BY DEF ReadBeacon
<1>2. m \in WireFrame /\ w \in [Box -> [Box -> Seq(WireFrame)]]
  BY <1>1, UnwireType DEF Types
<1>3. m \in BeaconFrame
  BY <1>1, <1>2 DEF WireFrame, Packet
<1> HIDE DEF m, w
<1>4. GoodList(l)
  BY OnlyGood DEF Trim, Types
<1> HIDE DEF l
<1>5. GoodList(ProcessClients(b, l, m))
  BY <1>3, <1>4, ProcessClientsGood
<1>6. <<m>> \in Seq(WireFrame)
  BY <1>2
<1>7. wire' \in [Box -> [Box -> Seq(WireFrame)]]
  BY <1>1, <1>2, <1>6, SendType
<1>8. list' \in [Box -> Seq(Entry)] /\ \A c \in Box : GoodList(list'[c])
  BY <1>1, <1>5 DEF Types, GoodList
<1> QED BY <1>7, <1>8 DEF Types, ReadBeacon, airVars

LEMMA ForwardedType ==
  ASSUME NEW a \in Box, NEW b \in Box
  PROVE  Forwarded(a, b) \in Seq(WireFrame)
<1> DEFINE os == {o \in Box : recv[a][o] # None} \ {b}
           n == Cardinality(os)
           more == [i \in 1 .. n |-> Beacon(SeqOf(os)[i], <<>>)]
<1>1. \A o \in Box : Beacon(o, <<>>) \in WireFrame
  <2>1. <<>> \in Seq(ToldEntry) /\ Distinct(<<>>)
    BY DEF Distinct
  <2> QED BY <2>1, BeaconOf
<1>2. IsFiniteSet(os) /\ os \subseteq Box
  BY ConstAssumption, FS_Subset
<1>3. Forwarded(a, b) = <<Beacon(a, <<>>)>> \o more
  BY DEF Forwarded
<1> HIDE DEF os
<1>4. n \in Nat /\ \A i \in 1 .. n : SeqOf(os)[i] \in Box
  BY <1>2, SeqOfType
<1> HIDE DEF n, WireFrame
<1>5. more \in Seq(WireFrame)
  BY <1>1, <1>4
<1>6. <<Beacon(a, <<>>)>> \in Seq(WireFrame)
  BY <1>1
<1> QED BY <1>3, <1>5, <1>6, ConcatProperties

LEMMA JoinTypes == ASSUME Types, NEW a \in Box, NEW b \in Box, Join(a, b) PROVE Types'
<1> DEFINE w == Send(wire, a, {b}, Forwarded(a, b))
<1>1. w \in [Box -> [Box -> Seq(WireFrame)]]
  BY ForwardedType, SendType DEF Types
<1>2. Send(w, b, {a}, Forwarded(b, a)) \in [Box -> [Box -> Seq(WireFrame)]]
  <2> HIDE DEF w
  <2> QED BY <1>1, ForwardedType, SendType
<1>3. wire' \in [Box -> [Box -> Seq(WireFrame)]]
  BY <1>2 DEF Join
<1>4. arcs' \subseteq SUBSET Box
  BY DEF Join, Types
<1> QED BY <1>3, <1>4 DEF Types, Join, airVars

LEMMA ReadFrameTypes == ASSUME Types, NEW b \in Box, ReadFrame(b) PROVE Types'
<1> DEFINE f == Head(radio[b])
           rd == [radio EXCEPT ![b] = Tail(@)]
<1>1. radio[b] # <<>>
  BY DEF ReadFrame
<1>2. f \in AirFrame /\ rd \in [Box -> Seq(AirFrame)]
  BY <1>1, UnheardType DEF Types
<1>3. f.client \in Client
  BY <1>2 DEF AirFrame
<1>4. PutOut(rd, b, f.client) \in [Box -> Seq(AirFrame)]
  <2> HIDE DEF rd, f
  <2> QED BY <1>2, <1>3, PutOutType
<1>5. <<[kind |-> "packet", client |-> f.client]>> \in Seq(WireFrame)
  <2>1. [kind |-> "packet", client |-> f.client] \in WireFrame
    BY <1>3 DEF WireFrame, Packet
  <2> HIDE DEF f
  <2> QED BY <2>1
<1>6. Send(wire, b, Nbrs(b), <<[kind |-> "packet", client |-> f.client]>>)
        \in [Box -> [Box -> Seq(WireFrame)]]
  <2> HIDE DEF f
  <2> QED BY <1>5, SendType DEF Types
<1>7. radio' \in [Box -> Seq(AirFrame)] /\ wire' \in [Box -> [Box -> Seq(WireFrame)]]
      /\ echoes' \in Nat
  <2>1. \/ radio' = rd /\ UNCHANGED <<wire, echoes>>
        \/ /\ wire' = Send(wire, b, Nbrs(b), <<[kind |-> "packet", client |-> f.client]>>)
           /\ radio' = PutOut(rd, b, f.client)
           /\ echoes' = echoes + IF f.from = f.client THEN 0 ELSE 1
    BY DEF ReadFrame
  <2>2. /\ wire \in [Box -> [Box -> Seq(WireFrame)]]
        /\ echoes \in Nat /\ echoes + (IF f.from = f.client THEN 0 ELSE 1) \in Nat
    BY DEF Types
  <2> HIDE DEF rd, f
  <2> QED BY <1>2, <1>4, <1>6, <2>1, <2>2
<1> QED BY <1>7 DEF Types, ReadFrame

LEMMA ReadPacketTypes == ASSUME Types, NEW a \in Box, NEW b \in Box, ReadPacket(a, b) PROVE Types'
<1> DEFINE m == Head(wire[a][b])
           w == [wire EXCEPT ![a][b] = Tail(@)]
<1>1. /\ wire[a][b] # <<>> /\ m.kind = "packet"
      /\ wire' = Send(w, b, Nbrs(b) \ {a}, <<m>>)
      /\ radio' = PutOut(radio, b, m.client)
  BY DEF ReadPacket
<1>2. m \in WireFrame /\ w \in [Box -> [Box -> Seq(WireFrame)]]
  BY <1>1, UnwireType DEF Types
<1>3. m.client \in Client
  BY <1>1, <1>2 DEF WireFrame, Packet, BeaconFrame
<1> HIDE DEF m, w
<1>4. <<m>> \in Seq(WireFrame)
  BY <1>2
<1>5. wire' \in [Box -> [Box -> Seq(WireFrame)]] /\ radio' \in [Box -> Seq(AirFrame)]
  BY <1>1, <1>2, <1>3, <1>4, SendType, PutOutType DEF Types
<1> QED BY <1>5 DEF Types, ReadPacket

LEMMA ReadBlockTypes == ASSUME Types, NEW b \in Box, ReadBlock(b) PROVE Types'
<1> DEFINE f == Head(radio[b])
<1>1. /\ radio[b] # <<>> /\ f.kind \in {"block", "unblock"}
      /\ list' = [list EXCEPT ![b] = Trim(@, {f.from})]
      /\ blocks' = [blocks EXCEPT ![b][f.from][f.client] =
                      IF f.kind = "block" THEN @ + 1 ELSE IF @ > 0 THEN @ - 1 ELSE 0]
      /\ radio' = [radio EXCEPT ![b] = Tail(@)]
  BY DEF ReadBlock
<1>2. f \in AirFrame /\ radio' \in [Box -> Seq(AirFrame)]
  BY <1>1, UnheardType DEF Types
<1>3. f.from \in Box /\ f.client \in Client
  BY <1>1, <1>2 DEF AirFrame, Name
<1> HIDE DEF f
<1>4. blocks' \in [Box -> [Box -> [Client -> Nat]]]
  <2>1. blocks[b][f.from][f.client] \in Nat
    BY <1>3 DEF Types
  <2>2. (IF f.kind = "block" THEN blocks[b][f.from][f.client] + 1
         ELSE IF blocks[b][f.from][f.client] > 0 THEN blocks[b][f.from][f.client] - 1 ELSE 0)
          \in Nat
    BY <2>1
  <2> QED BY <1>1, <1>3, <2>2 DEF Types
<1>5. GoodList(Trim(list[b], {f.from}))
  BY OnlyGood DEF Trim, Types
<1>6. list' \in [Box -> Seq(Entry)] /\ \A c \in Box : GoodList(list'[c])
  BY <1>1, <1>5 DEF Types, GoodList
<1> QED BY <1>2, <1>4, <1>6 DEF Types, ReadBlock

LEMMA ExpireTypes == ASSUME Types, NEW b \in Box, Expire(b) PROVE Types'
<1>1. PICK s \in Box, c \in Client : /\ blocks[b][s][c] > 0
                                     /\ blocks' = [blocks EXCEPT ![b][s][c] = @ - 1]
  BY DEF Expire
<1>2. blocks[b][s][c] - 1 \in Nat
  BY <1>1 DEF Types
<1>3. blocks' \in [Box -> [Box -> [Client -> Nat]]]
  BY <1>1, <1>2 DEF Types
<1> QED BY <1>3 DEF Types, Expire

LEMMA CastTypes == ASSUME Types, NEW c \in Client, Cast(c) PROVE Types'
<1>1. OnAir("frame", c, c) \in AirFrame
  BY DEF OnAir, AirFrame, Name
<1>2. <<OnAir("frame", c, c)>> \in Seq(AirFrame)
  BY <1>1
<1>3. radio' \in [Box -> Seq(AirFrame)]
  BY <1>2, HeardType DEF Cast, Types
<1>4. left' \in Budget
  BY SpendType DEF Cast, Types
<1> QED BY <1>3, <1>4 DEF Types, Cast

LEMMA MoveTypes == ASSUME Types, NEW b \in Box, NEW n \in Name, Move(b, n) PROVE Types'
<1>1. left' \in Budget
  BY SpendType DEF Move, Types
<1>2. scenario.to[b][n] \in Nat
  BY ScenarioType DEF Types
<1>3. hears' \in [Box -> [Name -> Nat]]
  BY <1>2 DEF Move, Types
<1> QED BY <1>1, <1>3 DEF Types, Move, airVars

LEMMA SwitchOffTypes == ASSUME Types, NEW b \in Box, SwitchOff(b) PROVE Types'
<1>1. left' \in Budget
  BY SpendType DEF SwitchOff, Types
<1>2. up' \subseteq Box /\ arcs' \subseteq SUBSET Box
  BY DEF SwitchOff, Types
<1>3. wire' \in [Box -> [Box -> Seq(WireFrame)]]
  <2> HIDE DEF WireFrame
  <2> QED BY DEF SwitchOff, Types
<1>4. radio' \in [Box -> Seq(AirFrame)]
  <2> HIDE DEF AirFrame
  <2> QED BY DEF SwitchOff, Types
<1> QED BY <1>1, <1>2, <1>3, <1>4 DEF Types, SwitchOff

LEMMA MissTypes == ASSUME Types, NEW b \in Box, Miss(b) PROVE Types'
<1>1. left' \in Budget
  BY SpendType DEF Miss, Types
<1>2. radio' \in [Box -> Seq(AirFrame)]
  BY UnheardType DEF Miss, Types
<1>3. faults' \in Nat
  <2>1. faults' = faults + IF Head(radio[b]).kind = "frame" THEN 0 ELSE 1
    BY DEF Miss
  <2> QED BY <2>1 DEF Types
<1> QED BY <1>1, <1>2, <1>3 DEF Types, Miss

LEMMA WipeTypes == ASSUME Types, NEW b \in Box, Wipe(b) PROVE Types'
<1>1. left' \in Budget
  BY SpendType DEF Wipe, Types
<1>2. blocks' \in [Box -> [Box -> [Client -> Nat]]] /\ faults' \in Nat
  BY DEF Wipe, Types
<1> QED BY <1>1, <1>2 DEF Types, Wipe

LEMMA LoseTypes == ASSUME Types, NEW a \in Box, NEW b \in Box, Lose(a, b) PROVE Types'
<1>1. left' \in Budget
  BY SpendType DEF Lose, Types
<1>2. wire' \in [Box -> [Box -> Seq(WireFrame)]]
  BY UnwireType DEF Lose, Types
<1> QED BY <1>1, <1>2 DEF Types, Lose, airVars

(* The steps of Next, by action, as the proofs below take them.            *)
LEMMA NextTypes == Types /\ [Next]_vars => Types'
<1> SUFFICES ASSUME Types, [Next]_vars PROVE Types'
  OBVIOUS
<1>1. CASE Outside
  BY <1>1, JoinTypes, LoseTypes, SwitchOffTypes, MissTypes, WipeTypes, MoveTypes, CastTypes
     DEF Outside
<1>2. CASE \E b \in Box : Notice(b) \/ Round(b) \/ Read(b) \/ Expire(b)
  BY <1>2, NoticeTypes, RoundTypes, ExpireTypes, ReadFrameTypes, ReadBlockTypes,
     ReadBeaconTypes, ReadPacketTypes DEF Read
<1>3. CASE UNCHANGED vars
  BY <1>3 DEF vars, airVars, Types
<1> QED BY <1>1, <1>2, <1>3 DEF Next

(* Lists hold each client once and no more than there is room for, and a   *)
(* box never serves more clients than it may, whatever is claimed, taken   *)
(* over, heard of and taken out in one beacon round (TypeOK).              *)
THEOREM TypeCorrect == Spec => []TypeOK
<1>1. Spec => []Types
  BY InitTypes, NextTypes, PTL DEF Spec
<1> QED BY <1>1, TypesMean, PTL

-----------------------------------------------------------------------------
(* Echoes. A frame that a box put out comes right behind its block. The    *)
(* boxes that are about to read such a frame without a block against it are*)
(* the ones where an echo may follow: as many faults came before.          *)

Relayed(f)   == f.kind = "frame" /\ f.from \in Box
Announced(q) == \A i \in 2 .. Len(q) : Relayed(q[i]) => q[i - 1] = [q[i] EXCEPT !.kind = "block"]
Shown(q)     == q # <<>> /\ Relayed(Head(q))
Bare == {b \in Box : /\ Shown(radio[b])
                     /\ blocks[b][Head(radio[b]).from][Head(radio[b]).client] = 0}
EchoInv == (\A b \in Box : Announced(radio[b])) /\ echoes + Cardinality(Bare) <= faults

LEMMA AirSeq ==
  ASSUME NEW q \in Seq(AirFrame)
  PROVE  /\ Len(q) \in Nat /\ DOMAIN q = 1 .. Len(q)
         /\ \A i \in 1 .. Len(q) : q[i] \in AirFrame
         /\ q # <<>> => Len(q) > 0 /\ Head(q) = q[1]
<1> HIDE DEF AirFrame
<1> QED BY LenProperties, ElementOfSeq, EmptySeq, HeadTailProperties

LEMMA TailAnnounced ==
  ASSUME NEW q \in Seq(AirFrame), q # <<>>, Announced(q)
  PROVE  /\ Announced(Tail(q))
         /\ Shown(Tail(q)) => Head(q) = [Head(Tail(q)) EXCEPT !.kind = "block"]
<1> DEFINE t == Tail(q)
<1>1. t \in Seq(AirFrame) /\ Len(t) = Len(q) - 1 /\ \A i \in 1 .. Len(t) : t[i] = q[i + 1]
  <2> HIDE DEF AirFrame
  <2> QED BY HeadTailProperties, AirSeq
<1>2. /\ Len(q) \in Nat /\ Head(q) = q[1]
      /\ t # <<>> => Len(t) > 0 /\ Head(t) = t[1]
  BY <1>1, AirSeq
<1> HIDE DEF t
<1>3. Announced(t)
  <2> SUFFICES ASSUME NEW i \in 2 .. Len(t), Relayed(t[i])
               PROVE  t[i - 1] = [t[i] EXCEPT !.kind = "block"]
    BY DEF Announced
  <2>1. i + 1 \in 2 .. Len(q) /\ t[i] = q[i + 1] /\ t[i - 1] = q[i]
    BY <1>1, <1>2
  <2> QED BY <2>1 DEF Announced
<1>4. Shown(t) => Head(t) = q[2] /\ 2 \in 2 .. Len(q)
  BY <1>1, <1>2 DEF Shown
<1>5. Shown(t) => q[2 - 1] = [q[2] EXCEPT !.kind = "block"]
  BY <1>4 DEF Announced, Shown
<1> QED BY <1>2, <1>3, <1>4, <1>5 DEF t

(* What is appended as a whole, its frame behind its block, stays so.      *)
LEMMA ConcatAnnounced ==
  ASSUME NEW q \in Seq(AirFrame), NEW m \in Seq(AirFrame), m # <<>>,
         Announced(q), Announced(m), ~ Shown(m)
  PROVE  /\ Announced(q \o m)
         /\ Shown(q \o m) => Shown(q) /\ Head(q \o m) = Head(q)
<1> DEFINE o == q \o m
<1>1. /\ o \in Seq(AirFrame) /\ Len(o) = Len(q) + Len(m)
      /\ \A i \in 1 .. Len(q) + Len(m) : o[i] = IF i <= Len(q) THEN q[i] ELSE m[i - Len(q)]
  <2> HIDE DEF AirFrame
  <2> QED BY ConcatProperties
<1>2. /\ Len(q) \in Nat /\ Len(m) \in Nat /\ Len(m) > 0 /\ Head(m) = m[1]
      /\ q # <<>> => Len(q) > 0 /\ Head(q) = q[1]
      /\ o # <<>> => Len(o) > 0 /\ Head(o) = o[1]
  BY <1>1, AirSeq
<1> HIDE DEF o
<1>3. Announced(o)
  <2> SUFFICES ASSUME NEW i \in 2 .. Len(q) + Len(m), Relayed(o[i])
               PROVE  o[i - 1] = [o[i] EXCEPT !.kind = "block"]
    BY <1>1 DEF Announced
  <2>1. CASE i <= Len(q)
    <3>1. o[i] = q[i] /\ o[i - 1] = q[i - 1]
      BY <1>1, <1>2, <2>1
    <3> QED BY <1>2, <2>1, <3>1 DEF Announced
  <2>2. CASE i = Len(q) + 1
    <3>1. o[i] = m[1]
      BY <1>1, <1>2, <2>2
    <3> QED BY <1>2, <3>1 DEF Shown
  <2>3. CASE i > Len(q) + 1
    <3> DEFINE j == i - Len(q)
    <3>1. /\ j \in 2 .. Len(m) /\ i - 1 - Len(q) = j - 1
          /\ i \in 1 .. Len(q) + Len(m) /\ i - 1 \in 1 .. Len(q) + Len(m)
          /\ ~ (i <= Len(q)) /\ ~ (i - 1 <= Len(q))
      BY <1>2, <2>3
    <3>2. o[i] = m[j] /\ o[i - 1] = m[i - 1 - Len(q)]
      BY <1>1, <3>1
    <3>3. o[i - 1] = m[j - 1]
      BY <3>1, <3>2
    <3> HIDE DEF j
    <3>4. Relayed(m[j])
      BY <3>2
    <3> QED BY <3>1, <3>2, <3>3, <3>4 DEF Announced
  <2> QED BY <1>2, <2>1, <2>2, <2>3
<1>4. Shown(o) => q # <<>>
  <2>1. q = <<>> => o[1] = m[1]
    BY <1>1, <1>2
  <2> QED BY <1>2, <2>1 DEF Shown
<1>5. Shown(o) => Head(o) = Head(q)
  BY <1>1, <1>2, <1>4 DEF Shown
<1>6. Shown(o) => Shown(q) /\ Head(o) = Head(q)
  BY <1>4, <1>5 DEF Shown
<1> QED BY <1>3, <1>6 DEF o

(* Nobody's next frame changes when more is put on the air, unless nothing *)
(* was left to read.                                                       *)
LEMMA HeardAnnounced ==
  ASSUME NEW rd \in [Box -> Seq(AirFrame)], \A r \in Box : Announced(rd[r]),
         NEW n, NEW m \in Seq(AirFrame), m # <<>>, Announced(m), ~ Shown(m)
  PROVE  \A r \in Box : /\ Announced(Heard(rd, n, m)[r])
                        /\ Shown(Heard(rd, n, m)[r]) =>
                             Shown(rd[r]) /\ Head(Heard(rd, n, m)[r]) = Head(rd[r])
<1> TAKE r \in Box
<1>1. Heard(rd, n, m)[r] = IF r \in Hearers(n) THEN rd[r] \o m ELSE rd[r]
  BY DEF Heard
<1>2. rd[r] \in Seq(AirFrame) /\ Announced(rd[r])
  OBVIOUS
<1>3. CASE r \in Hearers(n)
  BY <1>1, <1>2, <1>3, ConcatAnnounced
<1>4. CASE r \notin Hearers(n)
  BY <1>1, <1>2, <1>4
<1> QED BY <1>3, <1>4

LEMMA BurstAnnounced ==
  ASSUME NEW b \in Box, NEW c \in Client
  PROVE  Burst(b, c) # <<>> /\ Announced(Burst(b, c)) /\ ~ Shown(Burst(b, c))
<1> DEFINE q == Burst(b, c)
<1>1. /\ Len(q) = 3 /\ q[1] = OnAir("block", b, c) /\ q[2] = OnAir("frame", b, c)
      /\ q[3] = OnAir("unblock", b, c) /\ Head(q) = q[1] /\ q # <<>>
  BY DEF Burst, BlockFirst
<1> HIDE DEF q
<1>2. q[1] = [q[2] EXCEPT !.kind = "block"] /\ ~ Relayed(q[1]) /\ ~ Relayed(q[3])
  BY <1>1 DEF OnAir, Relayed
<1>3. Announced(q)
  BY <1>1, <1>2 DEF Announced
<1> QED BY <1>1, <1>2, <1>3 DEF Shown, q

LEMMA PutOutAnnounced ==
  ASSUME NEW rd \in [Box -> Seq(AirFrame)], \A r \in Box : Announced(rd[r]),
         NEW b \in Box, NEW c \in Client
  PROVE  \A r \in Box : /\ Announced(PutOut(rd, b, c)[r])
                        /\ Shown(PutOut(rd, b, c)[r]) =>
                             Shown(rd[r]) /\ Head(PutOut(rd, b, c)[r]) = Head(rd[r])
<1>1. CASE Mine(b) \ {c} = {}
  BY <1>1 DEF PutOut
<1>2. CASE Mine(b) \ {c} # {}
  <2>1. PutOut(rd, b, c) = Heard(rd, b, Burst(b, c))
    BY <1>2 DEF PutOut
  <2> QED BY <2>1, BurstType, BurstAnnounced, HeardAnnounced
<1> QED BY <1>1, <1>2

(* Counting the boxes an echo may come from.                               *)
LEMMA BareFinite ==
  /\ \A S \in SUBSET Box : IsFiniteSet(S) /\ Cardinality(S) \in Nat
  /\ \A S, T \in SUBSET Box : S \subseteq T => Cardinality(S) <= Cardinality(T)
  /\ \A S \in SUBSET Box, b \in Box : Cardinality(S \cup {b}) <= Cardinality(S) + 1
  /\ \A S \in SUBSET Box : \A b \in S : Cardinality(S \ {b}) = Cardinality(S) - 1
<1>1. \A S \in SUBSET Box : IsFiniteSet(S) /\ Cardinality(S) \in Nat
  BY ConstAssumption, FS_Subset, FS_CardinalityType
<1>2. \A S, T \in SUBSET Box : S \subseteq T => Cardinality(S) <= Cardinality(T)
  BY <1>1, FS_Subset
<1>3. \A S \in SUBSET Box, b \in Box : Cardinality(S \cup {b}) <= Cardinality(S) + 1
  <2> TAKE S \in SUBSET Box, b \in Box
  <2>1. Cardinality(S \cup {b}) = IF b \in S THEN Cardinality(S) ELSE Cardinality(S) + 1
    BY <1>1, FS_AddElement
  <2> QED BY <1>1, <2>1
<1>4. \A S \in SUBSET Box : \A b \in S : Cardinality(S \ {b}) = Cardinality(S) - 1
  BY <1>1, FS_RemoveElement
<1> QED BY <1>1, <1>2, <1>3, <1>4

LEMMA NoMoreBare ==
  ASSUME Types, EchoInv, Bare' \subseteq Bare, UNCHANGED <<echoes, faults>>,
         \A b \in Box : Announced(radio'[b])
  PROVE  EchoInv'
<1>1. Bare \in SUBSET Box /\ Bare' \in SUBSET Box
  BY DEF Bare
<1>2. Cardinality(Bare') <= Cardinality(Bare) /\ Cardinality(Bare') \in Nat /\ Cardinality(Bare) \in Nat
  BY <1>1, BareFinite
<1> QED BY <1>2 DEF EchoInv, Types

LEMMA OneMoreBare ==
  ASSUME Types, EchoInv, NEW b \in Box, Bare' \subseteq Bare \cup {b},
         echoes' = echoes, faults' = faults + 1, \A r \in Box : Announced(radio'[r])
  PROVE  EchoInv'
<1>1. Bare \in SUBSET Box /\ Bare' \in SUBSET Box /\ Bare \cup {b} \in SUBSET Box
  BY DEF Bare
<1>2. /\ Cardinality(Bare') <= Cardinality(Bare \cup {b})
      /\ Cardinality(Bare \cup {b}) <= Cardinality(Bare) + 1
      /\ Cardinality(Bare') \in Nat /\ Cardinality(Bare) \in Nat /\ Cardinality(Bare \cup {b}) \in Nat
  BY <1>1, BareFinite
<1> QED BY <1>2 DEF EchoInv, Types

LEMMA SameAir ==
  ASSUME Types, EchoInv, UNCHANGED airVars
  PROVE  EchoInv'
<1>1. Bare' = Bare
  BY DEF Bare, airVars
<1> QED BY <1>1 DEF EchoInv, airVars

LEMMA CastEcho == ASSUME Types, EchoInv, NEW c \in Client, Cast(c) PROVE EchoInv'
<1> DEFINE m == <<OnAir("frame", c, c)>>
<1>1. m \in Seq(AirFrame) /\ m # <<>> /\ Announced(m) /\ ~ Shown(m)
  <2>1. OnAir("frame", c, c) \in AirFrame
    BY DEF OnAir, AirFrame, Name
  <2>2. ~ Relayed(OnAir("frame", c, c))
    BY ConstAssumption DEF OnAir, Relayed
  <2>3. Len(m) = 1 /\ Head(m) = OnAir("frame", c, c) /\ m # <<>>
    OBVIOUS
  <2> QED BY <2>1, <2>2, <2>3 DEF Announced, Shown
<1>2. radio' = Heard(radio, c, m) /\ UNCHANGED <<blocks, echoes, faults>>
  BY DEF Cast
<1> HIDE DEF m
<1>3. \A r \in Box : /\ Announced(radio'[r])
                     /\ Shown(radio'[r]) => Shown(radio[r]) /\ Head(radio'[r]) = Head(radio[r])
  BY <1>1, <1>2, HeardAnnounced DEF Types, EchoInv
<1>4. Bare' \subseteq Bare
  BY <1>2, <1>3 DEF Bare
<1> QED BY <1>2, <1>3, <1>4, NoMoreBare

LEMMA ReadPacketEcho ==
  ASSUME Types, EchoInv, NEW a \in Box, NEW b \in Box, ReadPacket(a, b) PROVE EchoInv'
<1> DEFINE m == Head(wire[a][b])
<1>1. /\ wire[a][b] # <<>> /\ m.kind = "packet" /\ radio' = PutOut(radio, b, m.client)
      /\ UNCHANGED <<blocks, echoes, faults>>
  BY DEF ReadPacket
<1>2. m \in WireFrame
  BY <1>1, UnwireType DEF Types
<1>3. m.client \in Client
  BY <1>1, <1>2 DEF WireFrame, Packet, BeaconFrame
<1> HIDE DEF m
<1>4. \A r \in Box : /\ Announced(radio'[r])
                     /\ Shown(radio'[r]) => Shown(radio[r]) /\ Head(radio'[r]) = Head(radio[r])
  BY <1>1, <1>3, PutOutAnnounced DEF Types, EchoInv
<1>5. Bare' \subseteq Bare
  BY <1>1, <1>4 DEF Bare
<1> QED BY <1>1, <1>4, <1>5, NoMoreBare

(* What a box has read is gone; behind a frame comes no other box's frame. *)
LEMMA Unheard ==
  ASSUME Types, EchoInv, NEW b \in Box, radio[b] # <<>>
  PROVE  LET f == Head(radio[b]) rd == [radio EXCEPT ![b] = Tail(@)] IN
         /\ f \in AirFrame /\ rd \in [Box -> Seq(AirFrame)]
         /\ \A r \in Box : r # b => rd[r] = radio[r]
         /\ \A r \in Box : Announced(rd[r])
         /\ Shown(rd[b]) => f = [Head(rd[b]) EXCEPT !.kind = "block"]
         /\ Shown(rd[b]) => f.kind = "block" /\ f.from = Head(rd[b]).from
                            /\ f.client = Head(rd[b]).client
<1> DEFINE f == Head(radio[b])
           rd == [radio EXCEPT ![b] = Tail(@)]
<1>1. f \in AirFrame /\ rd \in [Box -> Seq(AirFrame)]
  BY UnheardType DEF Types
<1>2. rd[b] = Tail(radio[b]) /\ \A r \in Box : r # b => rd[r] = radio[r]
  BY DEF Types
<1>3. radio[b] \in Seq(AirFrame) /\ \A r \in Box : Announced(radio[r])
  BY DEF Types, EchoInv
<1>4. Announced(rd[b]) /\ (Shown(rd[b]) => f = [Head(rd[b]) EXCEPT !.kind = "block"])
  BY <1>2, <1>3, TailAnnounced
<1> HIDE DEF rd
<1>5. Shown(rd[b]) => Head(rd[b]) \in AirFrame
  BY <1>1, AirSeq DEF Shown
<1> HIDE DEF f
<1>6. Shown(rd[b]) => f.kind = "block" /\ f.from = Head(rd[b]).from
                      /\ f.client = Head(rd[b]).client
  BY <1>4, <1>5 DEF AirFrame
<1> QED BY <1>1, <1>2, <1>3, <1>4, <1>6 DEF f, rd

LEMMA ReadFrameEcho == ASSUME Types, EchoInv, NEW b \in Box, ReadFrame(b) PROVE EchoInv'
<1> DEFINE f == Head(radio[b])
           rd == [radio EXCEPT ![b] = Tail(@)]
<1>1. radio[b] # <<>> /\ f.kind = "frame" /\ UNCHANGED <<blocks, faults>>
  BY DEF ReadFrame
<1>2. /\ f \in AirFrame /\ rd \in [Box -> Seq(AirFrame)]
      /\ \A r \in Box : Announced(rd[r]) /\ (r # b => rd[r] = radio[r])
      /\ ~ Shown(rd[b])
  BY <1>1, Unheard
<1>3. f.client \in Client /\ (f.from # f.client => f.from \in Box)
  BY <1>2 DEF AirFrame, Name
<1>4. CASE f.client \notin Mine(b) \/ Ignored(b, f.client)
  <2>1. radio' = rd /\ UNCHANGED echoes
    BY <1>4 DEF ReadFrame
  <2> HIDE DEF rd
  <2>2. Bare' \subseteq Bare
    BY <1>1, <1>2, <2>1 DEF Bare
  <2> QED BY <1>1, <1>2, <2>1, <2>2, NoMoreBare
<1>5. CASE ~ (f.client \notin Mine(b) \/ Ignored(b, f.client))
  <2>1. /\ radio' = PutOut(rd, b, f.client)
        /\ echoes' = echoes + IF f.from = f.client THEN 0 ELSE 1
    BY <1>5 DEF ReadFrame
  <2> HIDE DEF rd
  <2>2. \A r \in Box : /\ Announced(radio'[r])
                       /\ Shown(radio'[r]) => Shown(rd[r]) /\ Head(radio'[r]) = Head(rd[r])
    BY <1>2, <1>3, <2>1, PutOutAnnounced
  <2>3. Bare' \subseteq Bare \ {b}
    BY <1>1, <1>2, <2>2 DEF Bare
  <2>4. CASE f.from = f.client
    <3>1. Bare' \subseteq Bare /\ echoes' = echoes
      BY <2>1, <2>3, <2>4 DEF Types
    <3> QED BY <1>1, <2>2, <3>1, NoMoreBare
  <2>5. CASE f.from # f.client
    <3>1. f.from \in Box /\ blocks[b][f.from][f.client] = 0
      <4>1. f.from \in Box /\ ~ (blocks[b][f.from][f.client] > 0)
        BY <1>3, <1>5, <2>5 DEF Ignored
      <4>2. blocks[b][f.from][f.client] \in Nat
        BY <1>3, <4>1 DEF Types
      <4> QED BY <4>1, <4>2
    <3>2. b \in Bare
      BY <1>1, <3>1 DEF Bare, Shown, Relayed
    <3>3. Bare \in SUBSET Box /\ Bare \ {b} \in SUBSET Box /\ Bare' \in SUBSET Box
      BY DEF Bare
    <3>4. /\ Cardinality(Bare') <= Cardinality(Bare \ {b})
          /\ Cardinality(Bare \ {b}) = Cardinality(Bare) - 1
          /\ Cardinality(Bare') \in Nat /\ Cardinality(Bare) \in Nat
      BY <2>3, <3>2, <3>3, BareFinite
    <3>5. echoes' = echoes + 1
      BY <2>1, <2>5
    <3>6. echoes' + Cardinality(Bare') <= faults'
      BY <1>1, <3>4, <3>5 DEF EchoInv, Types
    <3> QED BY <2>2, <3>6 DEF EchoInv
  <2> QED BY <2>4, <2>5
<1> QED BY <1>4, <1>5

LEMMA ReadBlockEcho == ASSUME Types, EchoInv, NEW b \in Box, ReadBlock(b) PROVE EchoInv'
<1> DEFINE f == Head(radio[b])
           rd == [radio EXCEPT ![b] = Tail(@)]
<1>1. /\ radio[b] # <<>> /\ f.kind \in {"block", "unblock"}
      /\ blocks' = [blocks EXCEPT ![b][f.from][f.client] =
                      IF f.kind = "block" THEN @ + 1 ELSE IF @ > 0 THEN @ - 1 ELSE 0]
      /\ radio' = rd /\ UNCHANGED <<echoes, faults>>
  BY DEF ReadBlock
<1>2. /\ f \in AirFrame
      /\ \A r \in Box : Announced(rd[r]) /\ (r # b => rd[r] = radio[r])
      /\ Shown(rd[b]) => f.kind = "block" /\ f.from = Head(rd[b]).from
                         /\ f.client = Head(rd[b]).client
  BY <1>1, Unheard
<1>3. f.from \in Box /\ f.client \in Client
  BY <1>1, <1>2 DEF AirFrame, Name
<1> HIDE DEF f, rd
<1>4. \A r \in Box : r # b => blocks'[r] = blocks[r]
  BY <1>1 DEF Types
<1>5. f.kind = "block" => blocks'[b][f.from][f.client] # 0
  <2>1. blocks[b][f.from][f.client] \in Nat
    BY <1>3 DEF Types
  <2>2. f.kind = "block" => blocks'[b][f.from][f.client] = blocks[b][f.from][f.client] + 1
    BY <1>1, <1>3 DEF Types
  <2> QED BY <2>1, <2>2
<1>6. Bare' \subseteq Bare
  BY <1>1, <1>2, <1>4, <1>5 DEF Bare
<1> QED BY <1>1, <1>2, <1>6, NoMoreBare

LEMMA ExpireEcho == ASSUME Types, EchoInv, NEW b \in Box, Expire(b) PROVE EchoInv'
<1>1. PICK s \in Box, c \in Client : /\ TooOld(b, s)
                                     /\ blocks' = [blocks EXCEPT ![b][s][c] = @ - 1]
  BY DEF Expire
<1>2. UNCHANGED <<radio, echoes, faults>>
  BY DEF Expire
<1>3. \A r \in Box : Shown(radio[r]) /\ r = b => Head(radio[r]).from # s
  BY <1>1, AirSeq DEF TooOld, Shown, Types
<1>4. \A r, t \in Box : r # b \/ t # s => blocks'[r][t] = blocks[r][t]
  BY <1>1 DEF Types
<1>5. Bare' \subseteq Bare
  BY <1>2, <1>3, <1>4 DEF Bare, Shown, Relayed
<1> QED BY <1>2, <1>5, NoMoreBare DEF EchoInv

LEMMA SwitchOffEcho == ASSUME Types, EchoInv, NEW b \in Box, SwitchOff(b) PROVE EchoInv'
<1>1. radio' = [radio EXCEPT ![b] = <<>>] /\ UNCHANGED <<blocks, echoes, faults>>
  BY DEF SwitchOff
<1>2. \A r \in Box : IF r = b THEN radio'[r] = <<>> ELSE radio'[r] = radio[r]
  BY <1>1 DEF Types
<1>3. \A r \in Box : Announced(radio'[r])
  BY <1>2 DEF EchoInv, Announced
<1>4. Bare' \subseteq Bare
  BY <1>1, <1>2 DEF Bare, Shown
<1> QED BY <1>1, <1>3, <1>4, NoMoreBare

LEMMA MissEcho == ASSUME Types, EchoInv, NEW b \in Box, Miss(b) PROVE EchoInv'
<1> DEFINE f == Head(radio[b])
           rd == [radio EXCEPT ![b] = Tail(@)]
<1>1. /\ radio[b] # <<>> /\ radio' = rd /\ UNCHANGED <<blocks, echoes>>
      /\ faults' = faults + IF f.kind = "frame" THEN 0 ELSE 1
  BY DEF Miss
<1>2. /\ \A r \in Box : Announced(rd[r]) /\ (r # b => rd[r] = radio[r])
      /\ Shown(rd[b]) => f.kind = "block"
  BY <1>1, Unheard
<1> HIDE DEF f, rd
<1>3. CASE f.kind = "frame"
  <2>1. faults' = faults
    BY <1>1, <1>3 DEF Types
  <2>2. Bare' \subseteq Bare
    BY <1>1, <1>2, <1>3 DEF Bare
  <2> QED BY <1>1, <1>2, <2>1, <2>2, NoMoreBare
<1>4. CASE f.kind # "frame"
  <2>1. Bare' \subseteq Bare \cup {b}
    BY <1>1, <1>2 DEF Bare
  <2> QED BY <1>1, <1>2, <1>4, <2>1, OneMoreBare
<1> QED BY <1>3, <1>4

LEMMA WipeEcho == ASSUME Types, EchoInv, NEW b \in Box, Wipe(b) PROVE EchoInv'
<1>1. /\ blocks' = [blocks EXCEPT ![b] = [s \in Box |-> [c \in Client |-> 0]]]
      /\ faults' = faults + 1 /\ UNCHANGED <<radio, echoes>>
  BY DEF Wipe
<1>2. \A r \in Box : r # b => blocks'[r] = blocks[r]
  BY <1>1 DEF Types
<1>3. Bare' \subseteq Bare \cup {b}
  BY <1>1, <1>2 DEF Bare
<1> QED BY <1>1, <1>3, OneMoreBare DEF EchoInv

LEMMA NextEcho == Types /\ EchoInv /\ [Next]_vars => EchoInv'
<1> SUFFICES ASSUME Types, EchoInv, [Next]_vars PROVE EchoInv'
  OBVIOUS
<1>1. ASSUME NEW a \in Box, NEW b \in Box, Join(a, b) \/ Lose(a, b) \/ ReadBeacon(a, b)
      PROVE  EchoInv'
  BY <1>1, SameAir DEF Join, Lose, ReadBeacon
<1>2. ASSUME NEW b \in Box, NEW n \in Name, Move(b, n)
      PROVE  EchoInv'
  BY <1>2, SameAir DEF Move
<1>3. ASSUME NEW b \in Box, Notice(b) \/ Round(b)
      PROVE  EchoInv'
  BY <1>3, SameAir DEF Notice, Round
<1>4. CASE Outside
  BY <1>1, <1>2, <1>4, SwitchOffEcho, MissEcho, WipeEcho, CastEcho DEF Outside
<1>5. CASE \E b \in Box : Notice(b) \/ Round(b) \/ Read(b) \/ Expire(b)
  BY <1>1, <1>3, <1>5, ReadFrameEcho, ReadBlockEcho, ReadPacketEcho, ExpireEcho DEF Read
<1>6. CASE UNCHANGED vars
  BY <1>6, SameAir DEF vars, airVars
<1> QED BY <1>4, <1>5, <1>6 DEF Next

LEMMA InitEcho == Init => EchoInv
<1> SUFFICES ASSUME Init PROVE EchoInv
  OBVIOUS
<1>1. \A b \in Box : radio[b] = <<>>
  BY DEF Init
<1>2. Bare = {} /\ \A b \in Box : Announced(radio[b])
  BY <1>1 DEF Bare, Shown, Announced
<1> QED BY <1>2, FS_EmptySet DEF Init, EchoInv

(* However boxes overhear each other's broadcasts: each echo is paid for by*)
(* a block that was lost or wiped just before (EchoNeedsFault).            *)
THEOREM EchoesHaveCauses == Spec => []EchoNeedsFault
<1>1. Spec => [](Types /\ EchoInv)
  BY InitTypes, InitEcho, NextTypes, NextEcho, PTL DEF Spec
<1>2. Types /\ EchoInv => EchoNeedsFault
  <2>1. Bare \in SUBSET Box
    BY DEF Bare
  <2>2. Cardinality(Bare) \in Nat
    BY <2>1, BareFinite
  <2> QED BY <2>2 DEF Types, EchoInv, EchoNeedsFault
<1> QED BY <1>1, <1>2, PTL
=============================================================================
