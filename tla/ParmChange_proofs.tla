------------------------- MODULE ParmChange_proofs -------------------------
(***************************************************************************)
(* Theorems about ParmChange, for every set of boxes, every tree and every *)
(* bound: types, one lock per box, and, as long as boxes hear each other,  *)
(* answers come in time and no denial comes late, that a go-ahead comes    *)
(* from a box for which all others are locked and that all boxes that      *)
(* change get the same parameters.                                         *)
(***************************************************************************)
EXTENDS ParmChange, FiniteSetTheorems, TLAPS

\* What a handler may send: to each box some frames.
Outgoing == [Node -> Seq(Frames)]

-----------------------------------------------------------------------------
(* Sending.                                                                *)

LEMMA MessageType ==
  ASSUME NEW t \in PcType, NEW o \in Node
  PROVE  Message(t, o) \in Frames
BY ParmsAssumption DEF Message, Frames

LEMMA GoMessageType ==
  ASSUME NEW o \in Node, NEW old \in Parms, NEW new \in Parms
  PROVE  GoMessage(o, old, new) \in Frames
BY DEF GoMessage, Frames, PcType

LEMMA SilenceType == Silence \in Outgoing
BY DEF Silence, Outgoing

LEMMA SendType ==
  ASSUME NEW n \in Node, NEW D \in SUBSET Node, NEW k \in Nat, NEW m \in Frames
  PROVE  Send(n, D, k, m) \in Outgoing
<1>1. ASSUME NEW x \in Node
      PROVE  [i \in 1 .. k * Cardinality({d \in D : Route(n, d) = x}) |-> m]
               \in Seq(Frames)
  <2> DEFINE S == {d \in D : Route(n, d) = x}
  <2>1. IsFiniteSet(S)
    BY NodeAssumption, FS_Subset
  <2>2. Cardinality(S) \in Nat
    BY <2>1, FS_CardinalityType
  <2> HIDE DEF S
  <2>3. k * Cardinality(S) \in Nat
    BY <2>2
  <2>4. [i \in 1 .. k * Cardinality(S) |-> m] \in Seq(Frames)
    BY <2>3
  <2> QED
    BY <2>4 DEF S
<1> QED
  BY <1>1 DEF Send, Outgoing

LEMMA PassOnType ==
  ASSUME NEW n \in Node, NEW D \in SUBSET Node, NEW m \in Frames
  PROVE  PassOn(n, D, m) \in Outgoing
BY SendType, BoundAssumption DEF PassOn

LEMMA BesideType ==
  ASSUME NEW a \in Outgoing, NEW b \in Outgoing
  PROVE  a ++ b \in Outgoing
<1>1. \A x \in Node : a[x] \o b[x] \in Seq(Frames)
  BY DEF Outgoing
<1> QED
  BY <1>1 DEF ++, Outgoing

LEMMA EmitType ==
  ASSUME net \in [Chan -> Seq(Frames)], NEW n \in Node, NEW out \in Outgoing,
         Emit(n, out)
  PROVE  net' \in [Chan -> Seq(Frames)]
<1>1. ASSUME NEW c \in Chan
      PROVE  (IF c[1] = n THEN net[c] \o out[c[2]] ELSE net[c]) \in Seq(Frames)
  BY DEF Chan, Outgoing
<1> QED
  BY <1>1 DEF Emit

LEMMA AnswerType ==
  ASSUME net \in [Chan -> Seq(Frames)], NEW n \in Node, NEW s \in Node,
         net[<<s, n>>] # <<>>, NEW out \in Outgoing, Answer(n, s, out)
  PROVE  net' \in [Chan -> Seq(Frames)]
<1>1. ASSUME NEW c \in Chan
      PROVE  (IF c = <<s, n>> THEN Tail(net[c])
              ELSE IF c[1] = n THEN net[c] \o out[c[2]] ELSE net[c])
               \in Seq(Frames)
  <2>1. CASE c = <<s, n>>
    BY <2>1 DEF Chan
  <2>2. CASE c # <<s, n>>
    BY <2>2 DEF Chan, Outgoing
  <2> QED
    BY <2>1, <2>2
<1> QED
  BY <1>1 DEF Answer

LEMMA GotType ==
  ASSUME net \in [Chan -> Seq(Frames)], NEW n \in Node, NEW s \in Node,
         NEW t, Got(n, s, t)
  PROVE  Frame(n, s) \in Frames /\ net[<<s, n>>] # <<>>
<1>1. net[<<s, n>>] \in Seq(Frames)
  BY DEF Chan
<1> QED
  BY <1>1 DEF Got, Frame

-----------------------------------------------------------------------------
(* Types, in three groups of variables.                                    *)

BoxTyped ==
  /\ parms \in [Node -> Parms] /\ up \in [Node -> BOOLEAN]
  /\ doing_go \in [Node -> BOOLEAN] /\ alarm \in [Node -> BOOLEAN]
  /\ result \in [Node -> {"none", "success", "failure"}]

LocksTyped ==
  /\ granted \in [Node -> SUBSET Node] /\ denied \in [Node -> BOOLEAN]
  /\ tree \in [Node -> SUBSET {"attempt", "lock"}]

RoundTyped ==
  /\ wish \in [Node -> Parms]
  /\ cloud_boxes \in [Node -> SUBSET Node]
  /\ have_lock \in [Node -> SUBSET Node]
  /\ \A n \in Node : n \notin cloud_boxes[n]

LEMMA TypeOKParts ==
  TypeOK <=> /\ BoxTyped /\ LocksTyped /\ RoundTyped
             /\ net \in [Chan -> Seq(Frames)] /\ spent \in [Kind -> Nat]
BY DEF TypeOK, BoxTyped, LocksTyped, RoundTyped

LEMMA TypeOKPartsNext ==
  TypeOK' <=> /\ BoxTyped' /\ LocksTyped' /\ RoundTyped'
              /\ net' \in [Chan -> Seq(Frames)] /\ spent' \in [Kind -> Nat]
BY DEF TypeOK, BoxTyped, LocksTyped, RoundTyped

LEMMA SpendType ==
  ASSUME spent \in [Kind -> Nat], NEW k \in Kind, Spend(k)
  PROVE  spent' \in [Kind -> Nat]
BY DEF Spend

LEMMA InitType == Init => TypeOK
<1> SUFFICES ASSUME Init PROVE TypeOK
  OBVIOUS
<1>1. net \in [Chan -> Seq(Frames)]
  BY DEF Init
<1> QED
  BY <1>1, ParmsAssumption DEF Init, TypeOK

LEMMA GoAheadType ==
  ASSUME BoxTyped, NEW n \in Node, NEW m \in Frames, GoAhead(n, m)
  PROVE  /\ parms' \in [Node -> Parms] /\ up' \in [Node -> BOOLEAN]
         /\ alarm' \in [Node -> BOOLEAN]
         /\ result' \in [Node -> {"none", "success", "failure"}]
<1>1. parms' \in [Node -> Parms] /\ up' \in [Node -> BOOLEAN]
  BY DEF GoAhead, DoWifiChange, BoxTyped, Frames
<1>2. alarm' \in [Node -> BOOLEAN]
  BY DEF GoAhead, BoxTyped
<1>3. result' \in [Node -> {"none", "success", "failure"}]
  BY DEF GoAhead, BoxTyped
<1> QED
  BY <1>1, <1>2, <1>3

LEMMA StartType ==
  ASSUME TypeOK, NEW n \in Node, NEW p \in Parms,
         StartRefused(n) \/ StartFails(n) \/ StartParmChange(n, p)
  PROVE  TypeOK'
<1>1. CASE StartRefused(n)
  BY <1>1, SpendType DEF StartRefused, TypeOK, Kind, round
<1>2. CASE StartFails(n)
  BY <1>2, SpendType, ParmsAssumption DEF StartFails, TypeOK, Kind, GrantLock
<1>3. CASE StartParmChange(n, p)
  <2> DEFINE go == GoMessage(n, parms[n], p)
  <2>1. spent' \in [Kind -> Nat]
    BY <1>3, SpendType DEF StartParmChange, TypeOK, Kind
  <2>2. net' \in [Chan -> Seq(Frames)]
    <3>1. Send(n, Stp[n], 1, Message("parm_change_start_msg", n)) \in Outgoing
      BY SendType, MessageType, TreeAssumption DEF PcType
    <3>2. PassOn(n, Stp[n], go) \in Outgoing
      BY PassOnType, GoMessageType, TreeAssumption DEF TypeOK
    <3> QED
      BY <1>3, <3>1, <3>2, EmitType DEF StartParmChange, TypeOK
  <2>3. LocksTyped'
    BY <1>3 DEF StartParmChange, TypeOK, LocksTyped
  <2>4. RoundTyped'
    BY <1>3, TreeAssumption
    DEF StartParmChange, TypeOK, RoundTyped, Cloud, NoLocks
  <2>5. BoxTyped'
    <3>1. go \in Frames /\ BoxTyped
      BY GoMessageType, TypeOKParts DEF BoxTyped
    <3>2. doing_go' \in [Node -> BOOLEAN]
      BY <1>3, <3>1 DEF StartParmChange, BoxTyped
    <3>3. CASE Cloud(n) # {}
      BY <1>3, <3>1, <3>2, <3>3 DEF StartParmChange, BoxTyped
    <3>4. CASE Cloud(n) = {}
      BY <1>3, <3>1, <3>2, <3>4, GoAheadType DEF StartParmChange, BoxTyped
    <3> QED
      BY <3>3, <3>4
  <2> QED
    BY <2>1, <2>2, <2>3, <2>4, <2>5, TypeOKPartsNext
<1> QED
  BY <1>1, <1>2, <1>3

LEMMA HandlerType ==
  ASSUME TypeOK, NEW n \in Node, NEW s \in Node, ProcessCloudMessage(n, s)
  PROVE  TypeOK'
<1> USE TypeOKParts, TypeOKPartsNext
<1>1. CASE ProcessStart(n, s)
  <2>1. Frame(n, s) \in Frames /\ net[<<s, n>>] # <<>>
    BY <1>1, GotType DEF ProcessStart
  <2>2. Send(n, Stp[n] \ {s}, 1, Frame(n, s)) \in Outgoing
    BY <2>1, SendType, TreeAssumption
  <2>3. \A t \in PcType :
          Send(n, {Frame(n, s).originator}, 1, Message(t, n)) \in Outgoing
    BY <2>1, SendType, MessageType DEF Frames
  <2>4. net' \in [Chan -> Seq(Frames)]
    BY <1>1, <2>1, <2>2, <2>3, BesideType, SilenceType, AnswerType
    DEF ProcessStart, PcType
  <2>5. LocksTyped'
    <3>1. Frame(n, s).originator \in Node
      BY <2>1 DEF Frames
    <3>2. \/ granted' = [granted EXCEPT ![n] = @ \cup {Frame(n, s).originator}]
          \/ UNCHANGED granted
      BY <1>1 DEF ProcessStart, GrantLock
    <3>3. UNCHANGED <<tree, denied>>
      BY <1>1 DEF ProcessStart
    <3> QED
      BY <3>1, <3>2, <3>3 DEF LocksTyped
  <2>6. RoundTyped'
    BY <1>1 DEF ProcessStart, RoundTyped, round
  <2>7. BoxTyped'
    <3>1. alarm' \in [Node -> BOOLEAN]
      BY <1>1 DEF ProcessStart, GrantLock, BoxTyped
    <3>2. doing_go' \in [Node -> BOOLEAN] /\ UNCHANGED <<parms, up, result>>
      BY <1>1 DEF ProcessStart, BoxTyped
    <3> QED
      BY <3>1, <3>2 DEF BoxTyped
  <2> QED
    BY <1>1, <2>4, <2>5, <2>6, <2>7 DEF ProcessStart
<1>2. CASE ProcessReady(n, s)
  <2> DEFINE go == GoMessage(n, parms[n], wish[n])
  <2>1. Frame(n, s) \in Frames /\ net[<<s, n>>] # <<>>
    BY <1>2, GotType DEF ProcessReady
  <2>2. PassOn(n, Stp[n], go) \in Outgoing
    BY PassOnType, GoMessageType, TreeAssumption DEF BoxTyped, RoundTyped
  <2>3. net' \in [Chan -> Seq(Frames)]
    BY <1>2, <2>1, <2>2, SilenceType, AnswerType DEF ProcessReady
  <2>4. LocksTyped' /\ RoundTyped'
    BY <1>2, <2>1 DEF ProcessReady, LocksTyped, RoundTyped, Frames
  <2>5. BoxTyped'
    <3>1. go \in Frames
      BY GoMessageType DEF BoxTyped, RoundTyped
    <3>2. UNCHANGED doing_go /\ (GoAhead(n, go)
                                \/ UNCHANGED <<parms, up, alarm, result>>)
      BY <1>2 DEF ProcessReady
    <3> QED
      BY <3>1, <3>2, GoAheadType DEF BoxTyped
  <2> QED
    BY <1>2, <2>3, <2>4, <2>5 DEF ProcessReady
<1>3. CASE ProcessNotReady(n, s)
  <2>1. net' \in [Chan -> Seq(Frames)]
    BY <1>3, GotType, SilenceType, AnswerType DEF ProcessNotReady
  <2> QED
    BY <1>3, <2>1
    DEF ProcessNotReady, LocksTyped, RoundTyped, BoxTyped, round
<1>4. CASE ProcessGo(n, s)
  <2>1. Frame(n, s) \in Frames /\ net[<<s, n>>] # <<>>
    BY <1>4, GotType DEF ProcessGo
  <2>2. PassOn(n, Stp[n] \ {s}, Frame(n, s)) \in Outgoing
    BY <2>1, PassOnType, TreeAssumption
  <2>3. net' \in [Chan -> Seq(Frames)]
    BY <1>4, <2>1, <2>2, SilenceType, AnswerType DEF ProcessGo
  <2>4. BoxTyped'
    <3>1. doing_go' \in [Node -> BOOLEAN]
      BY <1>4 DEF ProcessGo, BoxTyped
    <3>2. GoAhead(n, Frame(n, s)) \/ UNCHANGED <<parms, up, alarm, result>>
      BY <1>4 DEF ProcessGo
    <3> QED
      BY <2>1, <3>1, <3>2, GoAheadType DEF BoxTyped
  <2> QED
    BY <1>4, <2>3, <2>4 DEF ProcessGo, LocksTyped, RoundTyped, round
<1> QED
  BY <1>1, <1>2, <1>3, <1>4 DEF ProcessCloudMessage

LEMMA RestType ==
  ASSUME TypeOK, NEW n \in Node, NEW o \in Node,
         \/ BeginChange(n) \/ LockArc(n) \/ EndChange(n) \/ DeniedAgain(n)
         \/ Expire(n, o) \/ Lose(n, o)
  PROVE  TypeOK'
<1> USE TypeOKParts, TypeOKPartsNext DEF LocksTyped, RoundTyped, BoxTyped, round
<1>1. CASE BeginChange(n)
  BY <1>1, SpendType DEF BeginChange, Kind
<1>2. CASE LockArc(n)
  <2>1. LocksTyped'
    BY <1>2 DEF LockArc
  <2>2. BoxTyped' /\ RoundTyped'
    BY <1>2 DEF LockArc
  <2> QED
    BY <1>2, <2>1, <2>2 DEF LockArc
<1>3. CASE EndChange(n) \/ DeniedAgain(n)
  <2>1. granted' \in [Node -> SUBSET Node]
    BY <1>3 DEF EndChange, DeniedAgain, ClearStpUpdateState
  <2>2. denied' \in [Node -> BOOLEAN]
    BY <1>3 DEF EndChange, DeniedAgain
  <2>3. tree' \in [Node -> SUBSET {"attempt", "lock"}]
    <3>1. CASE \E gone \in SUBSET tree[n] : tree' = [tree EXCEPT ![n] = @ \ gone]
      BY <3>1
    <3>2. CASE tree' = [tree EXCEPT ![n] = {}]
      BY <3>2
    <3> QED
      BY <1>3, <3>1, <3>2 DEF EndChange, DeniedAgain, ClearStpUpdateState
  <2>4. BoxTyped' /\ RoundTyped'
    BY <1>3 DEF EndChange, DeniedAgain, ClearStpUpdateState
  <2> QED
    BY <1>3, <2>1, <2>2, <2>3, <2>4 DEF EndChange, DeniedAgain
<1>4. CASE Expire(n, o)
  BY <1>4, SpendType DEF Expire, Kind
<1>5. CASE Lose(n, o)
  <2>1. net[<<o, n>>] \in Seq(Frames) /\ net[<<o, n>>] # <<>>
    BY <1>5 DEF Lose, Chan
  <2>2. Tail(net[<<o, n>>]) \in Seq(Frames)
    BY <2>1
  <2>3. net' \in [Chan -> Seq(Frames)]
    BY <1>5, <2>2 DEF Lose
  <2> QED
    BY <1>5, <2>3, SpendType DEF Lose, Kind
<1> QED
  BY <1>1, <1>2, <1>3, <1>4, <1>5

LEMMA NextType == TypeOK /\ [Next]_vars => TypeOK'
<1> SUFFICES ASSUME TypeOK, [Next]_vars
             PROVE  TypeOK'
  OBVIOUS
<1>1. CASE Next
  BY <1>1, StartType, HandlerType, RestType, ParmsAssumption DEF Next
<1>2. CASE UNCHANGED vars
  BY <1>2 DEF TypeOK, vars, round
<1> QED
  BY <1>1, <1>2

\* Every variable keeps its type, whatever is lost or times out: an originator
\* never waits for itself.
THEOREM TypeCorrect == Spec => []TypeOK
BY InitType, NextType, PTL DEF Spec

-----------------------------------------------------------------------------
(* OneLock.  has_lock never finds anything, so only a box that is in the    *)
(* middle of nothing is ever locked.                                        *)

LEMMA HasLockNever ==
  ASSUME NEW n, NEW o
  PROVE  ~HasLock(n, o)
BY DEF HasLock

LEMMA InitOneLock == Init => OneLock
BY DEF Init, OneLock

LEMMA FirstLock ==
  ASSUME TypeOK, OneLock, NEW n \in Node, NEW o \in Node, ~Doing(n),
         UNCHANGED tree, granted' = [granted EXCEPT ![n] = @ \cup {o}]
  PROVE  OneLock'
<1>1. granted'[n] = {o} /\ tree'[n] = {}
  BY DEF TypeOK, Doing
<1>2. \A m \in Node \ {n} : granted'[m] = granted[m] /\ tree'[m] = tree[m]
  BY DEF TypeOK
<1> QED
  BY <1>1, <1>2 DEF OneLock

LEMMA FewerLocks ==
  ASSUME OneLock,
         \A m \in Node : /\ granted'[m] \subseteq granted[m]
                         /\ "attempt" \in tree'[m] => "attempt" \in tree[m]
  PROVE  OneLock'
BY DEF OneLock

LEMMA NextOneLock == TypeOK /\ OneLock /\ [Next]_vars => OneLock'
<1> SUFFICES ASSUME TypeOK, OneLock, [Next]_vars
             PROVE  OneLock'
  OBVIOUS
<1>1. ASSUME NEW n \in Node, StartRefused(n) \/ StartFails(n)
      PROVE  OneLock'
  <2>1. CASE StartRefused(n)
    BY <2>1 DEF StartRefused, OneLock
  <2>2. CASE StartFails(n)
    BY <2>2, FirstLock DEF StartFails, GrantLock
  <2> QED
    BY <1>1, <2>1, <2>2
<1>2. ASSUME NEW n \in Node, NEW p \in Parms, StartParmChange(n, p)
      PROVE  OneLock'
  BY <1>2, FirstLock DEF StartParmChange
<1>3. ASSUME NEW n \in Node, NEW s \in Node, ProcessCloudMessage(n, s)
      PROVE  OneLock'
  <2>1. CASE ProcessStart(n, s)
    <3>1. UNCHANGED tree
      BY <2>1 DEF ProcessStart
    <3>2. \/ UNCHANGED granted
          \/ /\ ~Doing(n)
             /\ granted' = [granted EXCEPT ![n] = @ \cup {Frame(n, s).originator}]
      BY <2>1, HasLockNever DEF ProcessStart, Ready, GrantLock
    <3>3. Frame(n, s).originator \in Node
      BY <2>1, GotType DEF ProcessStart, Frames, TypeOK
    <3> QED
      <4>1. CASE UNCHANGED granted
        BY <3>1, <4>1 DEF OneLock
      <4>2. CASE ~UNCHANGED granted
        BY <3>1, <3>2, <3>3, <4>2, FirstLock
      <4> QED
        BY <4>1, <4>2
  <2>2. CASE ProcessReady(n, s) \/ ProcessNotReady(n, s) \/ ProcessGo(n, s)
    BY <2>2 DEF ProcessReady, ProcessNotReady, ProcessGo, OneLock
  <2> QED
    BY <1>3, <2>1, <2>2 DEF ProcessCloudMessage
<1>4. ASSUME NEW n \in Node, BeginChange(n)
      PROVE  OneLock'
  BY <1>4 DEF BeginChange, Doing, OneLock, TypeOK
<1>5. ASSUME NEW n \in Node, LockArc(n)
      PROVE  OneLock'
  BY <1>5, FewerLocks DEF LockArc, TypeOK
<1>6. ASSUME NEW n \in Node, EndChange(n) \/ DeniedAgain(n)
      PROVE  OneLock'
  <2>1. \A m \in Node : granted'[m] \subseteq granted[m]
    BY <1>6 DEF EndChange, DeniedAgain, ClearStpUpdateState, TypeOK
  <2>2. \A m \in Node : tree'[m] \subseteq tree[m]
    BY <1>6 DEF EndChange, DeniedAgain, ClearStpUpdateState, TypeOK
  <2> QED
    BY <2>1, <2>2, FewerLocks
<1>7. ASSUME NEW n \in Node, NEW o \in Node, Expire(n, o) \/ Lose(n, o)
      PROVE  OneLock'
  <2>1. UNCHANGED tree /\ \A m \in Node : granted'[m] \subseteq granted[m]
    <3>1. CASE Expire(n, o)
      <4>1. granted' = [granted EXCEPT ![n] = @ \ {o}] /\ UNCHANGED tree
        BY <3>1 DEF Expire
      <4> QED
        BY <4>1 DEF TypeOK
    <3>2. CASE Lose(n, o)
      BY <3>2 DEF Lose
    <3> QED
      BY <1>7, <3>1, <3>2
  <2> QED
    BY <2>1, FewerLocks
<1>8. CASE UNCHANGED vars
  BY <1>8 DEF vars, OneLock
<1> QED
  BY <1>1, <1>2, <1>3, <1>4, <1>5, <1>6, <1>7, <1>8 DEF Next

\* A box is never locked for two originators, nor for one while it changes the
\* tree itself.
THEOREM OneLockCorrect == Spec => []OneLock
BY InitType, NextType, InitOneLock, NextOneLock, PTL DEF Spec

-----------------------------------------------------------------------------
(* GoNeedsEveryLock, when all boxes hear each other and answers come in     *)
(* time.  Told strengthens it: as long as a proposal or an answer to it is  *)
(* in flight, whoever has answered, or whose answer is in flight, is still  *)
(* locked for the originator.                                               *)

Ideal == Timely /\ Denials = 1 /\ \A n \in Node : Nbr[n] = Node \ {n}

\* No denial comes for a change already given up.
Undenied == \A n \in Node : ~denied[n]

\* What o has heard is still so.
Answered(o) ==
  /\ cloud_boxes[o] = Cloud(o)
  /\ \A m \in have_lock[o] : o \in granted[m]

\* m, on its way from c[1] to c[2], is a proposal or an answer that holds.
Holds(c, m) ==
  /\ m.type = "parm_change_start_msg" => Answered(m.originator)
  /\ m.type = "parm_change_ready_msg" =>
       /\ m.originator = c[1] /\ c[1] # c[2]
       /\ c[2] \in granted[c[1]] /\ Answered(c[2])

Told == \A c \in Chan : \A i \in DOMAIN net[c] : Holds(c, net[c][i])

LEMMA InitTold == Init => Told
<1> SUFFICES ASSUME Init, NEW c \in Chan PROVE DOMAIN net[c] = {}
  BY DEF Told
<1>1. net[c] = <<>>
  BY DEF Init
<1> QED
  BY <1>1

\* What a frame in flight after Answer can be.
LEMMA AnswerFrames ==
  ASSUME net \in [Chan -> Seq(Frames)], NEW n \in Node, NEW s \in Node,
         net[<<s, n>>] # <<>>, NEW out \in Outgoing, Answer(n, s, out)
  PROVE  \A c \in Chan : \A i \in DOMAIN net'[c] :
           \/ \E j \in DOMAIN net[c] : net[c][j] = net'[c][i]
           \/ c[1] = n /\ \E j \in DOMAIN out[c[2]] : out[c[2]][j] = net'[c][i]
<1> SUFFICES ASSUME NEW c \in Chan, NEW i \in DOMAIN net'[c]
             PROVE  \/ \E j \in DOMAIN net[c] : net[c][j] = net'[c][i]
                    \/ c[1] = n /\ \E j \in DOMAIN out[c[2]] :
                                     out[c[2]][j] = net'[c][i]
  OBVIOUS
<1>1. net[c] \in Seq(Frames) /\ out[c[2]] \in Seq(Frames)
  BY DEF Outgoing, Chan
<1>2. CASE c = <<s, n>>
  <2>1. net'[c] = Tail(net[c])
    BY <1>2 DEF Answer
  <2>2. i + 1 \in DOMAIN net[c] /\ net[c][i + 1] = net'[c][i]
    BY <1>1, <1>2, <2>1
  <2> QED
    BY <2>2
<1>3. CASE c # <<s, n>> /\ c[1] = n
  <2>1. net'[c] = net[c] \o out[c[2]]
    BY <1>3 DEF Answer
  <2>2. CASE i \in DOMAIN net[c]
    BY <1>1, <2>1, <2>2
  <2>3. CASE i \notin DOMAIN net[c]
    <3>1. /\ i - Len(net[c]) \in DOMAIN out[c[2]]
          /\ out[c[2]][i - Len(net[c])] = net'[c][i]
      BY <1>1, <2>1, <2>3
    <3> QED
      BY <1>3, <3>1
  <2> QED
    BY <2>2, <2>3
<1>4. CASE c # <<s, n>> /\ c[1] # n
  BY <1>4 DEF Answer
<1> QED
  BY <1>2, <1>3, <1>4

LEMMA EmitFrames ==
  ASSUME net \in [Chan -> Seq(Frames)], NEW n \in Node, NEW out \in Outgoing,
         Emit(n, out)
  PROVE  \A c \in Chan : \A i \in DOMAIN net'[c] :
           \/ \E j \in DOMAIN net[c] : net[c][j] = net'[c][i]
           \/ c[1] = n /\ \E j \in DOMAIN out[c[2]] : out[c[2]][j] = net'[c][i]
<1> SUFFICES ASSUME NEW c \in Chan, NEW i \in DOMAIN net'[c]
             PROVE  \/ \E j \in DOMAIN net[c] : net[c][j] = net'[c][i]
                    \/ c[1] = n /\ \E j \in DOMAIN out[c[2]] :
                                     out[c[2]][j] = net'[c][i]
  OBVIOUS
<1>1. net[c] \in Seq(Frames) /\ out[c[2]] \in Seq(Frames)
  BY DEF Outgoing, Chan
<1>2. CASE c[1] = n
  <2>1. net'[c] = net[c] \o out[c[2]]
    BY <1>2 DEF Emit
  <2>2. CASE i \in DOMAIN net[c]
    BY <1>1, <2>1, <2>2
  <2>3. CASE i \notin DOMAIN net[c]
    <3>1. /\ i - Len(net[c]) \in DOMAIN out[c[2]]
          /\ out[c[2]][i - Len(net[c])] = net'[c][i]
      BY <1>1, <2>1, <2>3
    <3> QED
      BY <1>2, <3>1
  <2> QED
    BY <2>2, <2>3
<1>3. CASE c[1] # n
  BY <1>3 DEF Emit
<1> QED
  BY <1>2, <1>3

\* Whatever Send sends is m, and goes to where a box of D is reached.
LEMMA SendFrames ==
  ASSUME NEW n, NEW D \in SUBSET Node, NEW k \in Nat, NEW m, NEW x \in Node,
         NEW i \in DOMAIN Send(n, D, k, m)[x]
  PROVE  Send(n, D, k, m)[x][i] = m /\ \E d \in D : Route(n, d) = x
<1> DEFINE S == {d \in D : Route(n, d) = x}
<1>1. Send(n, D, k, m)[x] = [j \in 1 .. k * Cardinality(S) |-> m]
  BY DEF Send
<1>2. S # {}
  <2>1. SUFFICES ASSUME S = {} PROVE FALSE
    OBVIOUS
  <2>2. k * Cardinality(S) = 0
    BY <2>1, FS_EmptySet
  <2> QED
    BY <1>1, <2>2
<1> QED
  BY <1>1, <1>2

LEMMA ConcatFrames ==
  ASSUME NEW p \in Seq(Frames), NEW q \in Seq(Frames), NEW i \in DOMAIN (p \o q)
  PROVE  \/ \E j \in DOMAIN p : p[j] = (p \o q)[i]
         \/ \E j \in DOMAIN q : q[j] = (p \o q)[i]
<1>1. CASE i \in DOMAIN p
  BY <1>1
<1>2. CASE i \notin DOMAIN p
  <2>1. i - Len(p) \in DOMAIN q /\ q[i - Len(p)] = (p \o q)[i]
    BY <1>2
  <2> QED
    BY <2>1
<1> QED
  BY <1>1, <1>2

LEMMA BesideFrames ==
  ASSUME NEW a \in Outgoing, NEW b \in Outgoing, NEW x \in Node,
         NEW i \in DOMAIN (a ++ b)[x]
  PROVE  \/ \E j \in DOMAIN a[x] : a[x][j] = (a ++ b)[x][i]
         \/ \E j \in DOMAIN b[x] : b[x][j] = (a ++ b)[x][i]
<1>1. a[x] \in Seq(Frames) /\ b[x] \in Seq(Frames)
  BY DEF Outgoing
<1>2. (a ++ b)[x] = a[x] \o b[x]
  BY DEF ++
<1>3. i \in DOMAIN (a[x] \o b[x])
  BY <1>2
<1>4. \/ \E j \in DOMAIN a[x] : a[x][j] = (a[x] \o b[x])[i]
      \/ \E j \in DOMAIN b[x] : b[x][j] = (a[x] \o b[x])[i]
  BY <1>1, <1>3, ConcatFrames
<1> QED
  BY <1>2, <1>4

\* Steps that keep the proposals and the locks, and send neither proposals nor
\* answers.
LEMMA QuietTold ==
  ASSUME Told, UNCHANGED <<cloud_boxes, have_lock>>,
         granted \in [Node -> SUBSET Node], have_lock \in [Node -> SUBSET Node],
         net' \in [Chan -> Seq(Frames)],
         \A m \in Node : granted[m] \subseteq granted'[m],
         \A c \in Chan : \A i \in DOMAIN net'[c] :
           \/ \E j \in DOMAIN net[c] : net[c][j] = net'[c][i]
           \/ net'[c][i].type \notin {"parm_change_start_msg",
                                      "parm_change_ready_msg"}
  PROVE  Told'
<1>1. \A o \in Node : Answered(o) => Answered(o)'
  BY DEF Answered, Cloud
<1>2. ASSUME NEW c \in Chan, NEW i \in DOMAIN net'[c], NEW m, m = net'[c][i]
      PROVE  Holds(c, m)'
  <2>0. net'[c] \in Seq(Frames)
    OBVIOUS
  <2>1. c[1] \in Node /\ c[2] \in Node /\ m.originator \in Node
    <3>1. c[1] \in Node /\ c[2] \in Node
      BY DEF Chan
    <3>2. m \in Frames
      BY <1>2, <2>0
    <3> QED
      BY <3>1, <3>2 DEF Frames
  <2>2. CASE \E j \in DOMAIN net[c] : net[c][j] = m
    <3>1. Holds(c, m)
      BY <2>2 DEF Told
    <3>2. m.type = "parm_change_start_msg" => Answered(m.originator)'
      BY <1>1, <2>1, <3>1 DEF Holds
    <3>3. m.type = "parm_change_ready_msg" => Answered(c[2])'
      BY <1>1, <2>1, <3>1 DEF Holds
    <3>4. c[2] \in granted[c[1]] => c[2] \in granted'[c[1]]
      BY <2>1
    <3> QED
      BY <3>1, <3>2, <3>3, <3>4 DEF Holds
  <2>3. CASE m.type \notin {"parm_change_start_msg", "parm_change_ready_msg"}
    BY <2>3 DEF Holds
  <2> QED
    BY <1>2, <2>2, <2>3
<1> QED
  BY <1>2 DEF Told

\* A step that sends: the frames sent must hold, and so must those in flight.
LEMMA SendTold ==
  ASSUME TypeOK, Told, NEW n \in Node, NEW out \in Outgoing,
         \/ Emit(n, out)
         \/ \E s \in Node : net[<<s, n>>] # <<>> /\ Answer(n, s, out),
         \A c \in Chan, m \in Frames : Holds(c, m) => Holds(c, m)',
         \A x \in Node : \A i \in DOMAIN out[x] : Holds(<<n, x>>, out[x][i])'
  PROVE  Told'
<1>1. net \in [Chan -> Seq(Frames)]
  BY DEF TypeOK
<1>2. net' \in [Chan -> Seq(Frames)]
  BY <1>1, AnswerType, EmitType
<1>3. \A c \in Chan : \A i \in DOMAIN net'[c] :
        \/ \E j \in DOMAIN net[c] : net[c][j] = net'[c][i]
        \/ c[1] = n /\ \E j \in DOMAIN out[c[2]] : out[c[2]][j] = net'[c][i]
  <2>1. CASE Emit(n, out)
    BY <1>1, <2>1, EmitFrames
  <2>2. CASE \E s \in Node : net[<<s, n>>] # <<>> /\ Answer(n, s, out)
    BY <1>1, <2>2, AnswerFrames
  <2> QED
    BY <2>1, <2>2
<1>4. ASSUME NEW c \in Chan, NEW i \in DOMAIN net'[c], NEW m, m = net'[c][i]
      PROVE  Holds(c, m)'
  <2>1. c[2] \in Node /\ m \in Frames
    BY <1>2, <1>4 DEF Chan
  <2>2. CASE \E j \in DOMAIN net[c] : net[c][j] = m
    BY <2>1, <2>2 DEF Told
  <2>3. CASE c[1] = n /\ \E j \in DOMAIN out[c[2]] : out[c[2]][j] = m
    <3>1. PICK j \in DOMAIN out[c[2]] : out[c[2]][j] = m
      BY <2>3
    <3>2. Holds(<<n, c[2]>>, out[c[2]][j])'
      BY <2>1
    <3> QED
      BY <2>3, <3>1, <3>2 DEF Holds
  <2> QED
    BY <1>3, <1>4, <2>2, <2>3
<1> QED
  BY <1>4 DEF Told

LEMMA PassOnTold ==
  ASSUME TypeOK, Told, NEW n \in Node, NEW D \in SUBSET Node, NEW m \in Frames,
         m.type = "parm_change_go_msg",
         \/ Emit(n, PassOn(n, D, m))
         \/ \E s \in Node :
              net[<<s, n>>] # <<>> /\ Answer(n, s, PassOn(n, D, m)),
         \A c \in Chan, f \in Frames : Holds(c, f) => Holds(c, f)'
  PROVE  Told'
<1>1. PassOn(n, D, m) \in Outgoing
  BY PassOnType
<1>2. ASSUME NEW x \in Node, NEW i \in DOMAIN PassOn(n, D, m)[x]
      PROVE  Holds(<<n, x>>, PassOn(n, D, m)[x][i])'
  <2>1. PassOn(n, D, m)[x][i] = m
    BY SendFrames, BoundAssumption DEF PassOn
  <2> QED
    BY <2>1 DEF Holds
<1> QED
  BY <1>1, <1>2, SendTold

LEMMA StartTold ==
  ASSUME TypeOK, Told, NEW n \in Node, NEW p \in Parms, StartParmChange(n, p)
  PROVE  Told'
<1> DEFINE start == Send(n, Stp[n], 1, Message("parm_change_start_msg", n))
           go    == GoMessage(n, parms[n], p)
<1>1. Answered(n)'
  BY DEF StartParmChange, Answered, NoLocks, Cloud, TypeOK
<1>2. ASSUME NEW o \in Node, Answered(o)
      PROVE  Answered(o)'
  <2>1. CASE o = n
    BY <1>1, <2>1
  <2>2. CASE o # n
    <3>1. cloud_boxes'[o] = cloud_boxes[o] /\ have_lock'[o] = have_lock[o]
      BY <2>2 DEF StartParmChange, TypeOK
    <3>2. \A m \in Node : o \in granted[m] => o \in granted'[m]
      BY DEF StartParmChange, TypeOK
    <3>3. have_lock[o] \subseteq Node
      BY DEF TypeOK
    <3> QED
      BY <1>2, <3>1, <3>2, <3>3 DEF Answered, Cloud
  <2> QED
    BY <2>1, <2>2
<1>3. ASSUME NEW c \in Chan, NEW m \in Frames, Holds(c, m)
      PROVE  Holds(c, m)'
  <2>1. c[1] \in Node /\ c[2] \in Node /\ m.originator \in Node
    BY DEF Chan, Frames
  <2>2. c[2] \in granted[c[1]] => c[2] \in granted'[c[1]]
    BY <2>1 DEF StartParmChange, TypeOK
  <2> QED
    BY <1>2, <1>3, <2>1, <2>2 DEF Holds
<1>4. CASE Emit(n, start)
  <2>1. start \in Outgoing
    BY SendType, MessageType, TreeAssumption DEF PcType
  <2>2. ASSUME NEW x \in Node, NEW i \in DOMAIN start[x]
        PROVE  Holds(<<n, x>>, start[x][i])'
    <3>1. start[x][i] = Message("parm_change_start_msg", n)
      BY SendFrames, TreeAssumption
    <3> QED
      BY <1>1, <3>1 DEF Holds, Message
  <2> QED
    BY <1>3, <1>4, <2>1, <2>2, SendTold
<1>5. CASE Emit(n, PassOn(n, Stp[n], go))
  <2>1. go \in Frames /\ go.type = "parm_change_go_msg"
    BY GoMessageType DEF TypeOK, GoMessage
  <2> HIDE DEF go
  <2>2. Stp[n] \in SUBSET Node
    BY TreeAssumption
  <2> QED
    BY <1>3, <1>5, <2>1, <2>2, PassOnTold
<1> QED
  BY <1>4, <1>5 DEF StartParmChange

LEMMA SilenceTold ==
  ASSUME TypeOK, Told, NEW n \in Node, NEW s \in Node, net[<<s, n>>] # <<>>,
         Answer(n, s, Silence),
         \A c \in Chan, m \in Frames : Holds(c, m) => Holds(c, m)'
  PROVE  Told'
<1>1. \A x \in Node : \A i \in DOMAIN Silence[x] : Holds(<<n, x>>, Silence[x][i])'
  BY DEF Silence
<1> QED
  BY <1>1, SilenceType, SendTold

\* What steps that keep the proposals and the locks keep.
LEMMA HoldsStable ==
  ASSUME TypeOK, UNCHANGED <<cloud_boxes, have_lock>>,
         \A m \in Node : granted[m] \subseteq granted'[m]
  PROVE  \A c \in Chan, m \in Frames : Holds(c, m) => Holds(c, m)'
<1>1. \A o \in Node : Answered(o) => Answered(o)'
  BY DEF Answered, Cloud, TypeOK
<1> SUFFICES ASSUME NEW c \in Chan, NEW m \in Frames, Holds(c, m)
             PROVE  Holds(c, m)'
  OBVIOUS
<1>2. c[1] \in Node /\ c[2] \in Node /\ m.originator \in Node
  BY DEF Chan, Frames
<1> QED
  BY <1>1, <1>2 DEF Holds

LEMMA ReadyTold ==
  ASSUME TypeOK, Told, NEW n \in Node, NEW s \in Node, ProcessReady(n, s)
  PROVE  Told' /\ Answered(n)'
<1> DEFINE go == GoMessage(n, parms[n], wish[n])
<1>1. Frame(n, s) \in Frames /\ net[<<s, n>>] # <<>>
  BY GotType DEF ProcessReady, TypeOK
<1>2. Frame(n, s).originator = s /\ n \in granted[s] /\ Answered(n)
  <2>1. <<s, n>> \in Chan /\ 1 \in DOMAIN net[<<s, n>>]
    BY <1>1 DEF TypeOK, Chan
  <2>2. Holds(<<s, n>>, net[<<s, n>>][1])
    BY <2>1 DEF Told
  <2>3. net[<<s, n>>][1] = Frame(n, s)
    BY <2>1 DEF Frame
  <2> QED
    BY <2>2, <2>3 DEF Holds, ProcessReady, Got
<1>3. UNCHANGED <<granted, cloud_boxes>>
  BY DEF ProcessReady
<1>4. /\ have_lock'[n] \subseteq have_lock[n] \cup {s}
      /\ \A o \in Node \ {n} : have_lock'[o] = have_lock[o]
  BY <1>2 DEF ProcessReady, TypeOK
<1>5. Answered(n)'
  BY <1>2, <1>3, <1>4 DEF Answered, Cloud
<1>6. ASSUME NEW o \in Node, Answered(o)
      PROVE  Answered(o)'
  BY <1>3, <1>4, <1>5, <1>6 DEF Answered, Cloud
<1>7. ASSUME NEW c \in Chan, NEW m \in Frames, Holds(c, m)
      PROVE  Holds(c, m)'
  <2>1. c[1] \in Node /\ c[2] \in Node /\ m.originator \in Node
    BY DEF Chan, Frames
  <2> QED
    BY <1>3, <1>6, <1>7, <2>1 DEF Holds
<1>8. CASE Answer(n, s, PassOn(n, Stp[n], go))
  <2>1. go \in Frames /\ go.type = "parm_change_go_msg"
    BY GoMessageType DEF TypeOK, GoMessage
  <2> HIDE DEF go
  <2>2. Stp[n] \in SUBSET Node
    BY TreeAssumption
  <2> QED
    BY <1>1, <1>5, <1>7, <1>8, <2>1, <2>2, PassOnTold
<1>9. CASE Answer(n, s, Silence)
  BY <1>1, <1>5, <1>7, <1>9, SilenceTold
<1> QED
  BY <1>8, <1>9 DEF ProcessReady

LEMMA ProposalTold ==
  ASSUME Ideal, TypeOK, Told, NEW n \in Node, NEW s \in Node, ProcessStart(n, s)
  PROVE  Told'
<1>1. Frame(n, s) \in Frames /\ net[<<s, n>>] # <<>>
  BY GotType DEF ProcessStart, TypeOK
<1>2. PICK m \in Frames : m = Frame(n, s)
  BY <1>1
<1> DEFINE o       == m.originator
           relay   == Send(n, Stp[n] \ {s}, 1, m)
           ready   == Send(n, {o}, 1, Message("parm_change_ready_msg", n))
           refusal == Send(n, {o}, 1, Message("parm_change_not_ready_msg", n))
<1>3. o \in Node
  BY DEF Frames
<1>4. m.type = "parm_change_start_msg" /\ Answered(o)
  <2>1. <<s, n>> \in Chan /\ 1 \in DOMAIN net[<<s, n>>]
    BY <1>1 DEF TypeOK, Chan
  <2>2. Holds(<<s, n>>, net[<<s, n>>][1])
    BY <2>1 DEF Told
  <2>3. net[<<s, n>>][1] = m
    BY <1>2, <2>1 DEF Frame
  <2> QED
    BY <1>2, <2>2, <2>3 DEF Holds, ProcessStart, Got
<1>5. UNCHANGED <<cloud_boxes, have_lock>> /\ \A x \in Node : granted[x] \subseteq granted'[x]
  BY <1>2, <1>3 DEF ProcessStart, GrantLock, TypeOK, round
<1>6. \A c \in Chan, f \in Frames : Holds(c, f) => Holds(c, f)'
  BY <1>5, HoldsStable
<1>7. Answered(o)'
  BY <1>3, <1>4, <1>5 DEF Answered, Cloud, TypeOK
<1>8. /\ relay \in Outgoing /\ ready \in Outgoing /\ refusal \in Outgoing
  BY <1>3, SendType, MessageType, TreeAssumption DEF PcType
<1>9. ASSUME NEW x \in Node, NEW i \in DOMAIN relay[x]
      PROVE  Holds(<<n, x>>, relay[x][i])'
  <2>1. relay[x][i] = m
    BY SendFrames, TreeAssumption
  <2> QED
    BY <1>4, <1>7, <2>1 DEF Holds
<1>10. ASSUME NEW x \in Node, NEW i \in DOMAIN refusal[x]
       PROVE  Holds(<<n, x>>, refusal[x][i])'
  <2>1. refusal[x][i] = Message("parm_change_not_ready_msg", n)
    BY <1>3, SendFrames
  <2> QED
    BY <2>1 DEF Holds, Message
<1>11. ASSUME o \in granted'[n], NEW x \in Node, NEW i \in DOMAIN ready[x]
       PROVE  Holds(<<n, x>>, ready[x][i])'
  <2>1. ready[x][i] = Message("parm_change_ready_msg", n) /\ Route(n, o) = x
    BY <1>3, SendFrames
  <2>2. x = o /\ x # n
    BY <1>3, <2>1, NoneAssumption, TreeAssumption DEF Route, Ideal
  <2> QED
    BY <1>7, <1>11, <2>1, <2>2 DEF Holds, Message
<1>12. CASE /\ Answer(n, s, relay ++ ready)
            /\ o \in granted'[n]
  <2>1. ASSUME NEW x \in Node, NEW i \in DOMAIN (relay ++ ready)[x]
        PROVE  Holds(<<n, x>>, (relay ++ ready)[x][i])'
    <3> HIDE DEF relay, ready
    <3>1. \/ \E j \in DOMAIN relay[x] : relay[x][j] = (relay ++ ready)[x][i]
          \/ \E j \in DOMAIN ready[x] : ready[x][j] = (relay ++ ready)[x][i]
      BY <1>8, BesideFrames
    <3> QED
      BY <1>9, <1>11, <1>12, <3>1 DEF Holds
  <2>2. relay ++ ready \in Outgoing
    BY <1>8, BesideType
  <2> QED
    BY <1>1, <1>6, <1>12, <2>1, <2>2, SendTold
<1>13. CASE Answer(n, s, relay ++ refusal)
  <2>1. ASSUME NEW x \in Node, NEW i \in DOMAIN (relay ++ refusal)[x]
        PROVE  Holds(<<n, x>>, (relay ++ refusal)[x][i])'
    <3> HIDE DEF relay, refusal
    <3>1. \/ \E j \in DOMAIN relay[x] : relay[x][j] = (relay ++ refusal)[x][i]
          \/ \E j \in DOMAIN refusal[x] : refusal[x][j] = (relay ++ refusal)[x][i]
      BY <1>8, BesideFrames
    <3> QED
      BY <1>9, <1>10, <3>1 DEF Holds
  <2>2. relay ++ refusal \in Outgoing
    BY <1>8, BesideType
  <2> QED
    BY <1>1, <1>6, <1>13, <2>1, <2>2, SendTold
<1>14. CASE Answer(n, s, Silence)
  BY <1>1, <1>6, <1>14, SilenceTold
<1>15. GrantLock(n, o) => o \in granted'[n]
  BY <1>3 DEF GrantLock, TypeOK
<1> QED
  BY <1>2, <1>12, <1>13, <1>14, <1>15 DEF ProcessStart

\* A lock that times out is one nobody asks or tells about any more.
LEMMA ExpireTold ==
  ASSUME Ideal, TypeOK, Told, NEW n \in Node, NEW o \in Node, Expire(n, o)
  PROVE  Told'
<1>1. ~Outstanding(o) /\ UNCHANGED <<cloud_boxes, have_lock, net>>
  BY DEF Expire, Ideal, round
<1>2. \A p \in Node \ {o}, x \in Node : p \in granted[x] => p \in granted'[x]
  BY DEF Expire, TypeOK
<1>3. \A p \in Node \ {o} : Answered(p) => Answered(p)'
  BY <1>1, <1>2 DEF Answered, Cloud, TypeOK
<1> SUFFICES ASSUME NEW c \in Chan, NEW i \in DOMAIN net[c], NEW m \in Frames,
                    m = net[c][i]
             PROVE  Holds(c, m)'
  <2>1. \A c \in Chan : \A i \in DOMAIN net[c] : net[c][i] \in Frames
    BY DEF TypeOK
  <2> QED
    BY <1>1, <2>1 DEF Told
<1>4. Holds(c, m) /\ c[1] \in Node /\ c[2] \in Node /\ m.originator \in Node
  BY DEF Told, Chan, Frames
<1>5. CASE m.type = "parm_change_start_msg"
  <2>1. m.originator # o
    BY <1>1, <1>5 DEF Outstanding
  <2> QED
    BY <1>3, <1>4, <1>5, <2>1 DEF Holds
<1>6. CASE m.type = "parm_change_ready_msg"
  <2>1. Route(c[1], o) # c[2]
    BY <1>1, <1>6 DEF Outstanding
  <2>2. c[2] # o
    BY <1>4, <1>6, <2>1 DEF Holds, Route, Ideal
  <2> QED
    BY <1>2, <1>3, <1>4, <1>6, <2>2 DEF Holds
<1> QED
  BY <1>5, <1>6 DEF Holds

LEMMA NextUndenied == Ideal /\ TypeOK /\ Undenied /\ [Next]_vars => Undenied'
<1> SUFFICES ASSUME Ideal, TypeOK, Undenied, [Next]_vars
             PROVE  UNCHANGED denied
  BY DEF Undenied
<1>1. CASE Next
  <2>1. \A n \in Node : StartRefused(n) \/ StartFails(n) => UNCHANGED denied
    BY DEF StartRefused, StartFails
  <2>2. \A n \in Node, p \in Parms : StartParmChange(n, p) => UNCHANGED denied
    BY DEF StartParmChange
  <2>3. \A n, s \in Node : ProcessCloudMessage(n, s) => UNCHANGED denied
    BY DEF ProcessCloudMessage, ProcessStart, ProcessReady, ProcessNotReady,
           ProcessGo
  <2>4. \A n \in Node : BeginChange(n) \/ LockArc(n) => UNCHANGED denied
    BY DEF BeginChange, LockArc
  <2>5. \A n \in Node : EndChange(n) => UNCHANGED denied
    BY DEF EndChange, Ideal
  <2>6. \A n \in Node : ~DeniedAgain(n)
    BY DEF DeniedAgain, Undenied
  <2>7. \A n, o \in Node : Expire(n, o) \/ Lose(n, o) => UNCHANGED denied
    BY DEF Expire, Lose
  <2> QED
    BY <1>1, <2>1, <2>2, <2>3, <2>4, <2>5, <2>6, <2>7 DEF Next
<1>2. CASE UNCHANGED vars
  BY <1>2 DEF vars
<1> QED
  BY <1>1, <1>2

LEMMA NextTold ==
  Ideal /\ TypeOK /\ OneLock /\ Undenied /\ Told /\ [Next]_vars => Told'
<1> SUFFICES ASSUME Ideal, TypeOK, OneLock, Undenied, Told, [Next]_vars
             PROVE  Told'
  OBVIOUS
<1> DEFINE Quiet ==
             /\ UNCHANGED <<cloud_boxes, have_lock>>
             /\ \A m \in Node : granted[m] \subseteq granted'[m]
\* Steps that send nothing.
<1>1. ASSUME Quiet,
             UNCHANGED net \/ \E n, s \in Node : Lose(n, s)
      PROVE  Told'
  <2>1. net' \in [Chan -> Seq(Frames)]
    <3>1. CASE UNCHANGED net
      BY <3>1 DEF TypeOK
    <3>2. CASE \E n, s \in Node : Lose(n, s)
      BY <3>2, RestType DEF TypeOK
    <3> QED
      BY <1>1, <3>1, <3>2
  <2>2. \A c \in Chan : \A i \in DOMAIN net'[c] :
          \E j \in DOMAIN net[c] : net[c][j] = net'[c][i]
    <3>1. CASE UNCHANGED net
      BY <3>1
    <3>2. ASSUME NEW n \in Node, NEW s \in Node, Lose(n, s),
                 NEW c \in Chan, NEW i \in DOMAIN net'[c]
          PROVE  \E j \in DOMAIN net[c] : net[c][j] = net'[c][i]
      <4>1. net[c] \in Seq(Frames)
        BY DEF TypeOK
      <4>2. CASE c = <<s, n>>
        <5>1. net'[c] = Tail(net[c]) /\ net[c] # <<>>
          BY <3>2, <4>2 DEF Lose, TypeOK
        <5>2. i + 1 \in DOMAIN net[c] /\ net[c][i + 1] = net'[c][i]
          BY <4>1, <5>1, <3>2
        <5> QED
          BY <5>2
      <4>3. CASE c # <<s, n>>
        <5>1. net'[c] = net[c]
          BY <3>2, <4>3 DEF Lose, TypeOK
        <5> QED
          BY <5>1
      <4> QED
        BY <4>2, <4>3
    <3> QED
      BY <1>1, <3>1, <3>2
  <2> QED
    BY <1>1, <2>1, <2>2, QuietTold DEF TypeOK
<1>2. ASSUME NEW n \in Node, StartRefused(n) \/ StartFails(n)
      PROVE  Told'
  <2>1. Quiet
    BY <1>2 DEF StartRefused, StartFails, GrantLock, TypeOK, round
  <2> QED
    BY <1>1, <1>2, <2>1 DEF StartRefused, StartFails
<1>3. ASSUME NEW n \in Node, NEW p \in Parms, StartParmChange(n, p)
      PROVE  Told'
  BY <1>3, StartTold
<1>4. ASSUME NEW n \in Node, NEW s \in Node, ProcessCloudMessage(n, s)
      PROVE  Told'
  <2>1. CASE ProcessStart(n, s)
    BY <2>1, ProposalTold
  <2>2. CASE ProcessReady(n, s)
    BY <2>2, ReadyTold
  <2>3. CASE ProcessNotReady(n, s)
    <3>1. Quiet /\ net[<<s, n>>] # <<>> /\ Answer(n, s, Silence)
      BY <2>3 DEF ProcessNotReady, Got, round
    <3> QED
      BY <3>1, HoldsStable, SilenceTold
  <2>4. CASE ProcessGo(n, s)
    <3> DEFINE m == Frame(n, s)
    <3>1. Quiet
      BY <2>4 DEF ProcessGo, round
    <3>2. m \in Frames /\ net[<<s, n>>] # <<>> /\ m.type = "parm_change_go_msg"
      BY <2>4, GotType DEF ProcessGo, TypeOK, Got
    <3>3. Stp[n] \ {s} \in SUBSET Node
      BY TreeAssumption
    <3> HIDE DEF m
    <3>4. Answer(n, s, Silence) \/ Answer(n, s, PassOn(n, Stp[n] \ {s}, m))
      BY <2>4 DEF ProcessGo, m
    <3> QED
      BY <3>1, <3>2, <3>3, <3>4, HoldsStable, SilenceTold, PassOnTold
  <2> QED
    BY <1>4, <2>1, <2>2, <2>3, <2>4 DEF ProcessCloudMessage
<1>5. ASSUME NEW n \in Node, BeginChange(n) \/ LockArc(n) \/ EndChange(n)
      PROVE  Told'
  <2>1. UNCHANGED net
    BY <1>5 DEF BeginChange, LockArc, EndChange
  <2>2. ASSUME NEW m \in Node
        PROVE  granted[m] \subseteq granted'[m]
    <3>1. CASE UNCHANGED granted
      BY <3>1
    <3>2. CASE "attempt" \in tree[n] /\ granted' = [granted EXCEPT ![n] = {}]
      BY <3>2 DEF OneLock, TypeOK
    <3> QED
      BY <1>5, <3>1, <3>2
      DEF BeginChange, LockArc, EndChange, ClearStpUpdateState
  <2>3. UNCHANGED <<cloud_boxes, have_lock>>
    BY <1>5 DEF BeginChange, LockArc, EndChange, round
  <2> QED
    BY <1>1, <2>1, <2>2, <2>3
<1>6. ASSUME NEW n \in Node, NEW o \in Node, Expire(n, o)
      PROVE  Told'
  BY <1>6, ExpireTold
<1>7. ASSUME NEW n \in Node, NEW s \in Node, Lose(n, s)
      PROVE  Told'
  BY <1>1, <1>7 DEF Lose, round
<1>8. CASE UNCHANGED vars
  BY <1>1, <1>8 DEF vars, round
<1> QED
  BY <1>2, <1>3, <1>4, <1>5, <1>6, <1>7, <1>8 DEF Next, DeniedAgain, Undenied

\* The originator that counts the last answer has a lock on every other box.
LEMMA CommitStep ==
  ASSUME Ideal, TypeOK, OneLock, Told, NEW n \in Node, Commits(n),
         NEW m \in Node, Via[n][m] # None
  PROVE  n \in granted[m] /\ "attempt" \notin tree[m]
<1>1. PICK s \in Node : ProcessReady(n, s) /\ up'[n] = FALSE
  BY DEF Commits
<1>2. Answered(n)'
  BY <1>1, ReadyTold
<1>3. cloud_boxes[n] \subseteq have_lock'[n]
  BY <1>1 DEF ProcessReady, Got, TypeOK
<1>4. cloud_boxes[n] = Cloud(n) /\ granted' = granted
  BY <1>1, <1>2 DEF Answered, Cloud, ProcessReady
<1>5. m \in have_lock'[n]
  BY <1>3, <1>4 DEF Cloud
<1>6. n \in granted[m]
  BY <1>2, <1>4, <1>5 DEF Answered
<1> QED
  BY <1>6 DEF OneLock

\* If boxes hear each other, a lock outlives the answer that tells of it and no
\* denial comes late, then nobody starts a change of the parameters before every
\* other box of the cloud is locked for it and busy with nothing else.
THEOREM GoCorrect == Ideal => (Spec => GoNeedsEveryLock)
<1> SUFFICES ASSUME Ideal PROVE Spec => GoNeedsEveryLock
  OBVIOUS
<1> DEFINE Inv == TypeOK /\ OneLock /\ Undenied /\ Told
           Go  == \A n \in Node :
                    Commits(n) => \A m \in Node : Via[n][m] # None =>
                                    n \in granted[m] /\ "attempt" \notin tree[m]
<1>1. Init => Inv
  BY InitType, InitOneLock, InitTold DEF Init, Undenied
<1>2. Inv /\ [Next]_vars => Inv'
  BY NextType, NextOneLock, NextUndenied, NextTold
<1>3. Inv /\ [Next]_vars => [Go]_vars
  BY CommitStep
<1> QED
  BY <1>1, <1>2, <1>3, PTL DEF Spec, GoNeedsEveryLock

-----------------------------------------------------------------------------
(* Agreement, when besides all boxes are one cloud.  At most one originator *)
(* ever sends the go-ahead: at that moment every other box is locked for    *)
(* it, so no other proposal is under way, and afterwards it answers none.   *)

OneCloud == \A n, m \in Node : n # m => Via[n][m] # None

InFlight(c, f) == \E i \in DOMAIN net[c] : net[c][i] = f

\* A proposal of o is under way: it, or an answer to it, is in flight.
Asks(o, c, f) ==
  \/ f.type = "parm_change_start_msg" /\ f.originator = o
  \/ f.type = "parm_change_ready_msg" /\ c[2] = o

Asked(o) == \E c \in Chan, f \in Frames : InFlight(c, f) /\ Asks(o, c, f)

\* Whoever has a proposal under way is locked for itself.
Alive == \A o \in Node : Asked(o) => o \in granted[o]

\* Nobody has sent the go-ahead.
Undecided ==
  /\ \A n \in Node : up[n]
  /\ \A c \in Chan, f \in Frames : InFlight(c, f) => f.type # "parm_change_go_msg"

\* o has, and nobody else ever will: no proposal under way has o's answer.
Decided(o) ==
  /\ ~up[o]
  /\ \A n \in Node : ~up[n] => parms[n] = parms[o]
  /\ \A c \in Chan, f \in Frames : InFlight(c, f) =>
       /\ f.type = "parm_change_go_msg" => f.new = parms[o]
       /\ f.type = "parm_change_ready_msg" => c[1] # o
  /\ \A p \in Node \ {o} : Asked(p) => o \notin have_lock[p]

Sole == Undecided \/ \E o \in Node : Decided(o)

\* What may be in flight after a step that sends.
LEMMA AfterSending ==
  ASSUME TypeOK, NEW n \in Node, NEW out \in Outgoing,
         \/ Emit(n, out)
         \/ \E s \in Node : net[<<s, n>>] # <<>> /\ Answer(n, s, out),
         NEW c \in Chan, NEW f, InFlight(c, f)'
  PROVE  \/ InFlight(c, f)
         \/ c[1] = n /\ \E j \in DOMAIN out[c[2]] : out[c[2]][j] = f
<1>1. net \in [Chan -> Seq(Frames)]
  BY DEF TypeOK
<1>2. PICK i \in DOMAIN net'[c] : net'[c][i] = f
  BY DEF InFlight
<1>3. \/ \E j \in DOMAIN net[c] : net[c][j] = net'[c][i]
      \/ c[1] = n /\ \E j \in DOMAIN out[c[2]] : out[c[2]][j] = net'[c][i]
  <2>1. CASE Emit(n, out)
    BY <1>1, <2>1, EmitFrames
  <2>2. CASE \E s \in Node : net[<<s, n>>] # <<>> /\ Answer(n, s, out)
    BY <1>1, <2>2, AnswerFrames
  <2> QED
    BY <2>1, <2>2
<1> QED
  BY <1>2, <1>3 DEF InFlight

\* ... when all it sends is some frames m to some boxes.
LEMMA AfterSend ==
  ASSUME TypeOK, NEW n \in Node, NEW D \in SUBSET Node, NEW k \in Nat,
         NEW m \in Frames,
         \/ Emit(n, Send(n, D, k, m))
         \/ \E s \in Node : net[<<s, n>>] # <<>> /\ Answer(n, s, Send(n, D, k, m)),
         NEW c \in Chan, NEW f, InFlight(c, f)'
  PROVE  InFlight(c, f) \/ (c[1] = n /\ f = m)
<1>1. Send(n, D, k, m) \in Outgoing
  BY SendType
<1>2. c[2] \in Node
  BY DEF Chan
<1>3. \/ InFlight(c, f)
      \/ c[1] = n /\ \E j \in DOMAIN Send(n, D, k, m)[c[2]] :
                       Send(n, D, k, m)[c[2]][j] = f
  BY <1>1, AfterSending
<1> QED
  BY <1>2, <1>3, SendFrames

LEMMA AfterSilence ==
  ASSUME TypeOK, NEW n \in Node, NEW s \in Node, net[<<s, n>>] # <<>>,
         Answer(n, s, Silence), NEW c \in Chan, NEW f, InFlight(c, f)'
  PROVE  InFlight(c, f)
<1>1. c[2] \in Node
  BY DEF Chan
<1>2. \/ InFlight(c, f)
      \/ c[1] = n /\ \E j \in DOMAIN Silence[c[2]] : Silence[c[2]][j] = f
  BY SilenceType, AfterSending
<1> QED
  BY <1>1, <1>2 DEF Silence

\* The frame a handler reads is in flight.
LEMMA ReadIsInFlight ==
  ASSUME TypeOK, NEW n \in Node, NEW s \in Node, NEW t, Got(n, s, t)
  PROVE  /\ <<s, n>> \in Chan /\ Frame(n, s) \in Frames
         /\ net[<<s, n>>] # <<>> /\ up[n]
         /\ InFlight(<<s, n>>, Frame(n, s)) /\ Frame(n, s).type = t
<1>1. <<s, n>> \in Chan /\ net[<<s, n>>] # <<>> /\ Frame(n, s) \in Frames
  BY GotType DEF TypeOK, Chan
<1>2. 1 \in DOMAIN net[<<s, n>>] /\ net[<<s, n>>][1] = Frame(n, s)
  BY <1>1 DEF TypeOK, Frame
<1> QED
  BY <1>1, <1>2 DEF InFlight, Got

\* What is in flight after each kind of step.
LEMMA AfterStart ==
  ASSUME TypeOK, NEW n \in Node, NEW p \in Parms, StartParmChange(n, p),
         NEW c \in Chan, NEW f \in Frames, InFlight(c, f)'
  PROVE  \/ InFlight(c, f)
         \/ f = Message("parm_change_start_msg", n)
         \/ Cloud(n) = {} /\ f = GoMessage(n, parms[n], p)
<1> DEFINE go == GoMessage(n, parms[n], p)
           st == Message("parm_change_start_msg", n)
<1>1. go \in Frames /\ st \in Frames /\ Stp[n] \in SUBSET Node
  BY GoMessageType, MessageType, TreeAssumption DEF TypeOK, PcType
<1>2. \/ Emit(n, Send(n, Stp[n], 1, st))
      \/ Cloud(n) = {} /\ Emit(n, Send(n, Stp[n], Repeats, go))
  BY DEF StartParmChange, PassOn
<1> HIDE DEF go, st
<1>3. InFlight(c, f) \/ f = st \/ (Cloud(n) = {} /\ f = go)
  BY <1>1, <1>2, AfterSend, BoundAssumption
<1> QED
  BY <1>3 DEF go, st

LEMMA AfterReady ==
  ASSUME TypeOK, NEW n \in Node, NEW s \in Node, ProcessReady(n, s),
         NEW c \in Chan, NEW f \in Frames, InFlight(c, f)'
  PROVE  \/ InFlight(c, f)
         \/ /\ cloud_boxes[n] \subseteq have_lock'[n]
            /\ f = GoMessage(n, parms[n], wish[n])
<1> DEFINE go == GoMessage(n, parms[n], wish[n])
<1>1. go \in Frames /\ Stp[n] \in SUBSET Node
  BY GoMessageType, TreeAssumption DEF TypeOK
<1>2. net[<<s, n>>] # <<>>
  BY DEF ProcessReady, Got
<1>3. \/ Answer(n, s, Silence)
      \/ /\ cloud_boxes[n] \subseteq have_lock'[n]
         /\ Answer(n, s, Send(n, Stp[n], Repeats, go))
  BY DEF ProcessReady, PassOn, TypeOK
<1> HIDE DEF go
<1>4. InFlight(c, f) \/ (cloud_boxes[n] \subseteq have_lock'[n] /\ f = go)
  BY <1>1, <1>2, <1>3, AfterSend, AfterSilence, BoundAssumption
<1> QED
  BY <1>4 DEF go

LEMMA AfterGo ==
  ASSUME TypeOK, NEW n \in Node, NEW s \in Node, ProcessGo(n, s),
         NEW c \in Chan, NEW f \in Frames, InFlight(c, f)'
  PROVE  InFlight(c, f) \/ f = Frame(n, s)
<1> DEFINE m == Frame(n, s)
<1>1. m \in Frames /\ net[<<s, n>>] # <<>> /\ Stp[n] \ {s} \in SUBSET Node
  BY ReadIsInFlight, TreeAssumption DEF ProcessGo
<1>2. \/ Answer(n, s, Silence)
      \/ Answer(n, s, Send(n, Stp[n] \ {s}, Repeats, m))
  BY DEF ProcessGo, PassOn
<1> HIDE DEF m
<1>3. InFlight(c, f) \/ f = m
  BY <1>1, <1>2, AfterSend, AfterSilence, BoundAssumption
<1> QED
  BY <1>3 DEF m

LEMMA AfterProposal ==
  ASSUME Ideal, TypeOK, NEW n \in Node, NEW s \in Node, ProcessStart(n, s),
         NEW c \in Chan, NEW f \in Frames, InFlight(c, f)'
  PROVE  \/ InFlight(c, f)
         \/ f = Frame(n, s)
         \/ /\ f = Message("parm_change_ready_msg", n)
            /\ c[1] = n /\ c[2] = Frame(n, s).originator
         \/ f = Message("parm_change_not_ready_msg", n)
<1>1. PICK m \in Frames : m = Frame(n, s)
  BY ReadIsInFlight DEF ProcessStart
<1> DEFINE o     == m.originator
           relay == Send(n, Stp[n] \ {s}, 1, m)
           yes   == Message("parm_change_ready_msg", n)
           no    == Message("parm_change_not_ready_msg", n)
           ready == Send(n, {o}, 1, yes)
           deny  == Send(n, {o}, 1, no)
<1>2. o \in Node /\ net[<<s, n>>] # <<>> /\ c[2] \in Node
  BY ReadIsInFlight DEF ProcessStart, Frames, Chan
<1>3. relay \in Outgoing /\ ready \in Outgoing /\ deny \in Outgoing
  BY <1>2, SendType, MessageType, TreeAssumption DEF PcType
<1>4. \/ Answer(n, s, relay ++ ready)
      \/ Answer(n, s, relay ++ deny)
      \/ Answer(n, s, Silence)
  BY <1>1 DEF ProcessStart
<1>5. \A j \in DOMAIN relay[c[2]] : relay[c[2]][j] = m
  BY <1>2, SendFrames, TreeAssumption
<1>6. \A j \in DOMAIN ready[c[2]] : ready[c[2]][j] = yes /\ Route(n, o) = c[2]
  BY <1>2, SendFrames
<1>7. \A j \in DOMAIN deny[c[2]] : deny[c[2]][j] = no
  BY <1>2, SendFrames
<1>8. Route(n, o) = c[2] => c[2] = o
  BY <1>2, NoneAssumption, TreeAssumption DEF Route, Ideal
<1> HIDE DEF relay, ready, deny, yes, no, o
<1>9. CASE Answer(n, s, relay ++ ready)
  <2>1. relay ++ ready \in Outgoing
    BY <1>3, BesideType
  <2>2. \/ InFlight(c, f)
        \/ c[1] = n /\ \E j \in DOMAIN (relay ++ ready)[c[2]] :
                         (relay ++ ready)[c[2]][j] = f
    BY <1>2, <1>9, <2>1, AfterSending
  <2>3. ASSUME c[1] = n, NEW j \in DOMAIN (relay ++ ready)[c[2]],
               (relay ++ ready)[c[2]][j] = f
        PROVE  f = m \/ (f = yes /\ c[2] = o)
    <3>1. \/ \E i \in DOMAIN relay[c[2]] : relay[c[2]][i] = f
          \/ \E i \in DOMAIN ready[c[2]] : ready[c[2]][i] = f
      BY <1>2, <1>3, <2>3, BesideFrames
    <3> QED
      BY <1>5, <1>6, <1>8, <3>1
  <2> QED
    BY <1>1, <2>2, <2>3 DEF yes, o
<1>10. CASE Answer(n, s, relay ++ deny)
  <2>1. relay ++ deny \in Outgoing
    BY <1>3, BesideType
  <2>2. \/ InFlight(c, f)
        \/ c[1] = n /\ \E j \in DOMAIN (relay ++ deny)[c[2]] :
                         (relay ++ deny)[c[2]][j] = f
    BY <1>2, <1>10, <2>1, AfterSending
  <2>3. ASSUME NEW j \in DOMAIN (relay ++ deny)[c[2]],
               (relay ++ deny)[c[2]][j] = f
        PROVE  f = m \/ f = no
    <3>1. \/ \E i \in DOMAIN relay[c[2]] : relay[c[2]][i] = f
          \/ \E i \in DOMAIN deny[c[2]] : deny[c[2]][i] = f
      BY <1>2, <1>3, <2>3, BesideFrames
    <3> QED
      BY <1>5, <1>7, <3>1
  <2> QED
    BY <1>1, <2>2, <2>3 DEF no
<1>11. CASE Answer(n, s, Silence)
  BY <1>2, <1>11, AfterSilence
<1> QED
  BY <1>4, <1>9, <1>10, <1>11

\* Steps that neither send nor decide anything.
Idle(n, o) ==
  \/ StartRefused(n) \/ StartFails(n) \/ ProcessNotReady(n, o)
  \/ BeginChange(n) \/ LockArc(n) \/ EndChange(n) \/ Expire(n, o) \/ Lose(n, o)

LEMMA AfterIdle ==
  ASSUME TypeOK, NEW n \in Node, NEW s \in Node, Idle(n, s),
         NEW c \in Chan, NEW f, InFlight(c, f)'
  PROVE  InFlight(c, f)
<1>1. CASE UNCHANGED net
  BY <1>1 DEF InFlight
<1>2. CASE ProcessNotReady(n, s)
  BY <1>2, AfterSilence DEF ProcessNotReady, Got
<1>3. CASE Lose(n, s)
  <2>1. PICK i \in DOMAIN net'[c] : net'[c][i] = f
    BY DEF InFlight
  <2>2. net[c] \in Seq(Frames)
    BY DEF TypeOK
  <2>3. CASE c = <<s, n>>
    <3>1. net'[c] = Tail(net[c]) /\ net[c] # <<>>
      BY <1>3, <2>3 DEF Lose, TypeOK
    <3>2. i + 1 \in DOMAIN net[c] /\ net[c][i + 1] = f
      BY <2>1, <2>2, <3>1
    <3> QED
      BY <3>2 DEF InFlight
  <2>4. CASE c # <<s, n>>
    <3>1. net'[c] = net[c]
      BY <1>3, <2>4 DEF Lose, TypeOK
    <3> QED
      BY <2>1, <3>1 DEF InFlight
  <2> QED
    BY <2>3, <2>4
<1> QED
  BY <1>1, <1>2, <1>3
  DEF Idle, StartRefused, StartFails, BeginChange, LockArc, EndChange, Expire

\* The kinds of step, when no denial comes late.
LEMMA Steps ==
  ASSUME Undenied, Next
  PROVE  \/ \E n, o \in Node : Idle(n, o)
         \/ \E n \in Node, p \in Parms : StartParmChange(n, p)
         \/ \E n, s \in Node : ProcessReady(n, s)
         \/ \E n, s \in Node : ProcessStart(n, s)
         \/ \E n, s \in Node : ProcessGo(n, s)
BY DEF Next, Idle, ProcessCloudMessage, DeniedAgain, Undenied

\* What an idle step leaves alone.
LEMMA IdleKeeps ==
  ASSUME Ideal, TypeOK, OneLock, NEW n \in Node, NEW s \in Node, Idle(n, s)
  PROVE  /\ UNCHANGED <<up, parms, have_lock>>
         /\ \A o \in Node : o \in granted[o] /\ o \notin granted'[o] =>
              ~Outstanding(o) /\ UNCHANGED net
<1>1. UNCHANGED <<up, parms, have_lock>>
  BY DEF Idle, StartRefused, StartFails, ProcessNotReady, BeginChange, LockArc,
         EndChange, Expire, Lose, round
<1>2. ASSUME NEW o \in Node, o \in granted[o], o \notin granted'[o]
      PROVE  ~Outstanding(o) /\ UNCHANGED net
  <2>1. CASE Expire(n, s)
    <3>1. o = n /\ o = s
      BY <1>2, <2>1 DEF Expire, TypeOK
    <3> QED
      BY <2>1, <3>1 DEF Expire, Ideal
  <2>2. CASE EndChange(n)
    <3>1. CASE UNCHANGED granted
      BY <1>2, <3>1
    <3>2. CASE "attempt" \in tree[n] /\ granted' = [granted EXCEPT ![n] = {}]
      BY <1>2, <3>2 DEF OneLock, TypeOK
    <3> QED
      BY <2>2, <3>1, <3>2 DEF EndChange, ClearStpUpdateState
  <2>3. CASE StartFails(n)
    <3>1. granted[o] \subseteq granted'[o]
      BY <2>3 DEF StartFails, GrantLock, TypeOK
    <3> QED
      BY <1>2, <3>1
  <2> QED
    BY <1>2, <2>1, <2>2, <2>3
    DEF Idle, StartRefused, ProcessNotReady, BeginChange, LockArc, Lose
<1> QED
  BY <1>1, <1>2

LEMMA AskedOutstanding ==
  ASSUME Ideal, TypeOK, Told, NEW o \in Node, Asked(o)
  PROVE  Outstanding(o)
<1>1. PICK c \in Chan, f \in Frames : InFlight(c, f) /\ Asks(o, c, f)
  BY DEF Asked
<1>2. PICK i \in DOMAIN net[c] : net[c][i] = f
  BY <1>1 DEF InFlight
<1>3. Holds(c, f)
  BY <1>2 DEF Told
<1>4. f.type = "parm_change_ready_msg" => Route(c[1], c[2]) = c[2]
  BY <1>3 DEF Holds, Route, Ideal, Chan
<1> QED
  BY <1>1, <1>2, <1>4 DEF Asks, Outstanding

-----------------------------------------------------------------------------
(* Alive.                                                                   *)

\* A proposal is under way only if it was, or starts with this step.
LEMMA AskedBefore ==
  ASSUME Ideal, TypeOK, Undenied, Told, Next, NEW o \in Node, Asked(o)'
  PROVE  Asked(o) \/ \E p \in Parms : StartParmChange(o, p)
<1>1. PICK c \in Chan, f \in Frames : InFlight(c, f)' /\ Asks(o, c, f)
  BY DEF Asked, Asks
<1>2. CASE InFlight(c, f)
  BY <1>1, <1>2 DEF Asked
<1>3. CASE \E n, s \in Node : Idle(n, s)
  BY <1>1, <1>2, <1>3, AfterIdle
<1>4. CASE \E n \in Node, p \in Parms : StartParmChange(n, p)
  <2>1. PICK n \in Node, p \in Parms : StartParmChange(n, p)
    BY <1>4
  <2>2. ASSUME f = Message("parm_change_start_msg", n) PROVE n = o
    BY <1>1, <2>2 DEF Asks, Message
  <2>3. f # GoMessage(n, parms[n], p)
    BY <1>1 DEF Asks, GoMessage
  <2> QED
    BY <1>1, <1>2, <2>1, <2>2, <2>3, AfterStart
<1>5. CASE \E n, s \in Node : ProcessReady(n, s)
  <2>1. PICK n \in Node, s \in Node : ProcessReady(n, s)
    BY <1>5
  <2>2. f # GoMessage(n, parms[n], wish[n])
    BY <1>1 DEF Asks, GoMessage
  <2> QED
    BY <1>1, <1>2, <2>1, <2>2, AfterReady
<1>6. CASE \E n, s \in Node : ProcessStart(n, s)
  <2>1. PICK n \in Node, s \in Node : ProcessStart(n, s)
    BY <1>6
  <2>2. PICK m \in Frames : m = Frame(n, s)
    BY <2>1, ReadIsInFlight DEF ProcessStart
  <2>3. InFlight(<<s, n>>, m) /\ m.type = "parm_change_start_msg" /\ <<s, n>> \in Chan
    BY <2>1, <2>2, ReadIsInFlight DEF ProcessStart
  <2>4. m.originator = o => Asked(o)
    BY <2>3 DEF Asked, Asks
  <2>5. f = m => m.originator = o
    BY <1>1, <2>3 DEF Asks
  <2>6. f = Message("parm_change_ready_msg", n) => c[2] = o
    BY <1>1 DEF Asks, Message
  <2>7. f # Message("parm_change_not_ready_msg", n)
    BY <1>1 DEF Asks, Message
  <2> QED
    BY <1>1, <1>2, <2>1, <2>2, <2>4, <2>5, <2>6, <2>7, AfterProposal
<1>7. CASE \E n, s \in Node : ProcessGo(n, s)
  <2>1. PICK n \in Node, s \in Node : ProcessGo(n, s)
    BY <1>7
  <2>2. Frame(n, s).type = "parm_change_go_msg"
    BY <2>1 DEF ProcessGo, Got
  <2>3. f # Frame(n, s)
    BY <1>1, <2>2 DEF Asks
  <2> QED
    BY <1>1, <1>2, <2>1, <2>3, AfterGo
<1> QED
  BY <1>3, <1>4, <1>5, <1>6, <1>7, Steps

LEMMA NextAlive ==
  Ideal /\ TypeOK /\ OneLock /\ Undenied /\ Told /\ Alive /\ [Next]_vars => Alive'
<1> SUFFICES ASSUME Ideal, TypeOK, OneLock, Undenied, Told, Alive, [Next]_vars,
                    NEW o \in Node, Asked(o)'
             PROVE  o \in granted'[o]
  BY DEF Alive
<1>1. CASE UNCHANGED vars
  <2>1. UNCHANGED <<net, granted>>
    BY <1>1 DEF vars
  <2> QED
    BY <2>1 DEF Alive, Asked, InFlight
<1>2. CASE Next
  <2>1. CASE \E p \in Parms : StartParmChange(o, p)
    BY <2>1 DEF StartParmChange, TypeOK
  <2>2. CASE Asked(o)
    <3>1. o \in granted[o]
      BY <2>2 DEF Alive
    <3>2. CASE \E n, s \in Node : Idle(n, s)
      BY <2>2, <3>1, <3>2, IdleKeeps, AskedOutstanding
    <3>3. CASE \E n \in Node, p \in Parms : StartParmChange(n, p)
      BY <3>1, <3>3 DEF StartParmChange, TypeOK
    <3>4. CASE \E n, s \in Node : ProcessReady(n, s)
      BY <3>1, <3>4 DEF ProcessReady
    <3>5. CASE \E n, s \in Node : ProcessStart(n, s)
      BY <3>1, <3>5 DEF ProcessStart, GrantLock, TypeOK
    <3>6. CASE \E n, s \in Node : ProcessGo(n, s)
      BY <3>1, <3>6 DEF ProcessGo
    <3> QED
      BY <1>2, <3>2, <3>3, <3>4, <3>5, <3>6, Steps
  <2> QED
    BY <1>2, <2>1, <2>2, AskedBefore
<1> QED
  BY <1>1, <1>2

-----------------------------------------------------------------------------
(* Sole.                                                                    *)

\* n sends the go-ahead as originator.
Decides(n) ==
  \/ \E s \in Node : ProcessReady(n, s) /\ cloud_boxes[n] \subseteq have_lock'[n]
  \/ \E p \in Parms : StartParmChange(n, p) /\ Cloud(n) = {}

\* The first go-ahead: nothing else is under way.
LEMMA FirstDecides ==
  ASSUME Ideal, OneCloud, TypeOK, OneLock, Undenied, Told, Alive, Undecided, Next,
         NEW n \in Node, Decides(n)
  PROVE  Decided(n)'
<1>1. CASE \E p \in Parms : StartParmChange(n, p) /\ Cloud(n) = {}
  <2>1. PICK p \in Parms : StartParmChange(n, p) /\ Cloud(n) = {}
    BY <1>1
  <2>2. \A m \in Node : m = n
    BY <2>1 DEF Cloud, OneCloud
  <2>3. up' = [up EXCEPT ![n] = FALSE] /\ parms' = [parms EXCEPT ![n] = p]
    BY <2>1 DEF StartParmChange, GoAhead, DoWifiChange, GoMessage
  <2>4. ~up'[n] /\ parms'[n] = p
    BY <2>3 DEF TypeOK
  <2>5. ASSUME NEW c \in Chan, NEW f \in Frames, InFlight(c, f)'
        PROVE  /\ f.type = "parm_change_go_msg" => f.new = p
               /\ f.type # "parm_change_ready_msg"
    <3>1. CASE InFlight(c, f)
      <4>1. f.type # "parm_change_go_msg"
        BY <3>1 DEF Undecided
      <4>2. PICK i \in DOMAIN net[c] : net[c][i] = f
        BY <3>1 DEF InFlight
      <4>3. Holds(c, f)
        BY <4>2 DEF Told
      <4> QED
        BY <2>2, <4>1, <4>3 DEF Holds, Chan
    <3>2. CASE f = Message("parm_change_start_msg", n)
      BY <3>2 DEF Message
    <3>3. CASE f = GoMessage(n, parms[n], p)
      BY <3>3 DEF GoMessage
    <3> QED
      BY <2>1, <2>5, <3>1, <3>2, <3>3, AfterStart
  <2> QED
    BY <2>2, <2>4, <2>5 DEF Decided
<1>2. CASE \E s \in Node : ProcessReady(n, s) /\ cloud_boxes[n] \subseteq have_lock'[n]
  <2>1. PICK s \in Node : ProcessReady(n, s) /\ cloud_boxes[n] \subseteq have_lock'[n]
    BY <1>2
  <2>2. Answered(n)'
    BY <2>1, ReadyTold
  <2>3. cloud_boxes[n] = Cloud(n) /\ granted' = granted /\ UNCHANGED <<cloud_boxes, wish>>
    BY <2>1, <2>2 DEF Answered, Cloud, ProcessReady
  <2>4. ASSUME NEW q \in Node \ {n}
        PROVE  ~Asked(q)
    <3>1. q \in have_lock'[n]
      BY <2>1, <2>3, <2>4 DEF Cloud, OneCloud
    <3>2. n \in granted[q]
      BY <2>2, <2>3, <3>1 DEF Answered
    <3> QED
      BY <2>4, <3>2 DEF Alive, OneLock
  <2>5. up' = [up EXCEPT ![n] = FALSE] /\ parms' = [parms EXCEPT ![n] = wish[n]]
    BY <2>1 DEF ProcessReady, GoAhead, DoWifiChange, GoMessage, TypeOK
  <2>6. ~up'[n] /\ parms'[n] = wish[n]
    BY <2>5 DEF TypeOK
  <2>7. \A m \in Node : ~up'[m] => m = n
    BY <2>5 DEF Undecided, TypeOK
  <2>8. ASSUME NEW c \in Chan, NEW f \in Frames, InFlight(c, f)'
        PROVE  /\ f.type = "parm_change_go_msg" => f.new = wish[n]
               /\ f.type = "parm_change_ready_msg" => c[1] # n
    <3>1. CASE InFlight(c, f)
      <4>1. f.type # "parm_change_go_msg"
        BY <3>1 DEF Undecided
      <4>2. PICK i \in DOMAIN net[c] : net[c][i] = f
        BY <3>1 DEF InFlight
      <4>3. Holds(c, f) /\ c[2] \in Node
        BY <4>2 DEF Told, Chan
      <4>4. f.type = "parm_change_ready_msg" => c[1] # c[2] /\ Asked(c[2])
        BY <3>1, <4>3 DEF Holds, Asked, Asks
      <4> QED
        BY <2>4, <4>1, <4>3, <4>4
    <3>2. CASE f = GoMessage(n, parms[n], wish[n])
      BY <3>2 DEF GoMessage
    <3> QED
      BY <2>1, <2>8, <3>1, <3>2, AfterReady
  <2>9. ASSUME NEW q \in Node \ {n}
        PROVE  ~Asked(q)'
    <3>1. ASSUME NEW c \in Chan, NEW f \in Frames, InFlight(c, f)', Asks(q, c, f)
          PROVE  FALSE
      <4>1. f # GoMessage(n, parms[n], wish[n])
        BY <3>1 DEF Asks, GoMessage
      <4>2. InFlight(c, f)
        BY <2>1, <3>1, <4>1, AfterReady
      <4> QED
        BY <2>4, <2>9, <3>1, <4>2 DEF Asked
    <3> QED
      BY <3>1 DEF Asked, Asks
  <2> QED
    BY <2>6, <2>7, <2>8, <2>9 DEF Decided
<1> QED
  BY <1>1, <1>2 DEF Decides

\* There is no second one.
LEMMA NobodyElseDecides ==
  ASSUME Ideal, OneCloud, TypeOK, Told, NEW o \in Node, Decided(o),
         NEW n \in Node, Decides(n)
  PROVE  FALSE
<1>1. CASE \E p \in Parms : StartParmChange(n, p) /\ Cloud(n) = {}
  BY <1>1 DEF StartParmChange, Cloud, OneCloud, Decided
<1>2. CASE \E s \in Node : ProcessReady(n, s) /\ cloud_boxes[n] \subseteq have_lock'[n]
  <2>1. PICK s \in Node : ProcessReady(n, s) /\ cloud_boxes[n] \subseteq have_lock'[n]
    BY <1>2
  <2>2. PICK m \in Frames : m = Frame(n, s)
    BY <2>1, ReadIsInFlight DEF ProcessReady
  <2>3. /\ InFlight(<<s, n>>, m) /\ m.type = "parm_change_ready_msg"
        /\ <<s, n>> \in Chan /\ up[n]
    BY <2>1, <2>2, ReadIsInFlight DEF ProcessReady
  <2>4. n # o /\ s # o /\ Asked(n)
    BY <2>3 DEF Decided, Asked, Asks
  <2>5. Holds(<<s, n>>, m)
    BY <2>3 DEF Told, InFlight
  <2>6. m.originator = s /\ cloud_boxes[n] = Cloud(n)
    BY <2>3, <2>5 DEF Holds, Answered
  <2>7. o \notin have_lock[n]
    BY <2>4 DEF Decided
  <2>8. have_lock'[n] \subseteq have_lock[n] \cup {s}
    BY <2>1, <2>2, <2>6 DEF ProcessReady, TypeOK
  <2>9. o \in Cloud(n)
    BY <2>4 DEF Cloud, OneCloud
  <2> QED
    BY <2>1, <2>4, <2>6, <2>7, <2>8, <2>9
<1> QED
  BY <1>1, <1>2 DEF Decides

\* Who goes down in a step, and with which parameters; who has whose answer.
LEMMA WhoGoes ==
  ASSUME Ideal, TypeOK, OneLock, Undenied, Told, Next,
         \A n \in Node : ~Decides(n), NEW m \in Node
  PROVE  \/ up'[m] = up[m] /\ parms'[m] = parms[m]
         \/ /\ up[m] /\ ~up'[m]
            /\ \E c \in Chan, f \in Frames :
                 /\ InFlight(c, f) /\ f.type = "parm_change_go_msg"
                 /\ parms'[m] = f.new
<1>1. CASE \E n, s \in Node : Idle(n, s)
  BY <1>1, IdleKeeps
<1>2. CASE \E n \in Node, p \in Parms : StartParmChange(n, p)
  <2>1. PICK n \in Node, p \in Parms : StartParmChange(n, p)
    BY <1>2
  <2>2. Cloud(n) # {}
    BY <2>1 DEF Decides
  <2> QED
    BY <2>1, <2>2 DEF StartParmChange
<1>3. CASE \E n, s \in Node : ProcessReady(n, s)
  <2>1. PICK n \in Node, s \in Node : ProcessReady(n, s)
    BY <1>3
  <2>2. ~(cloud_boxes[n] \subseteq have_lock'[n])
    BY <2>1 DEF Decides
  <2> QED
    BY <2>1, <2>2 DEF ProcessReady, TypeOK
<1>4. CASE \E n, s \in Node : ProcessStart(n, s)
  BY <1>4 DEF ProcessStart
<1>5. CASE \E n, s \in Node : ProcessGo(n, s)
  <2>1. PICK n \in Node, s \in Node : ProcessGo(n, s)
    BY <1>5
  <2>2. PICK f \in Frames : f = Frame(n, s)
    BY <2>1, ReadIsInFlight DEF ProcessGo
  <2>3. /\ InFlight(<<s, n>>, f) /\ f.type = "parm_change_go_msg"
        /\ <<s, n>> \in Chan /\ up[n]
    BY <2>1, <2>2, ReadIsInFlight DEF ProcessGo
  <2>4. \/ UNCHANGED <<up, parms>>
        \/ /\ up' = [up EXCEPT ![n] = FALSE]
           /\ parms' = [parms EXCEPT ![n] = f.new]
    BY <2>1, <2>2 DEF ProcessGo, GoAhead, DoWifiChange
  <2>5. CASE UNCHANGED <<up, parms>>
    BY <2>5
  <2>6. CASE /\ up' = [up EXCEPT ![n] = FALSE]
             /\ parms' = [parms EXCEPT ![n] = f.new]
    <3>1. m # n => up'[m] = up[m] /\ parms'[m] = parms[m]
      BY <2>6 DEF TypeOK
    <3>2. ~up'[n] /\ parms'[n] = f.new
      BY <2>6 DEF TypeOK
    <3> QED
      BY <2>3, <3>1, <3>2
  <2> QED
    BY <2>4, <2>5, <2>6
<1> QED
  BY <1>1, <1>2, <1>3, <1>4, <1>5, Steps

\* What is new in flight after a step that decides nothing.
LEMMA WhatIsSent ==
  ASSUME Ideal, TypeOK, Undenied, Told, Next,
         \A n \in Node : ~Decides(n),
         NEW c \in Chan, NEW f \in Frames, InFlight(c, f)'
  PROVE  \/ InFlight(c, f)
         \/ /\ f.type = "parm_change_go_msg"
            /\ \E d \in Chan : InFlight(d, f)
         \/ f.type = "parm_change_ready_msg" /\ up[c[1]]
         \/ f.type \in {"parm_change_start_msg", "parm_change_not_ready_msg"}
<1>1. CASE \E n, s \in Node : Idle(n, s)
  BY <1>1, AfterIdle
<1>2. CASE \E n \in Node, p \in Parms : StartParmChange(n, p)
  <2>1. PICK n \in Node, p \in Parms : StartParmChange(n, p)
    BY <1>2
  <2>2. Cloud(n) # {}
    BY <2>1 DEF Decides
  <2> QED
    BY <2>1, <2>2, AfterStart DEF Message
<1>3. CASE \E n, s \in Node : ProcessReady(n, s)
  BY <1>3, AfterReady DEF Decides
<1>4. CASE \E n, s \in Node : ProcessStart(n, s)
  <2>1. PICK n \in Node, s \in Node : ProcessStart(n, s)
    BY <1>4
  <2>2. Frame(n, s).type = "parm_change_start_msg" /\ up[n]
    BY <2>1 DEF ProcessStart, Got
  <2> QED
    BY <2>1, <2>2, AfterProposal DEF Message
<1>5. CASE \E n, s \in Node : ProcessGo(n, s)
  <2>1. PICK n \in Node, s \in Node : ProcessGo(n, s)
    BY <1>5
  <2>2. PICK m \in Frames : m = Frame(n, s)
    BY <2>1, ReadIsInFlight DEF ProcessGo
  <2>3. InFlight(<<s, n>>, m) /\ m.type = "parm_change_go_msg" /\ <<s, n>> \in Chan
    BY <2>1, <2>2, ReadIsInFlight DEF ProcessGo
  <2> QED
    BY <2>1, <2>2, <2>3, AfterGo
<1> QED
  BY <1>1, <1>2, <1>3, <1>4, <1>5, Steps

\* Whose answers p has: those it had, or one that has just come, or none.
LEMMA WhoseAnswers ==
  ASSUME Ideal, TypeOK, OneLock, Undenied, Told, Next, NEW p \in Node
  PROVE  \/ have_lock'[p] \subseteq have_lock[p]
         \/ \E s \in Node, f \in Frames :
              /\ InFlight(<<s, p>>, f) /\ f.type = "parm_change_ready_msg"
              /\ have_lock'[p] \subseteq have_lock[p] \cup {s}
<1>1. CASE \E n, s \in Node : Idle(n, s)
  BY <1>1, IdleKeeps
<1>2. CASE \E n \in Node, q \in Parms : StartParmChange(n, q)
  BY <1>2 DEF StartParmChange, NoLocks, TypeOK
<1>3. CASE \E n, s \in Node : ProcessReady(n, s)
  <2>1. PICK n \in Node, s \in Node : ProcessReady(n, s)
    BY <1>3
  <2>2. PICK m \in Frames : m = Frame(n, s)
    BY <2>1, ReadIsInFlight DEF ProcessReady
  <2>3. InFlight(<<s, n>>, m) /\ m.type = "parm_change_ready_msg" /\ <<s, n>> \in Chan
    BY <2>1, <2>2, ReadIsInFlight DEF ProcessReady
  <2>4. m.originator = s
    BY <2>3 DEF Told, InFlight, Holds
  <2>5. CASE p = n
    <3>1. have_lock'[p] \subseteq have_lock[p] \cup {s}
      BY <2>1, <2>2, <2>4, <2>5 DEF ProcessReady, TypeOK
    <3> QED
      BY <2>3, <2>5, <3>1
  <2>6. CASE p # n
    BY <2>1, <2>6 DEF ProcessReady, TypeOK
  <2> QED
    BY <2>5, <2>6
<1>4. CASE \E n, s \in Node : ProcessStart(n, s)
  BY <1>4 DEF ProcessStart, round
<1>5. CASE \E n, s \in Node : ProcessGo(n, s)
  BY <1>5 DEF ProcessGo, round
<1> QED
  BY <1>1, <1>2, <1>3, <1>4, <1>5, Steps

LEMMA StaysUndecided ==
  ASSUME Ideal, TypeOK, OneLock, Undenied, Told, Next, Undecided,
         \A n \in Node : ~Decides(n)
  PROVE  Undecided'
<1>1. ASSUME NEW m \in Node PROVE up'[m]
  BY WhoGoes DEF Undecided
<1>2. ASSUME NEW c \in Chan, NEW f \in Frames, InFlight(c, f)'
      PROVE  f.type # "parm_change_go_msg"
  BY <1>2, WhatIsSent DEF Undecided
<1> QED
  BY <1>1, <1>2 DEF Undecided

LEMMA StaysDecided ==
  ASSUME Ideal, OneCloud, TypeOK, OneLock, Undenied, Told, Next,
         NEW o \in Node, Decided(o), \A n \in Node : ~Decides(n)
  PROVE  Decided(o)'
<1>1. ~up'[o] /\ parms'[o] = parms[o]
  BY WhoGoes DEF Decided
<1>2. ASSUME NEW m \in Node, ~up'[m] PROVE parms'[m] = parms[o]
  BY <1>2, WhoGoes DEF Decided
<1>3. ASSUME NEW c \in Chan, NEW f \in Frames, InFlight(c, f)'
      PROVE  /\ f.type = "parm_change_go_msg" => f.new = parms[o]
             /\ f.type = "parm_change_ready_msg" => c[1] # o
  BY <1>3, WhatIsSent DEF Decided
<1>4. ASSUME NEW p \in Node \ {o}, Asked(p)' PROVE o \notin have_lock'[p]
  <2>1. CASE \E q \in Parms : StartParmChange(p, q)
    BY <2>1 DEF StartParmChange, NoLocks, TypeOK
  <2>2. CASE Asked(p)
    <3>1. o \notin have_lock[p]
      BY <2>2, <1>4 DEF Decided
    <3>2. ASSUME NEW s \in Node, NEW f \in Frames, InFlight(<<s, p>>, f),
                 f.type = "parm_change_ready_msg"
          PROVE  s # o
      <4>1. <<s, p>> \in Chan
        BY DEF Chan
      <4> QED
        BY <3>2, <4>1 DEF Decided
    <3> QED
      BY <3>1, <3>2, WhoseAnswers
  <2> QED
    BY <1>4, <2>1, <2>2, AskedBefore
<1> QED
  BY <1>1, <1>2, <1>3, <1>4 DEF Decided

LEMMA NextSole ==
  Ideal /\ OneCloud /\ TypeOK /\ OneLock /\ Undenied /\ Told /\ Alive /\ Sole
    /\ [Next]_vars => Sole'
<1> SUFFICES ASSUME Ideal, OneCloud, TypeOK, OneLock, Undenied, Told, Alive, Sole,
                    [Next]_vars
             PROVE  Sole'
  OBVIOUS
<1>1. CASE UNCHANGED vars
  <2>1. UNCHANGED <<up, parms, net, have_lock>>
    BY <1>1 DEF vars, round
  <2>2. Undecided => Undecided'
    BY <2>1 DEF Undecided, InFlight
  <2>3. \A o \in Node : Decided(o) => Decided(o)'
    BY <2>1 DEF Decided, InFlight, Asked, Asks
  <2> QED
    BY <2>2, <2>3 DEF Sole
<1>2. CASE Next /\ Undecided
  <2>1. CASE \E n \in Node : Decides(n)
    BY <1>2, <2>1, FirstDecides DEF Sole
  <2>2. CASE \A n \in Node : ~Decides(n)
    BY <1>2, <2>2, StaysUndecided DEF Sole
  <2> QED
    BY <2>1, <2>2
<1>3. CASE Next /\ \E o \in Node : Decided(o)
  BY <1>3, NobodyElseDecides, StaysDecided DEF Sole
<1> QED
  BY <1>1, <1>2, <1>3 DEF Sole

\* When all boxes are one cloud and hear each other, a lock outlives the answer
\* that tells of it and no denial comes late, all boxes that change their
\* parameters change them to the same ones, however many have proposed and
\* whatever frames are lost.
THEOREM AgreementCorrect == Ideal /\ OneCloud => (Spec => []Agreement)
<1> SUFFICES ASSUME Ideal, OneCloud PROVE Spec => []Agreement
  OBVIOUS
<1> DEFINE Inv == TypeOK /\ OneLock /\ Undenied /\ Told /\ Alive /\ Sole
<1>1. Init => Inv
  <2> SUFFICES ASSUME Init PROVE Inv
    OBVIOUS
  <2>1. \A c \in Chan, f \in Frames : ~InFlight(c, f)
    BY DEF Init, InFlight
  <2>2. Alive
    BY <2>1 DEF Alive, Asked
  <2>3. Sole
    BY <2>1 DEF Sole, Undecided, Init
  <2> QED
    BY <2>2, <2>3, InitType, InitOneLock, InitTold DEF Init, Undenied
<1>2. Inv /\ [Next]_vars => Inv'
  BY NextType, NextOneLock, NextUndenied, NextTold, NextAlive, NextSole
<1>3. Inv => Agreement
  <2>1. ASSUME Sole, NEW n \in Node, NEW m \in Node, ~up[n], ~up[m]
        PROVE  parms[n] = parms[m]
    <3>1. PICK o \in Node : Decided(o)
      BY <2>1 DEF Sole, Undecided
    <3> QED
      BY <2>1, <3>1 DEF Decided
  <2> QED
    BY <2>1 DEF Agreement
<1> QED
  BY <1>1, <1>2, <1>3, PTL DEF Spec

=============================================================================
