-------------------------- MODULE CloudMod_proofs --------------------------
(***************************************************************************)
(* Theorems about CloudMod, for every set of boxes, every starting tree    *)
(* and every bound: type correctness, that no box ever has more than one   *)
(* change of the tree under way, and, as long as no answer comes so late   *)
(* that it meets the next attempt, that the locks of arcs are what ArcLock *)
(* promises.                                                               *)
(***************************************************************************)
EXTENDS CloudMod, FiniteSetTheorems, TLAPS

\* What a handler may send: to each box some frames.
Outgoing == [Node -> Seq(Frames)]

-----------------------------------------------------------------------------
(* What the sending operators return.                                      *)

LEMMA MessageType ==
  ASSUME NEW t \in MsgType, NEW d \in Node \cup {None}
  PROVE  Message(t, d) \in Frames
BY DEF Message, Frames

LEMMA BeaconType ==
  ASSUME NEW o \in Node \cup {None}
  PROVE  Beacon(o) \in Frames
BY DEF Beacon, Frames, MsgType

LEMMA SilenceType == Silence \in Outgoing
BY DEF Silence, Outgoing

LEMMA ToType ==
  ASSUME NEW d, NEW ms \in Seq(Frames)
  PROVE  To(d, ms) \in Outgoing
BY DEF To, Outgoing

LEMMA BesideType ==
  ASSUME NEW a \in Outgoing, NEW b \in Outgoing
  PROVE  a ++ b \in Outgoing
<1>1. \A x \in Node : a[x] \o b[x] \in Seq(Frames)
  BY DEF Outgoing
<1> QED
  BY <1>1 DEF ++, Outgoing

LEMMA SendType ==
  ASSUME NEW n, NEW v, NEW m \in Frames
  PROVE  Send(n, v, m) \in Outgoing
<1>1. <<m>> \in Seq(Frames)
  OBVIOUS
<1> QED
  BY <1>1, ToType, SilenceType DEF Send

\* n times the same frame, n the size of a set of boxes.
LEMMA RepeatType ==
  ASSUME NEW S \in SUBSET Node, NEW f \in Frames
  PROVE  [i \in 1 .. Cardinality(S) |-> f] \in Seq(Frames)
<1>1. IsFiniteSet(S)
  BY NodeAssumption, FS_Subset
<1>2. Cardinality(S) \in Nat
  BY <1>1, FS_CardinalityType
<1> QED
  BY <1>2

LEMMA SendBeaconType ==
  ASSUME NEW n, NEW v, NEW S \in SUBSET Node, NEW o \in Node \cup {None}
  PROVE  SendBeacon(n, v, S, o) \in Outgoing
<1>1. ASSUME NEW x \in Node
      PROVE  [i \in 1 .. Cardinality({d \in S : Route(n, v, d) = x})
                |-> Beacon(o)] \in Seq(Frames)
  <2>1. {d \in S : Route(n, v, d) = x} \in SUBSET Node
    OBVIOUS
  <2> QED
    BY <2>1, RepeatType, BeaconType
<1> QED
  BY <1>1 DEF SendBeacon, Outgoing

LEMMA RelayedType ==
  ASSUME NEW n, NEW v, NEW new, NEW ord \in Relayed(n, v, new)
  PROVE  ord \in Seq(Node)
<1> DEFINE S == {o \in Node : v[o] \notin {None, new}}
<1>1. IsFiniteSet(S)
  BY NodeAssumption, FS_Subset
<1>2. Cardinality(S) \in Nat
  BY <1>1, FS_CardinalityType
<1>3. ord \in [1 .. Cardinality(S) -> S]
  BY DEF Relayed, SetToSeqs
<1>4. ord \in [1 .. Cardinality(S) -> Node]
  BY <1>3
<1> HIDE DEF S
<1> QED
  BY <1>2, <1>4

LEMMA SendStpBeaconsType ==
  ASSUME NEW n \in Node, NEW new, NEW ord \in Seq(Node)
  PROVE  SendStpBeacons(n, new, ord) \in Outgoing
<1>1. [i \in DOMAIN ord |-> Beacon(ord[i])] \in Seq(Frames)
  <2>1. \A i \in DOMAIN ord : Beacon(ord[i]) \in Frames
    BY BeaconType
  <2> QED
    BY <2>1
<1>2. <<Beacon(n)>> \in Seq(Frames)
  BY BeaconType
<1>3. <<Beacon(n)>> \o [i \in DOMAIN ord |-> Beacon(ord[i])] \in Seq(Frames)
  BY <1>1, <1>2
<1> QED
  BY <1>3, ToType DEF SendStpBeacons

LEMMA SendLockReleasesType ==
  ASSUME NEW n
  PROVE  SendLockReleases(n) \in Outgoing
<1>1. ASSUME NEW x \in Node
      PROVE  [i \in 1 .. Cardinality({e \in owned[n] :
                                        /\ Route(n, via[n], e.node) = x
                                        /\ "local_lock_release_msg" \in Sendable})
                |-> Message("local_lock_release_msg", x)] \in Seq(Frames)
  <2> DEFINE R == {e \in owned[n] : /\ Route(n, via[n], e.node) = x
                                    /\ "local_lock_release_msg" \in Sendable}
  <2>1. R \in SUBSET Node
    BY DEF Sendable
  <2>2. Message("local_lock_release_msg", x) \in Frames
    BY MessageType DEF MsgType
  <2> HIDE DEF R
  <2>3. [i \in 1 .. Cardinality(R) |-> Message("local_lock_release_msg", x)]
          \in Seq(Frames)
    BY <2>1, <2>2, RepeatType
  <2> QED
    BY <2>3 DEF R
<1> QED
  BY <1>1 DEF SendLockReleases, Outgoing

-----------------------------------------------------------------------------
(* What the steps do to net.                                               *)

LEMMA EmitType ==
  ASSUME net \in [Chan -> Seq(Frames)], NEW n \in Node, NEW out \in Outgoing,
         Emit(n, out)
  PROVE  net' \in [Chan -> Seq(Frames)]
<1>1. ASSUME NEW c \in Chan
      PROVE  (IF c[1] = n THEN net[c] \o out[c[2]] ELSE net[c]) \in Seq(Frames)
  BY DEF Chan, Outgoing
<1> QED
  BY <1>1 DEF Emit

LEMMA AnswerType ==
  ASSUME net \in [Chan -> Seq(Frames)], NEW n \in Node, NEW s \in Node,
         net[<<s, n>>] # <<>>, NEW out \in Outgoing, Answer(n, s, out)
  PROVE  net' \in [Chan -> Seq(Frames)]
<1>1. ASSUME NEW c \in Chan
      PROVE  (IF c = <<s, n>> THEN Tail(net[c])
              ELSE IF c[1] = n THEN net[c] \o out[c[2]] ELSE net[c])
               \in Seq(Frames)
  <2>1. CASE c = <<s, n>>
    BY <2>1 DEF Chan
  <2>2. CASE c # <<s, n>>
    BY <2>2 DEF Chan, Outgoing
  <2> QED
    BY <2>1, <2>2
<1> QED
  BY <1>1 DEF Answer

-----------------------------------------------------------------------------
(* Parts of TypeOK the steps have in common.                               *)

TreeTyped ==
  /\ stp \in [Node -> SUBSET Node]
  /\ unroutable \in [Node -> [Node -> Nat]]
  /\ \A n \in Node : n \notin stp[n]

LEMMA LinksAfterBeaconType ==
  ASSUME TreeTyped, NEW n \in Node, NEW v, NEW S \in SUBSET (Node \ {n}),
         NEW sent, NEW fresh, LinksAfterBeacon(n, v, S, sent, fresh)
  PROVE  TreeTyped'
<1>1. stp' \in [Node -> SUBSET Node] /\ \A x \in Node : x \notin stp'[x]
  BY DEF TreeTyped, LinksAfterBeacon
<1>2. unroutable' \in [Node -> [Node -> Nat]]
  <2>1. [d \in Node |-> IF d = fresh \/ d \in Dead(n, v, sent) THEN 0
                        ELSE IF d \in Lost(n, v, sent) THEN unroutable[n][d] + 1
                        ELSE unroutable[n][d]] \in [Node -> Nat]
    BY DEF TreeTyped
  <2> QED
    BY <2>1 DEF TreeTyped, LinksAfterBeacon
<1> QED
  BY <1>1, <1>2 DEF TreeTyped

LEMMA DropLinkType ==
  ASSUME TreeTyped, NEW n \in Node, NEW s \in Node, DropLink(n, s)
  PROVE  TreeTyped'
BY DEF TreeTyped, DropLink

ViaTyped ==
  /\ via \in [Node -> [Node -> Node \cup {None}]]
  /\ \A n \in Node : via[n][n] = None

LEMMA TimeoutStpRecvBeaconsType ==
  ASSUME ViaTyped, NEW n \in Node, NEW kept \in SUBSET Node
  PROVE  /\ TimeoutStpRecvBeacons(n, kept) \in [Node -> Node \cup {None}]
         /\ TimeoutStpRecvBeacons(n, kept)[n] = None
BY DEF ViaTyped, TimeoutStpRecvBeacons

LEMMA SpendType ==
  ASSUME spent \in [Kind -> Nat], NEW kinds, Spend(kinds)
  PROVE  spent' \in [Kind -> Nat]
BY DEF Spend

LocksTyped ==
  /\ pending \in [Node -> SUBSET Entries]
  /\ granted \in [Node -> SUBSET Node]
  /\ owned \in [Node -> SUBSET [type : ReqType, node : Node]]

NbrTyped ==
  /\ nbr \in [Node -> SUBSET Node]
  /\ \A n \in Node : n \notin nbr[n]

\* TypeOK by groups of variables.
LEMMA TypeOKParts ==
  TypeOK <=> /\ NbrTyped /\ TreeTyped /\ ViaTyped /\ LocksTyped
             /\ net \in [Chan -> Seq(Frames)]
             /\ spent \in [Kind -> Nat]
BY DEF TypeOK, NbrTyped, TreeTyped, ViaTyped, LocksTyped

LEMMA TypeOKPartsNext ==
  ASSUME NbrTyped', TreeTyped', ViaTyped', LocksTyped',
         net' \in [Chan -> Seq(Frames)], spent' \in [Kind -> Nat]
  PROVE  TypeOK'
BY DEF TypeOK, NbrTyped, TreeTyped, ViaTyped, LocksTyped

\* A frame n may take is a frame.
LEMMA GotType ==
  ASSUME net \in [Chan -> Seq(Frames)], NEW n \in Node, NEW s \in Node,
         NEW types, Got(n, s, types)
  PROVE  Frame(n, s) \in Frames /\ net[<<s, n>>] # <<>>
<1>1. net[<<s, n>>] \in Seq(Frames)
  BY DEF Chan
<1> QED
  BY <1>1 DEF Got, Frame

\* A round of maintenance keeps the types, whatever it starts.
LEMMA RoundType ==
  ASSUME TypeOK, NEW n \in Node, NEW p \in SUBSET pending[n],
         NEW g \in SUBSET granted[n], NEW o \in SUBSET owned[n],
         NEW v \in [Node -> Node \cup {None}], v[n] = None,
         NEW ask \in SUBSET Entries, NEW ahead \in Outgoing,
         NEW behind \in Outgoing, NEW kinds,
         Round(n, p, g, o, v, ask, ahead, behind, kinds)
  PROVE  TypeOK'
<1>1. NbrTyped /\ TreeTyped /\ ViaTyped /\ LocksTyped
      /\ net \in [Chan -> Seq(Frames)] /\ spent \in [Kind -> Nat]
  BY TypeOKParts
<1>2. PICK skip \in PassedOver(n, v, stp[n]) :
        /\ LinksAfterBeacon(n, v, stp[n], stp[n] \ skip, None)
        /\ Emit(n, ahead ++ SendBeacon(n, v, stp[n] \ skip, n) ++ behind)
  BY DEF Round
<1>3. stp[n] \in SUBSET (Node \ {n}) /\ stp[n] \ skip \in SUBSET Node
  BY <1>1 DEF TreeTyped
<1>4. TreeTyped'
  BY <1>1, <1>2, <1>3, LinksAfterBeaconType
<1>5. ahead ++ SendBeacon(n, v, stp[n] \ skip, n) ++ behind \in Outgoing
  <2>1. SendBeacon(n, v, stp[n] \ skip, n) \in Outgoing
    BY <1>3, SendBeaconType
  <2>2. ahead ++ SendBeacon(n, v, stp[n] \ skip, n) \in Outgoing
    BY <2>1, BesideType
  <2> QED
    BY <2>2, BesideType
<1>6. net' \in [Chan -> Seq(Frames)]
  BY <1>1, <1>2, <1>5, EmitType
<1>7. spent' \in [Kind -> Nat]
  BY <1>1, SpendType DEF Round
<1>8. ViaTyped'
  BY <1>1 DEF Round, ViaTyped
<1>9. LocksTyped'
  BY <1>1 DEF Round, LocksTyped
<1>10. NbrTyped'
  BY <1>1 DEF Round, NbrTyped
<1> QED
  BY <1>4, <1>6, <1>7, <1>8, <1>9, <1>10, TypeOKPartsNext

-----------------------------------------------------------------------------
(* TypeOK.                                                                 *)

LEMMA InitType == Init => TypeOK
<1> SUFFICES ASSUME Init PROVE TypeOK
  OBVIOUS
<1> USE InitAssumption DEF Init
<1>1. NbrTyped
  BY DEF NbrTyped
<1>2. TreeTyped
  BY DEF TreeTyped
<1>3. ViaTyped
  BY DEF ViaTyped
<1>4. LocksTyped
  BY DEF LocksTyped
<1>5. net \in [Chan -> Seq(Frames)]
  OBVIOUS
<1>6. spent \in [Kind -> Nat]
  OBVIOUS
<1> QED
  BY <1>1, <1>2, <1>3, <1>4, <1>5, <1>6, TypeOKParts

LEMMA MaintType ==
  ASSUME TypeOK, NEW n \in Node, PostRepeatedCloudMaint(n)
  PROVE  TypeOK'
<1>1. ViaTyped
  BY TypeOKParts
<1>2. Heard(n) \subseteq Node
  BY DEF Heard
<1>3. CASE MaintQuiet(n)
  <2>1. PICK p \in SUBSET pending[n], g \in SUBSET granted[n],
             o \in SUBSET owned[n], kept \in SUBSET Heard(n) :
               Round(n, p, g, o, TimeoutStpRecvBeacons(n, kept), {},
                     Silence, Silence, {})
    BY <1>3 DEF MaintQuiet
  <2>2. kept \in SUBSET Node
    BY <1>2
  <2> QED
    BY <1>1, <2>1, <2>2, TimeoutStpRecvBeaconsType, SilenceType, RoundType
<1>4. CASE MaintConnect(n)
  <2>1. PICK p \in SUBSET pending[n], g \in SUBSET granted[n],
             o \in SUBSET owned[n], kept \in SUBSET Heard(n),
             new \in nbr[n] \ stp[n] :
               Round(n, p, g, o, TimeoutStpRecvBeacons(n, kept),
                     {Entry("local_stp_add_request_msg", new)},
                     Send(n, TimeoutStpRecvBeacons(n, kept),
                          Message("local_stp_add_request_msg", new)),
                     Silence, {"connect"})
    BY <1>4, ZenonT(60) DEF MaintConnect
  <2>2. kept \in SUBSET Node /\ new \in Node
    BY <1>2 DEF TypeOK
  <2>3. {Entry("local_stp_add_request_msg", new)} \in SUBSET Entries
    BY <2>2 DEF Entry, Entries, PendType
  <2>4. Message("local_stp_add_request_msg", new) \in Frames
    BY <2>2, MessageType DEF MsgType, PendType
  <2>5. Send(n, TimeoutStpRecvBeacons(n, kept),
             Message("local_stp_add_request_msg", new)) \in Outgoing
    BY <2>4, SendType
  <2> QED
    BY <1>1, <2>1, <2>2, <2>3, <2>5, TimeoutStpRecvBeaconsType, SilenceType,
       RoundType
<1>5. CASE MaintImprove(n)
  <2>1. PICK p \in SUBSET pending[n], g \in SUBSET granted[n],
             o \in SUBSET owned[n], kept \in SUBSET Heard(n), new \in nbr[n] :
          LET v   == TimeoutStpRecvBeacons(n, kept)
              old == v[new]
          IN  /\ TimeoutLockables(n, p, g, o)
              /\ ~Doing(p, g, o)
              /\ Timely => ~Outstanding(n)
              /\ old \in stp[n] \cap nbr[n]
              /\ Round(n, p, g, o, v,
                       {Entry("local_lock_req_old_msg", old),
                        Entry("local_lock_req_new_msg", new)}, Silence,
                       Send(n, v, Message("local_lock_req_old_msg", old)) ++
                       Send(n, v, Message("local_lock_req_new_msg", new)),
                       {"improve"})
    BY <1>5, ZenonT(60) DEF MaintImprove
  <2> DEFINE v    == TimeoutStpRecvBeacons(n, kept)
             old  == v[new]
             ask  == {Entry("local_lock_req_old_msg", old),
                      Entry("local_lock_req_new_msg", new)}
             reqs == Send(n, v, Message("local_lock_req_old_msg", old)) ++
                     Send(n, v, Message("local_lock_req_new_msg", new))
  <2>2. kept \in SUBSET Node /\ new \in Node /\ old \in Node
    BY <1>2, <2>1 DEF TypeOK
  <2>3. ask \in SUBSET Entries
    BY <2>2 DEF Entry, Entries, PendType, ReqType
  <2>4. /\ Message("local_lock_req_old_msg", old) \in Frames
        /\ Message("local_lock_req_new_msg", new) \in Frames
    BY <2>2, MessageType DEF MsgType, PendType, ReqType
  <2>5. reqs \in Outgoing
    BY <2>4, SendType, BesideType
  <2>6. v \in [Node -> Node \cup {None}] /\ v[n] = None
    BY <1>1, <2>2, TimeoutStpRecvBeaconsType
  <2>7. Round(n, p, g, o, v, ask, Silence, reqs, {"improve"})
    BY <2>1
  <2> HIDE DEF v, ask, reqs
  <2> QED
    BY <2>3, <2>5, <2>6, <2>7, SilenceType, RoundType
<1> QED
  BY <1>3, <1>4, <1>5 DEF PostRepeatedCloudMaint

\* What is left to show of a handler: the out it sends, and the variables it
\* changes besides net.
LEMMA HandlerType ==
  ASSUME TypeOK, NEW n \in Node, NEW s \in Node, net[<<s, n>>] # <<>>,
         NEW out \in Outgoing, Answer(n, s, out),
         TreeTyped', ViaTyped', LocksTyped', nbr' = nbr, spent' = spent
  PROVE  TypeOK'
<1>1. net' \in [Chan -> Seq(Frames)]
  BY AnswerType, TypeOKParts
<1>2. NbrTyped'
  BY TypeOKParts DEF NbrTyped
<1>3. spent' \in [Kind -> Nat]
  BY TypeOKParts
<1> QED
  BY <1>1, <1>2, <1>3, TypeOKPartsNext

\* The parts of TypeOK whose variables a step leaves alone.
LEMMA SameParts ==
  /\ TypeOK /\ UNCHANGED <<stp, unroutable>> => TreeTyped'
  /\ TypeOK /\ UNCHANGED via => ViaTyped'
  /\ TypeOK /\ UNCHANGED locks => LocksTyped'
BY DEF TypeOK, TreeTyped, ViaTyped, LocksTyped, locks

\* Every answer n may give s.
LEMMA ReplyType ==
  ASSUME NEW n, NEW v, NEW s \in Node, NEW t \in MsgType
  PROVE  Send(n, v, Message(t, s)) \in Outgoing
BY MessageType, SendType

LEMMA DisownType ==
  ASSUME NEW n, NEW s \in Node
  PROVE  Disown(n, s) \in Outgoing
BY ReplyType DEF Disown, MsgType

LEMMA ClearStpUpdateStateType ==
  ASSUME TypeOK, NEW n \in Node, ClearStpUpdateState(n)
  PROVE  LocksTyped'
BY DEF TypeOK, LocksTyped, ClearStpUpdateState

LEMMA ReceiveFromStrangerType ==
  ASSUME TypeOK, NEW n \in Node, NEW s \in Node, ReceiveFromStranger(n, s)
  PROVE  TypeOK'
BY HandlerType, SameParts, SilenceType
   DEF ReceiveFromStranger, Got, tree, locks

LEMMA ProcessLocalLockReqType ==
  ASSUME TypeOK, NEW n \in Node, NEW s \in Node, ProcessLocalLockReq(n, s)
  PROVE  TypeOK'
<1>1. TreeTyped' /\ ViaTyped' /\ nbr' = nbr /\ spent' = spent
  BY SameParts DEF ProcessLocalLockReq, tree
<1>2. LocksTyped'
  <2>1. /\ granted' = granted \/ granted' = [granted EXCEPT ![n] = @ \cup {s}]
        /\ UNCHANGED <<pending, owned>>
    BY DEF ProcessLocalLockReq
  <2>2. CASE granted' = granted
    BY <2>1, <2>2 DEF TypeOK, LocksTyped
  <2>3. CASE granted' = [granted EXCEPT ![n] = @ \cup {s}]
    BY <2>1, <2>3 DEF TypeOK, LocksTyped
  <2> QED
    BY <2>1, <2>2, <2>3
<1>3. net[<<s, n>>] # <<>>
  BY DEF ProcessLocalLockReq, Got
<1>4. /\ Send(n, via[n], Message("local_lock_deny_msg", s)) \in Outgoing
      /\ Send(n, via[n], Message("local_lock_grant_msg", s)) \in Outgoing
  BY ReplyType DEF MsgType
<1> QED
  BY <1>1, <1>2, <1>3, <1>4, HandlerType DEF ProcessLocalLockReq

LEMMA GrantTooLateType ==
  ASSUME TypeOK, NEW n \in Node, NEW s \in Node, GrantTooLate(n, s)
  PROVE  TypeOK'
<1>1. Send(n, via[n], Message("local_lock_release_msg", s)) \in Outgoing
  BY ReplyType DEF MsgType
<1> QED
  BY <1>1, HandlerType, SameParts DEF GrantTooLate, Got, tree, locks

LEMMA ProcessLocalLockGrantType ==
  ASSUME TypeOK, NEW n \in Node, NEW s \in Node, ProcessLocalLockGrant(n, s)
  PROVE  TypeOK'
<1>1. PICK e \in {x \in pending[n] : x.node = s /\ x.type \in ReqType} :
        LET others == {x \in owned[n] : x.type \in ReqType \ {e.type}}
        IN  /\ Got(n, s, {"local_lock_grant_msg"})
            /\ owned' = [owned EXCEPT ![n] = @ \cup {e}]
            /\ \/ /\ pending' = [pending EXCEPT ![n] = @ \ {e}]
                  /\ Answer(n, s, Silence)
                  /\ UNCHANGED <<stp, unroutable>>
               \/ \E x \in others :
                    \/ Swap(n, s, e, x.node, s)
                    \/ Swap(n, s, e, s, x.node)
            /\ UNCHANGED <<nbr, via, granted, spent>>
  BY DEF ProcessLocalLockGrant
<1>2. owned' \in [Node -> SUBSET [type : ReqType, node : Node]]
  <2>1. e \in [type : ReqType, node : Node]
    BY DEF TypeOK, Entries
  <2> QED
    BY <1>1, <2>1 DEF TypeOK
<1>3. ViaTyped' /\ net[<<s, n>>] # <<>>
  BY <1>1, SameParts DEF Got
<1>4. CASE /\ pending' = [pending EXCEPT ![n] = @ \ {e}]
           /\ Answer(n, s, Silence)
           /\ UNCHANGED <<stp, unroutable>>
  <2>1. LocksTyped'
    BY <1>1, <1>2, <1>4 DEF TypeOK, LocksTyped
  <2> QED
    BY <1>1, <1>3, <1>4, <2>1, SilenceType, SameParts, HandlerType
<1>5. ASSUME NEW old \in Node, NEW new \in Node, Swap(n, s, e, old, new)
      PROVE  TypeOK'
  <2> DEFINE asked == {Entry("local_stp_add_changed_request_msg", new),
                       Entry("local_stp_delete_request_msg", old)}
             reqs  == Send(n, via[n], Message("local_stp_add_changed_request_msg", new)) ++
                      Send(n, via[n], Message("local_stp_delete_request_msg", old))
  <2>1. asked \in SUBSET Entries
    BY DEF Entry, Entries, PendType
  <2>2. Routable(n, asked) \in SUBSET Entries
    BY <2>1 DEF Routable
  <2>3. LocksTyped'
    BY <1>1, <1>2, <1>5, <2>2 DEF TypeOK, LocksTyped, Swap
  <2>4. TreeTyped'
    BY <1>5, TypeOKParts, DropLinkType DEF Swap
  <2>5. reqs \in Outgoing
    BY ReplyType, BesideType DEF MsgType, PendType
  <2>6. Answer(n, s, reqs)
    BY <1>5 DEF Swap
  <2> HIDE DEF asked, reqs
  <2> QED
    BY <1>1, <1>3, <2>3, <2>4, <2>5, <2>6, HandlerType
<1>6. \A x \in owned[n] : x.node \in Node
  BY DEF TypeOK
<1> QED
  BY <1>1, <1>4, <1>5, <1>6

LEMMA ProcessLocalLockDenyType ==
  ASSUME TypeOK, NEW n \in Node, NEW s \in Node, ProcessLocalLockDeny(n, s)
  PROVE  TypeOK'
BY ClearStpUpdateStateType, SendLockReleasesType, SameParts, HandlerType
   DEF ProcessLocalLockDeny, Got, tree

LEMMA ProcessLocalStpRefusedType ==
  ASSUME TypeOK, NEW n \in Node, NEW s \in Node, ProcessLocalStpRefused(n, s)
  PROVE  TypeOK'
BY ClearStpUpdateStateType, SendLockReleasesType, SameParts, HandlerType
   DEF ProcessLocalStpRefused, Got, tree

LEMMA ProcessLocalStpAddRequestType ==
  ASSUME TypeOK, NEW n \in Node, NEW s \in Node, ProcessLocalStpAddRequest(n, s)
  PROVE  TypeOK'
<1> DEFINE invited == Frame(n, s).type = "local_stp_add_request_msg"
           p       == {e \in pending[n] :
                         ~(invited /\ e.type = "local_stp_add_request_msg")}
           g       == granted[n] \ {s}
           links   == stp[n] \cup {s}
           answer  == IF invited THEN "local_stp_added_msg"
                                 ELSE "local_stp_added_changed_msg"
           reply   == Send(n, via[n], Message(answer, s))
<1>1. /\ net[<<s, n>>] # <<>> /\ s \in nbr[n]
      /\ pending' = [pending EXCEPT ![n] = p]
      /\ granted' = [granted EXCEPT ![n] = g]
      /\ UNCHANGED <<nbr, via, owned, spent>>
  BY DEF ProcessLocalStpAddRequest, Got
<1>2. LocksTyped'
  BY <1>1 DEF TypeOK, LocksTyped
<1>3. ViaTyped' /\ nbr' = nbr /\ spent' = spent
  BY <1>1, SameParts
<1>4. links \in SUBSET (Node \ {n}) /\ TreeTyped
  BY <1>1, TypeOKParts DEF NbrTyped, TreeTyped
<1>5. /\ reply \in Outgoing
      /\ Send(n, via[n], Message("local_stp_refused_msg", s)) \in Outgoing
  BY ReplyType DEF MsgType
<1>6. CASE /\ Answer(n, s, Send(n, via[n], Message("local_stp_refused_msg", s)))
           /\ UNCHANGED <<stp, unroutable>>
  BY <1>1, <1>2, <1>3, <1>5, <1>6, SameParts, HandlerType
<1>7. CASE /\ stp' = [stp EXCEPT ![n] = links]
           /\ unroutable' = [unroutable EXCEPT ![n][s] = 0]
           /\ Answer(n, s, reply)
  <2>1. TreeTyped'
    BY <1>4, <1>7 DEF TreeTyped
  <2> QED
    BY <1>1, <1>2, <1>3, <1>5, <1>7, <2>1, HandlerType
<1>8. ASSUME NEW skip \in PassedOver(n, via[n], links),
             NEW ord \in Relayed(n, via[n], s),
             LinksAfterBeacon(n, via[n], links, links \ skip, s),
             Answer(n, s, reply ++ SendBeacon(n, via[n], links \ skip, n)
                                ++ SendStpBeacons(n, s, ord))
      PROVE  TypeOK'
  <2>1. TreeTyped'
    BY <1>4, <1>8, LinksAfterBeaconType
  <2>2. SendBeacon(n, via[n], links \ skip, n) \in Outgoing
    BY <1>4, SendBeaconType
  <2>3. SendStpBeacons(n, s, ord) \in Outgoing
    BY RelayedType, SendStpBeaconsType
  <2>4. reply ++ SendBeacon(n, via[n], links \ skip, n) \in Outgoing
    BY <1>5, <2>2, BesideType
  <2>5. reply ++ SendBeacon(n, via[n], links \ skip, n)
              ++ SendStpBeacons(n, s, ord) \in Outgoing
    BY <2>3, <2>4, BesideType
  <2> QED
    BY <1>1, <1>2, <1>3, <1>8, <2>1, <2>5, HandlerType
<1> QED
  BY <1>6, <1>7, <1>8 DEF ProcessLocalStpAddRequest

LEMMA ProcessLocalStpAddedType ==
  ASSUME TypeOK, NEW n \in Node, NEW s \in Node, ProcessLocalStpAdded(n, s)
  PROVE  TypeOK'
<1> DEFINE links == stp[n] \cup {s}
<1>1. /\ net[<<s, n>>] # <<>> /\ s \in nbr[n]
      /\ UNCHANGED <<nbr, via, granted, owned, spent>>
  BY DEF ProcessLocalStpAdded, Got
<1>2. ViaTyped' /\ nbr' = nbr /\ spent' = spent
  BY <1>1, SameParts
<1>3. links \in SUBSET (Node \ {n}) /\ TreeTyped
  BY <1>1, TypeOKParts DEF NbrTyped, TreeTyped
<1>4. CASE Answer(n, s, Disown(n, s)) /\ UNCHANGED <<stp, unroutable, pending>>
  BY <1>1, <1>2, <1>4, DisownType, SameParts, HandlerType DEF locks
<1>5. ASSUME pending' = [pending EXCEPT
                           ![n] = @ \ {Entry("local_stp_add_request_msg", s)}],
             NEW skip \in PassedOver(n, via[n], links),
             NEW ord \in Relayed(n, via[n], s),
             LinksAfterBeacon(n, via[n], links, links \ skip, s),
             Answer(n, s, SendBeacon(n, via[n], links \ skip, n)
                            ++ SendStpBeacons(n, s, ord))
      PROVE  TypeOK'
  <2>1. TreeTyped'
    BY <1>3, <1>5, LinksAfterBeaconType
  <2>2. LocksTyped'
    BY <1>1, <1>5 DEF TypeOK, LocksTyped
  <2>3. SendBeacon(n, via[n], links \ skip, n) \in Outgoing
    BY <1>3, SendBeaconType
  <2>4. SendStpBeacons(n, s, ord) \in Outgoing
    BY RelayedType, SendStpBeaconsType
  <2>5. SendBeacon(n, via[n], links \ skip, n) ++ SendStpBeacons(n, s, ord)
          \in Outgoing
    BY <2>3, <2>4, BesideType
  <2> QED
    BY <1>1, <1>2, <1>5, <2>1, <2>2, <2>5, HandlerType
<1> QED
  BY <1>4, <1>5 DEF ProcessLocalStpAdded

LEMMA ProcessLocalStpDeleteRequestType ==
  ASSUME TypeOK, NEW n \in Node, NEW s \in Node,
         ProcessLocalStpDeleteRequest(n, s)
  PROVE  TypeOK'
<1>1. /\ net[<<s, n>>] # <<>>
      /\ granted' = [granted EXCEPT ![n] = granted[n] \ {s}]
      /\ UNCHANGED <<nbr, via, pending, owned, spent>>
  BY DEF ProcessLocalStpDeleteRequest, Got
<1>2. LocksTyped'
  BY <1>1 DEF TypeOK, LocksTyped
<1>3. ViaTyped' /\ nbr' = nbr /\ spent' = spent
  BY <1>1, SameParts
<1>4. TreeTyped'
  BY TypeOKParts, SameParts, DropLinkType DEF ProcessLocalStpDeleteRequest
<1>5. /\ Send(n, via[n], Message("local_stp_refused_msg", s)) \in Outgoing
      /\ Send(n, via[n], Message("local_stp_deleted_msg", s)) \in Outgoing
  BY ReplyType DEF MsgType
<1> QED
  BY <1>1, <1>2, <1>3, <1>4, <1>5, HandlerType DEF ProcessLocalStpDeleteRequest

LEMMA ProcessLocalStpDeletedType ==
  ASSUME TypeOK, NEW n \in Node, NEW s \in Node, ProcessLocalStpDeleted(n, s)
  PROVE  TypeOK'
<1>1. /\ net[<<s, n>>] # <<>>
      /\ pending' = [pending EXCEPT ![n] = {e \in @ : e.node # s}]
      /\ Answer(n, s, Silence)
      /\ UNCHANGED <<nbr, tree, granted, owned, spent>>
  BY DEF ProcessLocalStpDeleted, Got
<1>2. LocksTyped'
  BY <1>1 DEF TypeOK, LocksTyped
<1> QED
  BY <1>1, <1>2, SilenceType, SameParts, HandlerType DEF tree

LEMMA ProcessLocalStpAddedChangedType ==
  ASSUME TypeOK, NEW n \in Node, NEW s \in Node,
         ProcessLocalStpAddedChanged(n, s)
  PROVE  TypeOK'
<1> DEFINE p     == pending[n] \ {Entry("local_stp_add_changed_request_msg", s)}
           new   == Entry("local_lock_req_new_msg", s)
           links == stp[n] \cup {s}
<1>1. PICK old \in owned[n] :
        LET v == FixRecvBeaconNbr(n, old.node, s)
        IN  /\ pending' = [pending EXCEPT ![n] = p]
            /\ owned' = [owned EXCEPT ![n] = @ \ {old, new}]
            /\ via' = [via EXCEPT ![n] = v]
            /\ \E skip \in PassedOver(n, v, links),
                  ord \in Relayed(n, v, s) :
                 /\ LinksAfterBeacon(n, v, links, links \ skip, s)
                 /\ Answer(n, s, SendBeacon(n, v, links \ skip, n)
                                   ++ SendStpBeacons(n, s, ord))
  BY DEF ProcessLocalStpAddedChanged
<1> DEFINE v == FixRecvBeaconNbr(n, old.node, s)
<1>2. /\ net[<<s, n>>] # <<>> /\ s \in nbr[n]
      /\ UNCHANGED <<nbr, granted, spent>>
  BY DEF ProcessLocalStpAddedChanged, Got
<1>3. LocksTyped'
  BY <1>1, <1>2 DEF TypeOK, LocksTyped
<1>4. v \in [Node -> Node \cup {None}] /\ v[n] = None
  <2>1. old.node \in Node
    BY DEF TypeOK
  <2>2. old.node # None
    BY <2>1, NoneAssumption
  <2> QED
    BY <2>2 DEF TypeOK, FixRecvBeaconNbr
<1>5. via' = [via EXCEPT ![n] = v]
  BY <1>1
<1>6. PICK skip \in PassedOver(n, v, links), ord \in Relayed(n, v, s) :
        /\ LinksAfterBeacon(n, v, links, links \ skip, s)
        /\ Answer(n, s, SendBeacon(n, v, links \ skip, n)
                          ++ SendStpBeacons(n, s, ord))
  BY <1>1
<1> HIDE DEF v
<1>7. ViaTyped'
  BY <1>4, <1>5 DEF TypeOK, ViaTyped
<1>8. links \in SUBSET (Node \ {n}) /\ TreeTyped
  BY <1>2, TypeOKParts DEF NbrTyped, TreeTyped
<1>9. TreeTyped'
  BY <1>6, <1>8, LinksAfterBeaconType
<1>10. SendBeacon(n, v, links \ skip, n) \in Outgoing
  BY <1>8, SendBeaconType
<1>11. SendStpBeacons(n, s, ord) \in Outgoing
  BY RelayedType, SendStpBeaconsType
<1>12. SendBeacon(n, v, links \ skip, n) ++ SendStpBeacons(n, s, ord)
         \in Outgoing
  BY <1>10, <1>11, BesideType
<1> QED
  BY <1>2, <1>3, <1>6, <1>7, <1>9, <1>12, HandlerType

LEMMA AddedChangedTooLateType ==
  ASSUME TypeOK, NEW n \in Node, NEW s \in Node, AddedChangedTooLate(n, s)
  PROVE  TypeOK'
<1>1. /\ net[<<s, n>>] # <<>>
      /\ ClearStpUpdateState(n)
      /\ via' = [via EXCEPT ![n] = [o \in Node |->
                   IF via[n][o] \in stp[n] THEN via[n][o] ELSE None]]
      /\ UNCHANGED <<nbr, stp, unroutable, spent>>
  BY DEF AddedChangedTooLate, ToNominalState, Got
<1>2. LocksTyped'
  BY <1>1, ClearStpUpdateStateType
<1>3. ViaTyped'
  BY <1>1 DEF TypeOK, ViaTyped
<1> QED
  BY <1>1, <1>2, <1>3, DisownType, SilenceType, SameParts, HandlerType
     DEF AddedChangedTooLate

LEMMA ProcessStpArcDeleteType ==
  ASSUME TypeOK, NEW n \in Node, NEW s \in Node, ProcessStpArcDelete(n, s)
  PROVE  TypeOK'
BY TypeOKParts, DropLinkType, SilenceType, SameParts, HandlerType
   DEF ProcessStpArcDelete, ClearState, Got

LEMMA ProcessStpBeaconNakType ==
  ASSUME TypeOK, NEW n \in Node, NEW s \in Node, ProcessStpBeaconNak(n, s)
  PROVE  TypeOK'
BY TypeOKParts, DropLinkType, SilenceType, SameParts, HandlerType
   DEF ProcessStpBeaconNak, Got

\* The one handler with something to prove: n does not store its own beacon.
LEMMA ProcessStpBeaconType ==
  ASSUME TypeOK, NEW n \in Node, NEW s \in Node, ProcessStpBeacon(n, s)
  PROVE  TypeOK'
<1> DEFINE orig == Frame(n, s).orig
<1>1. net[<<s, n>>] # <<>> /\ UNCHANGED <<nbr, locks, spent>>
  BY DEF ProcessStpBeacon, Got
<1>2. orig \in Node \cup {None}
  BY GotType DEF TypeOK, ProcessStpBeacon, Frames
<1>3. LocksTyped'
  BY <1>1, SameParts
<1> HIDE DEF orig
<1>4. CASE Answer(n, s, NakStpBeacon(n, s)) /\ UNCHANGED tree
  <2>1. NakStpBeacon(n, s) \in Outgoing
    BY ReplyType DEF NakStpBeacon, MsgType
  <2> QED
    BY <1>1, <1>3, <1>4, <2>1, SameParts, HandlerType DEF tree
<1>5. CASE ClearState(n, s) /\ Answer(n, s, Disown(n, s)) /\ UNCHANGED via
  BY <1>1, <1>3, <1>5, TypeOKParts, DropLinkType, DisownType, SameParts,
     HandlerType DEF ClearState
<1>6. CASE /\ ~Circular(n, orig)
           /\ Learn(n, orig, s)
           /\ Answer(n, s, SendBeacon(n, via'[n], stp[n] \ {s}, orig))
           /\ UNCHANGED <<stp, unroutable>>
  <2>1. ViaTyped'
    BY <1>2, <1>6 DEF TypeOK, ViaTyped, Learn, Circular
  <2>2. stp[n] \ {s} \in SUBSET Node
    BY DEF TypeOK
  <2>3. SendBeacon(n, via'[n], stp[n] \ {s}, orig) \in Outgoing
    BY <1>2, <2>2, SendBeaconType
  <2> QED
    BY <1>1, <1>3, <1>6, <2>1, <2>3, SameParts, HandlerType
<1> QED
  BY <1>4, <1>5, <1>6 DEF ProcessStpBeacon, orig

LEMMA ProcessCloudMessageType ==
  ASSUME TypeOK, NEW n \in Node, NEW s \in Node, ProcessCloudMessage(n, s)
  PROVE  TypeOK'
BY ReceiveFromStrangerType, ProcessLocalLockReqType, GrantTooLateType,
   ProcessLocalLockGrantType, ProcessLocalLockDenyType,
   ProcessLocalStpAddRequestType, ProcessLocalStpAddedType,
   ProcessLocalStpRefusedType, ProcessLocalStpDeleteRequestType,
   ProcessLocalStpDeletedType, ProcessLocalStpAddedChangedType,
   AddedChangedTooLateType, ProcessStpArcDeleteType, ProcessStpBeaconType,
   ProcessStpBeaconNakType
   DEF ProcessCloudMessage

LEMMA LoseType ==
  ASSUME TypeOK, NEW n \in Node, NEW s \in Node, Lose(n, s)
  PROVE  TypeOK'
<1>1. net' \in [Chan -> Seq(Frames)]
  BY DEF TypeOK, Lose, Chan
<1>2. spent' \in [Kind -> Nat]
  BY SpendType, TypeOKParts DEF Lose
<1>3. NbrTyped'
  BY DEF TypeOK, NbrTyped, Lose
<1> QED
  BY <1>1, <1>2, <1>3, SameParts, TypeOKPartsNext DEF Lose, tree

LEMMA CheckNbrDevicesType ==
  ASSUME TypeOK, NEW n \in Node, CheckNbrDevices(n)
  PROVE  TypeOK'
<1>1. NbrTyped'
  BY DEF TypeOK, NbrTyped, CheckNbrDevices
<1>2. spent' \in [Kind -> Nat]
  BY SpendType, TypeOKParts DEF CheckNbrDevices
<1>3. net' \in [Chan -> Seq(Frames)]
  BY DEF TypeOK, CheckNbrDevices
<1> QED
  BY <1>1, <1>2, <1>3, SameParts, TypeOKPartsNext DEF CheckNbrDevices, tree

LEMMA RestartType ==
  ASSUME TypeOK, NEW n \in Node, Restart(n)
  PROVE  TypeOK'
<1>1. NbrTyped'
  BY DEF TypeOK, NbrTyped, Restart
<1>2. TreeTyped'
  BY DEF TypeOK, TreeTyped, Restart
<1>3. ViaTyped'
  BY DEF TypeOK, ViaTyped, Restart
<1>4. LocksTyped'
  BY DEF TypeOK, LocksTyped, Restart
<1>5. net' \in [Chan -> Seq(Frames)]
  BY DEF TypeOK, Restart
<1>6. spent' \in [Kind -> Nat]
  BY SpendType, TypeOKParts DEF Restart
<1> QED
  BY <1>1, <1>2, <1>3, <1>4, <1>5, <1>6, TypeOKPartsNext

LEMMA NextType == TypeOK /\ [Next]_vars => TypeOK'
<1> SUFFICES ASSUME TypeOK, [Next]_vars
             PROVE  TypeOK'
  OBVIOUS
<1>1. CASE Next
  BY <1>1, MaintType, ProcessCloudMessageType, LoseType, CheckNbrDevicesType,
     RestartType DEF Next
<1>2. CASE UNCHANGED vars
  BY <1>2 DEF TypeOK, vars, tree, locks
<1> QED
  BY <1>1, <1>2

\* In every behaviour of the boxes every variable keeps its type: whatever the
\* frames and the timeouts do, no box takes itself for a neighbor, has an arc
\* to itself or enters its own beacon in stp_recv_beacons.
THEOREM TypeCorrect == Spec => []TypeOK
BY InitType, NextType, PTL DEF Spec

-----------------------------------------------------------------------------
(* OneChangeAtATime.  Together with TypeOK it is inductive as it stands: a  *)
(* change is only started by a box that has none, every later step of it    *)
(* either gives something up or moves it to its next stage.                 *)

\* Nothing is asked for or locked by this step.
Shrinks ==
  \A n \in Node : pending'[n] \subseteq pending[n] /\ owned'[n] \subseteq owned[n]

\* Any part of a single change is one.
LEMMA PartOfOneChange ==
  ASSUME NEW p, NEW o, OneChange(p, o),
         NEW p2 \in SUBSET p, NEW o2 \in SUBSET o
  PROVE  OneChange(p2, o2)
<1>1. CASE o = {} /\ \E m \in Node :
             p \subseteq {Entry("local_stp_add_request_msg", m)}
  BY <1>1 DEF OneChange
<1>2. ASSUME NEW old \in Node, NEW new \in Node, old # new,
             LET locked == {Entry("local_lock_req_old_msg", old),
                            Entry("local_lock_req_new_msg", new)}
             IN  /\ o \subseteq locked
                 /\ \/ p \subseteq locked \ o
                    \/ p \subseteq {Entry("local_stp_add_changed_request_msg", new),
                                    Entry("local_stp_delete_request_msg", old)}
      PROVE  OneChange(p2, o2)
  <2> DEFINE locked == {Entry("local_lock_req_old_msg", old),
                        Entry("local_lock_req_new_msg", new)}
             asked  == {Entry("local_stp_add_changed_request_msg", new),
                        Entry("local_stp_delete_request_msg", old)}
  <2>1. /\ o2 \subseteq locked
        /\ p2 \subseteq locked \ o2 \/ p2 \subseteq asked
    BY <1>2
  <2> QED
    BY <1>2, <2>1 DEF OneChange
<1> QED
  BY <1>1, <1>2 DEF OneChange

LEMMA ShrinksOneChange ==
  ASSUME OneChangeAtATime, Shrinks
  PROVE  OneChangeAtATime'
BY PartOfOneChange DEF OneChangeAtATime, Shrinks

LEMMA InitOneChange == Init => OneChangeAtATime
BY DEF Init, OneChangeAtATime, OneChange

LEMMA MaintOneChange ==
  ASSUME TypeOK, OneChangeAtATime, NEW n \in Node, PostRepeatedCloudMaint(n)
  PROVE  OneChangeAtATime'
<1>1. CASE MaintQuiet(n)
  BY <1>1, ShrinksOneChange DEF MaintQuiet, Round, TypeOK, Shrinks
<1>2. CASE MaintConnect(n)
  <2>1. PICK new \in nbr[n] :
          /\ pending' = [pending EXCEPT
                           ![n] = {} \cup {Entry("local_stp_add_request_msg", new)}]
          /\ owned' = [owned EXCEPT ![n] = {}]
    <3>1. PICK p \in SUBSET pending[n], g \in SUBSET granted[n],
               o \in SUBSET owned[n], kept \in SUBSET Heard(n),
               new \in nbr[n] \ stp[n] :
            /\ ~Doing(p, g, o)
            /\ Round(n, p, g, o, TimeoutStpRecvBeacons(n, kept),
                     {Entry("local_stp_add_request_msg", new)},
                     Send(n, TimeoutStpRecvBeacons(n, kept),
                          Message("local_stp_add_request_msg", new)),
                     Silence, {"connect"})
      BY <1>2, ZenonT(60) DEF MaintConnect
    <3>2. /\ new \in nbr[n] /\ p = {} /\ o = {}
          /\ pending' = [pending EXCEPT
                           ![n] = p \cup {Entry("local_stp_add_request_msg", new)}]
          /\ owned' = [owned EXCEPT ![n] = o]
      BY <3>1 DEF Round, Doing
    <3> QED
      BY <3>2
  <2>2. OneChange(pending'[n], owned'[n])
    BY <2>1 DEF TypeOK, OneChange
  <2> QED
    BY <2>1, <2>2 DEF TypeOK, OneChangeAtATime
<1>3. CASE MaintImprove(n)
  <2>1. PICK old \in stp[n], new \in nbr[n] :
          /\ old \in stp'[n] /\ new \notin stp'[n]
          /\ pending' = [pending EXCEPT
                           ![n] = {} \cup {Entry("local_lock_req_old_msg", old),
                                           Entry("local_lock_req_new_msg", new)}]
          /\ owned' = [owned EXCEPT ![n] = {}]
    <3>1. PICK p \in SUBSET pending[n], g \in SUBSET granted[n],
               o \in SUBSET owned[n], kept \in SUBSET Heard(n), new \in nbr[n] :
            LET v   == TimeoutStpRecvBeacons(n, kept)
                old == v[new]
            IN  /\ TimeoutLockables(n, p, g, o)
                /\ ~Doing(p, g, o)
                /\ Timely => ~Outstanding(n)
                /\ old \in stp[n] \cap nbr[n]
                /\ Round(n, p, g, o, v,
                         {Entry("local_lock_req_old_msg", old),
                          Entry("local_lock_req_new_msg", new)}, Silence,
                         Send(n, v, Message("local_lock_req_old_msg", old)) ++
                         Send(n, v, Message("local_lock_req_new_msg", new)),
                         {"improve"})
                /\ old \in stp'[n] /\ new \notin stp'[n]
      BY <1>3, ZenonT(60) DEF MaintImprove
    <3> DEFINE old == TimeoutStpRecvBeacons(n, kept)[new]
    <3>2. /\ old \in stp[n] /\ new \in nbr[n]
          /\ old \in stp'[n] /\ new \notin stp'[n]
          /\ p = {} /\ o = {}
          /\ pending' = [pending EXCEPT
                           ![n] = p \cup {Entry("local_lock_req_old_msg", old),
                                          Entry("local_lock_req_new_msg", new)}]
          /\ owned' = [owned EXCEPT ![n] = o]
      BY <3>1 DEF Round, Doing
    <3> HIDE DEF old
    <3> QED
      BY <3>2
  <2>2. old \in Node /\ new \in Node /\ old # new
    BY <2>1 DEF TypeOK
  <2>3. /\ pending'[n] = {Entry("local_lock_req_old_msg", old),
                          Entry("local_lock_req_new_msg", new)}
        /\ owned'[n] = {}
    BY <2>1 DEF TypeOK
  <2>4. OneChange(pending'[n], owned'[n])
    BY <2>2, <2>3 DEF OneChange
  <2> QED
    BY <2>1, <2>4 DEF TypeOK, OneChangeAtATime
<1> QED
  BY <1>1, <1>2, <1>3 DEF PostRepeatedCloudMaint

\* A grant moves the change n has under way on by one stage: the first lock,
\* or, with both locks, the swap itself.
LEMMA GrantOneChange ==
  ASSUME TypeOK, OneChangeAtATime, NEW n \in Node, NEW s \in Node,
         ProcessLocalLockGrant(n, s)
  PROVE  OneChangeAtATime'
<1> DEFINE others(e) == {x \in owned[n] : x.type \in ReqType \ {e.type}}
<1>1. PICK e \in pending[n] :
        /\ e.node = s /\ e.type \in ReqType
        /\ owned' = [owned EXCEPT ![n] = @ \cup {e}]
        /\ \/ /\ others(e) = {}
              /\ pending' = [pending EXCEPT ![n] = @ \ {e}]
           \/ \E x \in others(e) :
                IF e.type = "local_lock_req_new_msg"
                THEN Swap(n, s, e, x.node, s) ELSE Swap(n, s, e, s, x.node)
  BY DEF ProcessLocalLockGrant
<1>2. PICK old \in Node, new \in Node :
        LET locked == {Entry("local_lock_req_old_msg", old),
                       Entry("local_lock_req_new_msg", new)}
        IN  /\ old # new
            /\ owned[n] \subseteq locked
            /\ pending[n] \subseteq locked \ owned[n]
  BY <1>1 DEF OneChangeAtATime, OneChange, Entry, ReqType
<1> DEFINE locked == {Entry("local_lock_req_old_msg", old),
                      Entry("local_lock_req_new_msg", new)}
           asked  == {Entry("local_stp_add_changed_request_msg", new),
                      Entry("local_stp_delete_request_msg", old)}
<1>3. owned'[n] = owned[n] \cup {e} /\ owned'[n] \subseteq locked
  BY <1>1, <1>2 DEF TypeOK
<1>4. pending'[n] \subseteq locked \ owned'[n] \/ pending'[n] \subseteq asked
  <2>1. CASE pending' = [pending EXCEPT ![n] = @ \ {e}]
    BY <1>2, <1>3, <2>1 DEF TypeOK
  <2>2. ASSUME NEW x \in others(e),
               IF e.type = "local_lock_req_new_msg"
               THEN Swap(n, s, e, x.node, s) ELSE Swap(n, s, e, s, x.node)
        PROVE  pending'[n] \subseteq asked
    <3>1. /\ x \in locked /\ e \in locked /\ x # e
          /\ pending[n] \subseteq {e}
      BY <1>2, <2>2 DEF Entry
    <3>2. Swap(n, s, e, old, new)
      BY <1>1, <2>2, <3>1 DEF Entry
    <3>3. pending' = [pending EXCEPT ![n] = (@ \ {e}) \cup Routable(n, asked)]
      BY <3>2 DEF Swap
    <3>4. Routable(n, asked) \subseteq asked
      BY DEF Routable
    <3> QED
      BY <3>1, <3>3, <3>4 DEF TypeOK
  <2> QED
    BY <1>1, <2>1, <2>2
<1>5. OneChange(pending'[n], owned'[n])
  BY <1>2, <1>3, <1>4 DEF OneChange
<1>6. ASSUME NEW m \in Node, m # n
      PROVE  pending'[m] = pending[m] /\ owned'[m] = owned[m]
  BY <1>1, <1>6 DEF TypeOK, Swap
<1> QED
  BY <1>5, <1>6 DEF OneChangeAtATime

LEMMA ProcessCloudMessageOneChange ==
  ASSUME TypeOK, OneChangeAtATime, NEW n \in Node, NEW s \in Node,
         ProcessCloudMessage(n, s)
  PROVE  OneChangeAtATime'
<1>1. CASE ProcessLocalLockGrant(n, s)
  BY <1>1, GrantOneChange
<1>2. CASE \/ ReceiveFromStranger(n, s) \/ ProcessLocalLockReq(n, s)
           \/ GrantTooLate(n, s) \/ ProcessLocalStpDeleteRequest(n, s)
           \/ ProcessStpArcDelete(n, s) \/ ProcessStpBeacon(n, s)
           \/ ProcessStpBeaconNak(n, s)
  <2>1. UNCHANGED <<pending, owned>>
    BY <1>2 DEF ReceiveFromStranger, ProcessLocalLockReq, GrantTooLate,
       ProcessLocalStpDeleteRequest, ProcessStpArcDelete, ProcessStpBeacon,
       ProcessStpBeaconNak, locks
  <2> QED
    BY <2>1, ShrinksOneChange DEF Shrinks
<1>3. CASE \/ ProcessLocalLockDeny(n, s) \/ ProcessLocalStpRefused(n, s)
           \/ AddedChangedTooLate(n, s)
  <2>1. ClearStpUpdateState(n)
    BY <1>3 DEF ProcessLocalLockDeny, ProcessLocalStpRefused,
       AddedChangedTooLate, ToNominalState
  <2> QED
    BY <2>1, ShrinksOneChange DEF Shrinks, ClearStpUpdateState, TypeOK
<1>4. CASE ProcessLocalStpAddRequest(n, s)
  BY <1>4, ShrinksOneChange DEF Shrinks, ProcessLocalStpAddRequest, TypeOK
<1>5. CASE ProcessLocalStpAdded(n, s)
  <2>1. UNCHANGED owned
    BY <1>5 DEF ProcessLocalStpAdded
  <2>2. CASE UNCHANGED pending
    BY <2>1, <2>2, ShrinksOneChange DEF Shrinks
  <2>3. CASE pending' = [pending EXCEPT
                           ![n] = @ \ {Entry("local_stp_add_request_msg", s)}]
    <3>1. \A m \in Node : pending'[m] \subseteq pending[m]
      BY <2>3 DEF TypeOK
    <3> QED
      BY <2>1, <3>1, ShrinksOneChange DEF Shrinks
  <2> QED
    BY <1>5, <2>2, <2>3 DEF ProcessLocalStpAdded
<1>6. CASE ProcessLocalStpDeleted(n, s)
  BY <1>6, ShrinksOneChange DEF Shrinks, ProcessLocalStpDeleted, TypeOK
<1>7. CASE ProcessLocalStpAddedChanged(n, s)
  BY <1>7, ShrinksOneChange DEF Shrinks, ProcessLocalStpAddedChanged, TypeOK
<1> QED
  BY <1>1, <1>2, <1>3, <1>4, <1>5, <1>6, <1>7 DEF ProcessCloudMessage

LEMMA NextOneChange ==
  TypeOK /\ OneChangeAtATime /\ [Next]_vars => OneChangeAtATime'
<1> SUFFICES ASSUME TypeOK, OneChangeAtATime, [Next]_vars
             PROVE  OneChangeAtATime'
  OBVIOUS
<1>1. CASE \E n \in Node : PostRepeatedCloudMaint(n)
  BY <1>1, MaintOneChange
<1>2. CASE \E n, s \in Node : ProcessCloudMessage(n, s)
  BY <1>2, ProcessCloudMessageOneChange
<1>3. CASE \/ \E n, s \in Node : Lose(n, s)
           \/ \E n \in Node : CheckNbrDevices(n)
           \/ UNCHANGED vars
  <2>1. UNCHANGED <<pending, owned>>
    BY <1>3 DEF Lose, CheckNbrDevices, vars, locks
  <2> QED
    BY <2>1, ShrinksOneChange DEF Shrinks
<1>4. CASE \E n \in Node : Restart(n)
  BY <1>4, ShrinksOneChange DEF Shrinks, Restart, TypeOK
<1> QED
  BY <1>1, <1>2, <1>3, <1>4 DEF Next

\* No box ever has parts of two changes of the tree under way, whatever is
\* lost, late or timed out, for any number of boxes and attempts: the
\* assumption of clear_stp_update_state and process_local_connect about
\* pending_requests and locks_owned.
THEOREM OneChangeCorrect == Spec => []OneChangeAtATime
<1>1. TypeOK /\ OneChangeAtATime /\ [Next]_vars
        => (TypeOK /\ OneChangeAtATime)'
  BY NextType, NextOneChange
<1> QED
  BY InitType, InitOneChange, <1>1, PTL DEF Spec

-----------------------------------------------------------------------------
(* LocksSpec.  Only process_local_lock_req ever sends a grant.              *)

Grant == "local_lock_grant_msg"

\* What a handler may send that grants nothing.
Grantless == {f \in Frames : f.type # Grant}
Modest    == [Node -> Seq(Grantless)]

LEMMA MessageModest ==
  ASSUME NEW t \in MsgType \ {Grant}, NEW d \in Node \cup {None}
  PROVE  Message(t, d) \in Grantless
BY DEF Message, Frames, Grantless

LEMMA BeaconModest ==
  ASSUME NEW o \in Node \cup {None}
  PROVE  Beacon(o) \in Grantless
BY DEF Beacon, Frames, MsgType, Grantless, Grant

LEMMA SilenceModest == Silence \in Modest
BY DEF Silence, Modest

LEMMA ToModest ==
  ASSUME NEW d, NEW ms \in Seq(Grantless)
  PROVE  To(d, ms) \in Modest
BY DEF To, Modest

LEMMA BesideModest ==
  ASSUME NEW a \in Modest, NEW b \in Modest
  PROVE  a ++ b \in Modest
<1>1. \A x \in Node : a[x] \o b[x] \in Seq(Grantless)
  BY DEF Modest
<1> QED
  BY <1>1 DEF ++, Modest

LEMMA SendModest ==
  ASSUME NEW n, NEW v, NEW m \in Grantless
  PROVE  Send(n, v, m) \in Modest
<1>1. <<m>> \in Seq(Grantless)
  OBVIOUS
<1> QED
  BY <1>1, ToModest, SilenceModest DEF Send

LEMMA ReplyModest ==
  ASSUME NEW n, NEW v, NEW s \in Node, NEW t \in MsgType \ {Grant}
  PROVE  Send(n, v, Message(t, s)) \in Modest
BY MessageModest, SendModest

LEMMA RepeatModest ==
  ASSUME NEW S \in SUBSET Node, NEW f \in Grantless
  PROVE  [i \in 1 .. Cardinality(S) |-> f] \in Seq(Grantless)
<1>1. IsFiniteSet(S)
  BY NodeAssumption, FS_Subset
<1>2. Cardinality(S) \in Nat
  BY <1>1, FS_CardinalityType
<1> QED
  BY <1>2

LEMMA SendBeaconModest ==
  ASSUME NEW n, NEW v, NEW S \in SUBSET Node, NEW o \in Node \cup {None}
  PROVE  SendBeacon(n, v, S, o) \in Modest
<1>1. ASSUME NEW x \in Node
      PROVE  [i \in 1 .. Cardinality({d \in S : Route(n, v, d) = x})
                |-> Beacon(o)] \in Seq(Grantless)
  <2>1. {d \in S : Route(n, v, d) = x} \in SUBSET Node
    OBVIOUS
  <2> QED
    BY <2>1, RepeatModest, BeaconModest
<1> QED
  BY <1>1 DEF SendBeacon, Modest

LEMMA SendStpBeaconsModest ==
  ASSUME NEW n \in Node, NEW new, NEW v, NEW ord \in Relayed(n, v, new)
  PROVE  SendStpBeacons(n, new, ord) \in Modest
<1>0. ord \in Seq(Node)
  BY RelayedType
<1>1. [i \in DOMAIN ord |-> Beacon(ord[i])] \in Seq(Grantless)
  <2>1. \A i \in DOMAIN ord : Beacon(ord[i]) \in Grantless
    BY <1>0, BeaconModest
  <2> QED
    BY <1>0, <2>1
<1>2. <<Beacon(n)>> \in Seq(Grantless)
  BY BeaconModest
<1>3. <<Beacon(n)>> \o [i \in DOMAIN ord |-> Beacon(ord[i])] \in Seq(Grantless)
  BY <1>1, <1>2
<1> QED
  BY <1>3, ToModest DEF SendStpBeacons

LEMMA SendLockReleasesModest ==
  ASSUME NEW n
  PROVE  SendLockReleases(n) \in Modest
<1>1. ASSUME NEW x \in Node
      PROVE  [i \in 1 .. Cardinality({e \in owned[n] :
                                        /\ Route(n, via[n], e.node) = x
                                        /\ "local_lock_release_msg" \in Sendable})
                |-> Message("local_lock_release_msg", x)] \in Seq(Grantless)
  <2> DEFINE R == {e \in owned[n] : /\ Route(n, via[n], e.node) = x
                                    /\ "local_lock_release_msg" \in Sendable}
  <2>1. R \in SUBSET Node
    BY DEF Sendable
  <2>2. Message("local_lock_release_msg", x) \in Grantless
    BY MessageModest DEF MsgType, Grant
  <2> HIDE DEF R
  <2>3. [i \in 1 .. Cardinality(R) |-> Message("local_lock_release_msg", x)]
          \in Seq(Grantless)
    BY <2>1, <2>2, RepeatModest
  <2> QED
    BY <2>3 DEF R
<1> QED
  BY <1>1 DEF SendLockReleases, Modest

\* m has granted n a lock, and n has not read it yet.
Grants(m, n) == \E i \in DOMAIN net[<<m, n>>] : net[<<m, n>>][i].type = Grant

LEMMA ConcatFrames ==
  ASSUME NEW p \in Seq(Frames), NEW q \in Seq(Frames), NEW i \in DOMAIN (p \o q)
  PROVE  \/ \E j \in DOMAIN p : p[j] = (p \o q)[i]
         \/ \E j \in DOMAIN q : q[j] = (p \o q)[i]
<1>1. CASE i \in DOMAIN p
  BY <1>1
<1>2. CASE i \notin DOMAIN p
  <2>1. i - Len(p) \in DOMAIN q /\ q[i - Len(p)] = (p \o q)[i]
    BY <1>2
  <2> QED
    BY <2>1
<1> QED
  BY <1>1, <1>2

LEMMA TailFrames ==
  ASSUME NEW p \in Seq(Frames), p # <<>>, NEW i \in DOMAIN Tail(p)
  PROVE  \E j \in DOMAIN p : p[j] = Tail(p)[i]
<1>1. i + 1 \in DOMAIN p /\ p[i + 1] = Tail(p)[i]
  OBVIOUS
<1> QED
  BY <1>1

LEMMA GrantlessSeq ==
  ASSUME NEW q \in Seq(Grantless)
  PROVE  q \in Seq(Frames) /\ \A i \in DOMAIN q : q[i].type # Grant
<1>1. Len(q) \in Nat /\ DOMAIN q = 1 .. Len(q) /\ q \in [1 .. Len(q) -> Grantless]
  <2> HIDE DEF Grantless
  <2> QED
    OBVIOUS
<1>2. \A i \in DOMAIN q : q[i] \in Frames /\ q[i].type # Grant
  BY <1>1 DEF Grantless
<1>3. q \in [1 .. Len(q) -> Frames]
  BY <1>1, <1>2
<1> QED
  BY <1>1, <1>2, <1>3

LEMMA AnswerGrants ==
  ASSUME net \in [Chan -> Seq(Frames)], NEW n \in Node, NEW s \in Node,
         net[<<s, n>>] # <<>>, NEW out \in Outgoing,
         Answer(n, s, out), NEW a \in Node, NEW b \in Node, Grants(a, b)'
  PROVE  \/ Grants(a, b)
         \/ a = n /\ \E i \in DOMAIN out[b] : out[b][i].type = Grant
<1>1. PICK i \in DOMAIN net'[<<a, b>>] : net'[<<a, b>>][i].type = Grant
  BY DEF Grants
<1>2. net[<<a, b>>] \in Seq(Frames) /\ out[b] \in Seq(Frames) /\ <<a, b>> \in Chan
  BY DEF Chan, Outgoing
<1>3. CASE a = s /\ b = n
  <2>1. net'[<<a, b>>] = Tail(net[<<a, b>>]) /\ net[<<a, b>>] # <<>>
    BY <1>2, <1>3 DEF Answer
  <2>2. \E j \in DOMAIN net[<<a, b>>] : net[<<a, b>>][j] = net'[<<a, b>>][i]
    BY <1>1, <1>2, <2>1, TailFrames
  <2> QED
    BY <1>1, <2>2 DEF Grants
<1>4. CASE ~(a = s /\ b = n) /\ a = n
  <2>1. net'[<<a, b>>] = net[<<a, b>>] \o out[b]
    BY <1>2, <1>4 DEF Answer
  <2>2. \/ \E j \in DOMAIN net[<<a, b>>] : net[<<a, b>>][j] = net'[<<a, b>>][i]
        \/ \E j \in DOMAIN out[b] : out[b][j] = net'[<<a, b>>][i]
    <3>1. i \in DOMAIN (net[<<a, b>>] \o out[b])
      BY <1>1, <2>1
    <3>2. \/ \E j \in DOMAIN net[<<a, b>>] :
               net[<<a, b>>][j] = (net[<<a, b>>] \o out[b])[i]
          \/ \E j \in DOMAIN out[b] : out[b][j] = (net[<<a, b>>] \o out[b])[i]
      BY <1>2, <3>1, ConcatFrames
    <3> QED
      BY <2>1, <3>2
  <2>3. CASE \E j \in DOMAIN net[<<a, b>>] : net[<<a, b>>][j] = net'[<<a, b>>][i]
    BY <1>1, <2>3 DEF Grants
  <2>4. CASE \E j \in DOMAIN out[b] : out[b][j] = net'[<<a, b>>][i]
    BY <1>1, <1>4, <2>4
  <2> QED
    BY <2>2, <2>3, <2>4
<1>5. CASE ~(a = s /\ b = n) /\ a # n
  <2>1. net'[<<a, b>>] = net[<<a, b>>]
    BY <1>2, <1>5 DEF Answer
  <2> QED
    BY <1>1, <2>1 DEF Grants
<1> QED
  BY <1>3, <1>4, <1>5

LEMMA ModestOutgoing ==
  ASSUME NEW out \in Modest
  PROVE  /\ out \in Outgoing
         /\ \A b \in Node : \A i \in DOMAIN out[b] : out[b][i].type # Grant
<1>1. \A x \in Node : out[x] \in Seq(Grantless)
  BY DEF Modest
<1>2. \A x \in Node : /\ out[x] \in Seq(Frames)
                      /\ \A i \in DOMAIN out[x] : out[x][i].type # Grant
  BY <1>1, GrantlessSeq
<1>3. out = [x \in Node |-> out[x]]
  BY DEF Modest
<1> QED
  BY <1>2, <1>3 DEF Outgoing

\* A handler that answers modestly grants nothing.
LEMMA ModestGrants ==
  ASSUME net \in [Chan -> Seq(Frames)], NEW n \in Node, NEW s \in Node,
         net[<<s, n>>] # <<>>, NEW out \in Modest, Answer(n, s, out),
         NEW a \in Node, NEW b \in Node, Grants(a, b)'
  PROVE  Grants(a, b)
<1>1. out \in Outgoing /\ \A i \in DOMAIN out[b] : out[b][i].type # Grant
  BY ModestOutgoing
<1>2. \/ Grants(a, b)
      \/ a = n /\ \E i \in DOMAIN out[b] : out[b][i].type = Grant
  BY <1>1, AnswerGrants
<1> QED
  BY <1>1, <1>2

\* Nor does a round.
LEMMA EmitGrants ==
  ASSUME net \in [Chan -> Seq(Frames)], NEW n \in Node,
         NEW out \in Modest, Emit(n, out),
         NEW a \in Node, NEW b \in Node, Grants(a, b)'
  PROVE  Grants(a, b)
<1>1. PICK i \in DOMAIN net'[<<a, b>>] : net'[<<a, b>>][i].type = Grant
  BY DEF Grants
<1>2. /\ net[<<a, b>>] \in Seq(Frames) /\ out[b] \in Seq(Frames) /\ <<a, b>> \in Chan
      /\ \A j \in DOMAIN out[b] : out[b][j].type # Grant
  <2>1. out \in Outgoing /\ \A j \in DOMAIN out[b] : out[b][j].type # Grant
    BY ModestOutgoing
  <2> QED
    BY <2>1 DEF Chan, Outgoing
<1>3. CASE a = n
  <2>1. net'[<<a, b>>] = net[<<a, b>>] \o out[b]
    BY <1>2, <1>3 DEF Emit
  <2>2. \/ \E j \in DOMAIN net[<<a, b>>] : net[<<a, b>>][j] = net'[<<a, b>>][i]
        \/ \E j \in DOMAIN out[b] : out[b][j] = net'[<<a, b>>][i]
    <3>1. i \in DOMAIN (net[<<a, b>>] \o out[b])
      BY <1>1, <2>1
    <3>2. \/ \E j \in DOMAIN net[<<a, b>>] :
               net[<<a, b>>][j] = (net[<<a, b>>] \o out[b])[i]
          \/ \E j \in DOMAIN out[b] : out[b][j] = (net[<<a, b>>] \o out[b])[i]
      BY <1>2, <3>1, ConcatFrames
    <3> QED
      BY <2>1, <3>2
  <2> QED
    BY <1>1, <1>2, <2>2 DEF Grants
<1>4. CASE a # n
  <2>1. net'[<<a, b>>] = net[<<a, b>>]
    BY <1>2, <1>4 DEF Emit
  <2> QED
    BY <1>1, <2>1 DEF Grants
<1> QED
  BY <1>3, <1>4

-----------------------------------------------------------------------------
(* Two boxes never both claim the arc between them: own it, or have a       *)
(* request pending that has been granted.  A box grants only what it        *)
(* neither owns nor requests, and, when answers come in time, requests no   *)
(* lock while an old grant is still on its way to it.                       *)

Asks(n, m) == \E e \in pending[n] : e.node = m /\ e.type \in ReqType

Claim(n, m) == m \in Owners(n) \/ (Asks(n, m) /\ Grants(m, n))

Exclusive == \A n, m \in Node : n # m => ~(Claim(n, m) /\ Claim(m, n))

\* No box but n changes what it owns, and n only gives up.
GivesUp(n) ==
  /\ owned'[n] \subseteq owned[n]
  /\ \A m \in Node \ {n} : owned'[m] = owned[m]

\* Nobody asks for more than before.
AsksNoMore == \A n, m \in Node : Asks(n, m)' => Asks(n, m)

LEMMA FewerClaims ==
  ASSUME Exclusive,
         \A n, m \in Node : Claim(n, m)' => Claim(n, m)
  PROVE  Exclusive'
BY DEF Exclusive

LEMMA GivingUp ==
  ASSUME NEW n \in Node, GivesUp(n), NEW m \in Node
  PROVE  Owners(m)' \subseteq Owners(m)
BY DEF GivesUp, Owners

\* What a step keeps of the claims: it gives up, asks and grants no more.
LEMMA Fading ==
  ASSUME Exclusive, NEW n \in Node, GivesUp(n), AsksNoMore,
         \A a, b \in Node : Grants(a, b)' => Grants(a, b)
  PROVE  Exclusive'
<1>1. \A a, b \in Node : Claim(a, b)' => Claim(a, b)
  BY GivingUp DEF Claim, AsksNoMore
<1> QED
  BY <1>1, FewerClaims

LEMMA PendingShrinks ==
  ASSUME \A n \in Node : pending'[n] \subseteq pending[n]
  PROVE  AsksNoMore
BY DEF AsksNoMore, Asks

\* Handlers that only give up, and grant nothing.
AnswersModestly(n, s) ==
  net[<<s, n>>] # <<>> /\ \E out \in Modest : Answer(n, s, out)

LEMMA ModestHandler ==
  ASSUME TypeOK, NEW n \in Node, NEW s \in Node, AnswersModestly(n, s)
  PROVE  \A a, b \in Node : Grants(a, b)' => Grants(a, b)
BY ModestGrants DEF AnswersModestly, TypeOK

LEMMA QuietHandlers ==
  ASSUME TypeOK, NEW n \in Node, NEW s \in Node,
         \/ ReceiveFromStranger(n, s) \/ GrantTooLate(n, s)
         \/ ProcessLocalLockDeny(n, s) \/ ProcessLocalStpRefused(n, s)
         \/ ProcessLocalStpDeleteRequest(n, s) \/ ProcessLocalStpDeleted(n, s)
         \/ AddedChangedTooLate(n, s) \/ ProcessStpArcDelete(n, s)
         \/ ProcessStpBeaconNak(n, s)
  PROVE  AnswersModestly(n, s)
<1>1. \A t \in MsgType \ {Grant} : Send(n, via[n], Message(t, s)) \in Modest
  BY ReplyModest
<1>2. Disown(n, s) \in Modest
  BY <1>1 DEF Disown, MsgType, Grant
<1>3. CASE \/ ReceiveFromStranger(n, s) \/ ProcessLocalStpDeleted(n, s)
           \/ ProcessStpArcDelete(n, s) \/ ProcessStpBeaconNak(n, s)
  BY <1>3, SilenceModest DEF ReceiveFromStranger, ProcessLocalStpDeleted,
     ProcessStpArcDelete, ProcessStpBeaconNak, Got, AnswersModestly
<1>4. CASE GrantTooLate(n, s)
  <2>1. Send(n, via[n], Message("local_lock_release_msg", s)) \in Modest
    BY <1>1 DEF MsgType, Grant
  <2> QED
    BY <1>4, <2>1 DEF GrantTooLate, Got, AnswersModestly
<1>5. CASE ProcessLocalLockDeny(n, s) \/ ProcessLocalStpRefused(n, s)
  BY <1>5, SendLockReleasesModest
     DEF ProcessLocalLockDeny, ProcessLocalStpRefused, Got, AnswersModestly
<1>6. CASE ProcessLocalStpDeleteRequest(n, s)
  <2>1. /\ Send(n, via[n], Message("local_stp_refused_msg", s)) \in Modest
        /\ Send(n, via[n], Message("local_stp_deleted_msg", s)) \in Modest
    BY <1>1 DEF MsgType, Grant
  <2> QED
    BY <1>6, <2>1 DEF ProcessLocalStpDeleteRequest, Got, AnswersModestly
<1>7. CASE AddedChangedTooLate(n, s)
  BY <1>2, <1>7, SilenceModest DEF AddedChangedTooLate, Got, AnswersModestly
<1> QED
  BY <1>3, <1>4, <1>5, <1>6, <1>7

LEMMA AddRequestModest ==
  ASSUME TypeOK, NEW n \in Node, NEW s \in Node, ProcessLocalStpAddRequest(n, s)
  PROVE  AnswersModestly(n, s)
<1> DEFINE links  == stp[n] \cup {s}
           answer == IF Frame(n, s).type = "local_stp_add_request_msg"
                     THEN "local_stp_added_msg" ELSE "local_stp_added_changed_msg"
           reply  == Send(n, via[n], Message(answer, s))
           refuse == Send(n, via[n], Message("local_stp_refused_msg", s))
<1>1. reply \in Modest /\ refuse \in Modest
  BY ReplyModest DEF MsgType, Grant
<1>2. net[<<s, n>>] # <<>> /\ links \in SUBSET Node
  BY DEF ProcessLocalStpAddRequest, Got, TypeOK
<1>3. ASSUME NEW skip \in PassedOver(n, via[n], links),
             NEW ord \in Relayed(n, via[n], s)
      PROVE  reply ++ SendBeacon(n, via[n], links \ skip, n)
                   ++ SendStpBeacons(n, s, ord) \in Modest
  <2>1. SendBeacon(n, via[n], links \ skip, n) \in Modest
    BY <1>2, SendBeaconModest
  <2>2. SendStpBeacons(n, s, ord) \in Modest
    BY SendStpBeaconsModest
  <2>3. reply ++ SendBeacon(n, via[n], links \ skip, n) \in Modest
    BY <1>1, <2>1, BesideModest
  <2> QED
    BY <2>2, <2>3, BesideModest
<1>4. \/ Answer(n, s, refuse)
      \/ Answer(n, s, reply)
      \/ \E skip \in PassedOver(n, via[n], links), ord \in Relayed(n, via[n], s) :
           Answer(n, s, reply ++ SendBeacon(n, via[n], links \ skip, n)
                              ++ SendStpBeacons(n, s, ord))
  BY DEF ProcessLocalStpAddRequest
<1> HIDE DEF reply, refuse, links
<1> QED
  BY <1>1, <1>2, <1>3, <1>4 DEF AnswersModestly

\* The beacons a box sends when an arc is new.
LEMMA NewArcModest ==
  ASSUME NEW n \in Node, NEW v, NEW S \in SUBSET Node, NEW new,
         NEW ord \in Relayed(n, v, new)
  PROVE  SendBeacon(n, v, S, n) ++ SendStpBeacons(n, new, ord) \in Modest
<1>1. SendBeacon(n, v, S, n) \in Modest
  BY SendBeaconModest
<1>2. SendStpBeacons(n, new, ord) \in Modest
  BY SendStpBeaconsModest
<1> QED
  BY <1>1, <1>2, BesideModest

LEMMA AddedModest ==
  ASSUME TypeOK, NEW n \in Node, NEW s \in Node,
         ProcessLocalStpAdded(n, s) \/ ProcessLocalStpAddedChanged(n, s)
  PROVE  AnswersModestly(n, s)
<1> DEFINE links == stp[n] \cup {s}
<1>1. net[<<s, n>>] # <<>> /\ links \in SUBSET Node
  BY DEF ProcessLocalStpAdded, ProcessLocalStpAddedChanged, Got, TypeOK
<1>2. Disown(n, s) \in Modest
  BY ReplyModest DEF Disown, MsgType, Grant
<1>3. \/ Answer(n, s, Disown(n, s))
      \/ \E v : \E skip \in PassedOver(n, v, links), ord \in Relayed(n, v, s) :
           Answer(n, s, SendBeacon(n, v, links \ skip, n) ++ SendStpBeacons(n, s, ord))
  <2>1. CASE ProcessLocalStpAdded(n, s)
    BY <2>1 DEF ProcessLocalStpAdded
  <2>2. CASE ProcessLocalStpAddedChanged(n, s)
    BY <2>2 DEF ProcessLocalStpAddedChanged
  <2> QED
    BY <2>1, <2>2
<1>4. ASSUME NEW v, NEW skip \in PassedOver(n, v, links), NEW ord \in Relayed(n, v, s)
      PROVE  SendBeacon(n, v, links \ skip, n) ++ SendStpBeacons(n, s, ord) \in Modest
  BY <1>1, NewArcModest
<1> HIDE DEF links
<1> QED
  BY <1>1, <1>2, <1>3, <1>4 DEF AnswersModestly

LEMMA BeaconHandlerModest ==
  ASSUME TypeOK, NEW n \in Node, NEW s \in Node, ProcessStpBeacon(n, s)
  PROVE  AnswersModestly(n, s)
<1> DEFINE orig == Frame(n, s).orig
<1>1. net[<<s, n>>] # <<>> /\ orig \in Node \cup {None} /\ stp[n] \ {s} \in SUBSET Node
  BY GotType DEF TypeOK, ProcessStpBeacon, Frames, Got
<1>2. NakStpBeacon(n, s) \in Modest /\ Disown(n, s) \in Modest
  BY ReplyModest DEF NakStpBeacon, Disown, MsgType, Grant
<1>3. SendBeacon(n, via'[n], stp[n] \ {s}, orig) \in Modest
  BY <1>1, SendBeaconModest
<1> QED
  BY <1>1, <1>2, <1>3 DEF ProcessStpBeacon, AnswersModestly

LEMMA GrantHandlerModest ==
  ASSUME TypeOK, NEW n \in Node, NEW s \in Node, ProcessLocalLockGrant(n, s)
  PROVE  AnswersModestly(n, s)
<1> DEFINE asks(old, new) ==
             Send(n, via[n], Message("local_stp_add_changed_request_msg", new)) ++
             Send(n, via[n], Message("local_stp_delete_request_msg", old))
<1>1. \A old, new \in Node : asks(old, new) \in Modest
  <2> TAKE old, new \in Node
  <2>1. /\ Send(n, via[n], Message("local_stp_add_changed_request_msg", new)) \in Modest
        /\ Send(n, via[n], Message("local_stp_delete_request_msg", old)) \in Modest
    BY ReplyModest DEF MsgType, PendType, Grant
  <2> QED
    BY <2>1, BesideModest
<1>2. \A x \in owned[n] : x.node \in Node
  BY DEF TypeOK
<1>3. Answer(n, s, Silence) \/ \E old, new \in Node : Answer(n, s, asks(old, new))
  BY <1>2 DEF ProcessLocalLockGrant, Swap
<1>4. net[<<s, n>>] # <<>>
  BY DEF ProcessLocalLockGrant, Got
<1> HIDE DEF asks
<1> QED
  BY <1>1, <1>3, <1>4, SilenceModest DEF AnswersModestly

\* A box grants what it neither owns nor asks for.
LEMMA LockReqExclusive ==
  ASSUME TypeOK, Exclusive, NEW n \in Node, NEW s \in Node,
         ProcessLocalLockReq(n, s)
  PROVE  Exclusive' /\ GivesUp(n)
<1> DEFINE yes == Send(n, via[n], Message(Grant, s))
           no  == Send(n, via[n], Message("local_lock_deny_msg", s))
<1>1. /\ net[<<s, n>>] # <<>> /\ s \in nbr[n] /\ net \in [Chan -> Seq(Frames)]
      /\ UNCHANGED <<pending, owned>>
  BY DEF ProcessLocalLockReq, Got, TypeOK
<1>2. GivesUp(n) /\ \A a, b \in Node : /\ Asks(a, b)' <=> Asks(a, b)
                                       /\ Owners(a)' = Owners(a)
  BY <1>1 DEF GivesUp, Asks, Owners
<1>3. CASE Answer(n, s, no)
  <2>1. no \in Modest
    BY ReplyModest DEF MsgType, Grant
  <2>2. \A a, b \in Node : Grants(a, b)' => Grants(a, b)
    BY <1>1, <1>3, <2>1, ModestGrants
  <2> QED
    BY <1>2, <2>2, Fading DEF AsksNoMore
<1>4. CASE ~LockedWith(n, s) /\ Answer(n, s, yes)
  <2>1. yes \in Outgoing
    BY ReplyType DEF MsgType, Grant
  <2>2. \A b \in Node \ {s} : yes[b] = <<>>
    BY <1>1 DEF Send, To, Silence, Route, Message
  <2>3. ASSUME NEW a \in Node, NEW b \in Node, Grants(a, b)'
        PROVE  Grants(a, b) \/ (a = n /\ b = s)
    <3> HIDE DEF yes
    <3>1. \/ Grants(a, b)
          \/ a = n /\ \E i \in DOMAIN yes[b] : yes[b][i].type = Grant
      BY <1>1, <1>4, <2>1, <2>3, AnswerGrants
    <3> QED
      BY <2>2, <3>1
  <2>4. ~Claim(n, s)
    BY <1>4 DEF Claim, LockedWith, Asks, Owners
  <2>5. \A a, b \in Node : Claim(a, b)' => Claim(a, b) \/ (a = s /\ b = n)
    BY <1>2, <2>3 DEF Claim
  <2>6. ~Claim(n, s)' \/ n = s
    BY <2>4, <2>5
  <2> QED
    BY <1>2, <2>5, <2>6 DEF Exclusive
<1> QED
  BY <1>2, <1>3, <1>4 DEF ProcessLocalLockReq, Grant

\* A grant turns one kind of claim into the other.
LEMMA LockGrantClaims ==
  ASSUME TypeOK, NEW n \in Node, NEW s \in Node, ProcessLocalLockGrant(n, s)
  PROVE  /\ s # n /\ Claim(n, s)
         /\ Owners(n)' = Owners(n) \cup {s}
         /\ \A m \in Node \ {n} : Owners(m)' = Owners(m)
         /\ AsksNoMore
<1>1. PICK e \in pending[n] :
        /\ e.node = s /\ e.type \in ReqType
        /\ owned' = [owned EXCEPT ![n] = @ \cup {e}]
        /\ \/ pending' = [pending EXCEPT ![n] = @ \ {e}]
           \/ \E old, new \in Node :
                pending' = [pending EXCEPT ![n] = (@ \ {e}) \cup
                  Routable(n, {Entry("local_stp_add_changed_request_msg", new),
                               Entry("local_stp_delete_request_msg", old)})]
  <2>1. \A x \in owned[n] : x.node \in Node
    BY DEF TypeOK
  <2> QED
    BY <2>1 DEF ProcessLocalLockGrant, Swap
<1>2. s # n
  BY DEF ProcessLocalLockGrant, TypeOK
<1>3. Grants(s, n)
  <2>1. /\ net[<<s, n>>] # <<>> /\ Frame(n, s).type = Grant
        /\ net[<<s, n>>] \in Seq(Frames)
    BY DEF ProcessLocalLockGrant, Got, TypeOK, Chan, Grant
  <2>2. 1 \in DOMAIN net[<<s, n>>] /\ net[<<s, n>>][1] = Frame(n, s)
    BY <2>1 DEF Frame
  <2> QED
    BY <2>1, <2>2 DEF Grants
<1>4. Owners(n)' = Owners(n) \cup {s}
  BY <1>1 DEF Owners, TypeOK
<1>5. \A m \in Node \ {n} : Owners(m)' = Owners(m)
  BY <1>1 DEF Owners, TypeOK
<1>6. AsksNoMore
  <2> SUFFICES ASSUME NEW x \in Node, NEW m \in Node, NEW r \in pending'[x],
                      r.node = m, r.type \in ReqType
               PROVE  r \in pending[x]
    BY DEF AsksNoMore, Asks
  <2>1. CASE pending' = [pending EXCEPT ![n] = @ \ {e}]
    BY <2>1 DEF TypeOK
  <2>2. ASSUME NEW old \in Node, NEW new \in Node,
               pending' = [pending EXCEPT ![n] = (@ \ {e}) \cup
                  Routable(n, {Entry("local_stp_add_changed_request_msg", new),
                               Entry("local_stp_delete_request_msg", old)})]
        PROVE  r \in pending[x]
    <3>1. r.type \notin {"local_stp_add_changed_request_msg",
                         "local_stp_delete_request_msg"}
      BY DEF ReqType
    <3>2. r \notin Routable(n, {Entry("local_stp_add_changed_request_msg", new),
                                Entry("local_stp_delete_request_msg", old)})
      BY <3>1 DEF Routable, Entry
    <3> QED
      BY <2>2, <3>2 DEF TypeOK
  <2> QED
    BY <1>1, <2>1, <2>2
<1> QED
  BY <1>1, <1>2, <1>3, <1>4, <1>5, <1>6 DEF Claim, Asks

LEMMA LockGrantExclusive ==
  ASSUME TypeOK, Exclusive, NEW n \in Node, NEW s \in Node,
         ProcessLocalLockGrant(n, s)
  PROVE  Exclusive'
<1>1. \A a, b \in Node : Grants(a, b)' => Grants(a, b)
  BY GrantHandlerModest, ModestHandler
<1>2. \A a, b \in Node : Claim(a, b)' => Claim(a, b)
  BY <1>1, LockGrantClaims DEF Claim, AsksNoMore
<1> QED
  BY <1>2, FewerClaims

\* The other handlers.
OtherHandler(n, s) ==
  \/ ReceiveFromStranger(n, s) \/ GrantTooLate(n, s)
  \/ ProcessLocalLockDeny(n, s) \/ ProcessLocalStpRefused(n, s)
  \/ ProcessLocalStpDeleteRequest(n, s) \/ ProcessLocalStpDeleted(n, s)
  \/ AddedChangedTooLate(n, s) \/ ProcessStpArcDelete(n, s)
  \/ ProcessStpBeaconNak(n, s) \/ ProcessLocalStpAddRequest(n, s)
  \/ ProcessLocalStpAdded(n, s) \/ ProcessLocalStpAddedChanged(n, s)
  \/ ProcessStpBeacon(n, s)

LEMMA OtherHandlerGivesUp ==
  ASSUME TypeOK, NEW n \in Node, NEW s \in Node, OtherHandler(n, s)
  PROVE  GivesUp(n) /\ AsksNoMore
<1>1. CASE \/ ReceiveFromStranger(n, s) \/ GrantTooLate(n, s)
           \/ ProcessLocalStpDeleteRequest(n, s) \/ ProcessStpArcDelete(n, s)
           \/ ProcessStpBeacon(n, s) \/ ProcessStpBeaconNak(n, s)
  <2>1. UNCHANGED <<pending, owned>>
    BY <1>1 DEF ReceiveFromStranger, GrantTooLate, ProcessLocalStpDeleteRequest,
       ProcessStpArcDelete, ProcessStpBeacon, ProcessStpBeaconNak, locks
  <2> QED
    BY <2>1, PendingShrinks DEF GivesUp
<1>2. CASE \/ ProcessLocalLockDeny(n, s) \/ ProcessLocalStpRefused(n, s)
           \/ AddedChangedTooLate(n, s)
  <2>1. ClearStpUpdateState(n)
    BY <1>2 DEF ProcessLocalLockDeny, ProcessLocalStpRefused,
       AddedChangedTooLate, ToNominalState
  <2>2. \A m \in Node : pending'[m] \subseteq pending[m]
    BY <2>1 DEF ClearStpUpdateState, TypeOK
  <2> QED
    BY <2>1, <2>2, PendingShrinks DEF GivesUp, ClearStpUpdateState, TypeOK
<1>3. CASE ProcessLocalStpAddRequest(n, s) \/ ProcessLocalStpDeleted(n, s)
  <2>1. UNCHANGED owned /\ \A m \in Node : pending'[m] \subseteq pending[m]
    <3>1. CASE ProcessLocalStpAddRequest(n, s)
      BY <3>1 DEF ProcessLocalStpAddRequest, TypeOK
    <3>2. CASE ProcessLocalStpDeleted(n, s)
      BY <3>2 DEF ProcessLocalStpDeleted, TypeOK
    <3> QED
      BY <1>3, <3>1, <3>2
  <2> QED
    BY <2>1, PendingShrinks DEF GivesUp
<1>4. CASE ProcessLocalStpAdded(n, s)
  <2>1. UNCHANGED owned
    BY <1>4 DEF ProcessLocalStpAdded
  <2>2. \/ UNCHANGED pending
        \/ pending' = [pending EXCEPT
                         ![n] = @ \ {Entry("local_stp_add_request_msg", s)}]
    BY <1>4 DEF ProcessLocalStpAdded
  <2>3. \A m \in Node : pending'[m] \subseteq pending[m]
    BY <2>2 DEF TypeOK
  <2> QED
    BY <2>1, <2>3, PendingShrinks DEF GivesUp
<1>5. CASE ProcessLocalStpAddedChanged(n, s)
  <2>1. PICK gone :
          /\ owned' = [owned EXCEPT ![n] = @ \ gone]
          /\ pending' = [pending EXCEPT ![n] =
               pending[n] \ {Entry("local_stp_add_changed_request_msg", s)}]
    BY <1>5 DEF ProcessLocalStpAddedChanged
  <2>2. \A m \in Node : pending'[m] \subseteq pending[m]
    BY <2>1 DEF TypeOK
  <2> QED
    BY <2>1, <2>2, PendingShrinks DEF GivesUp, TypeOK
<1> QED
  BY <1>1, <1>2, <1>3, <1>4, <1>5 DEF OtherHandler

LEMMA OtherHandlerExclusive ==
  ASSUME TypeOK, Exclusive, NEW n \in Node, NEW s \in Node, OtherHandler(n, s)
  PROVE  Exclusive'
<1>1. AnswersModestly(n, s)
  BY QuietHandlers, AddRequestModest, AddedModest, BeaconHandlerModest
     DEF OtherHandler
<1> QED
  BY <1>1, ModestHandler, OtherHandlerGivesUp, Fading

\* What a round sends is requests and beacons.
LEMMA RoundGrants ==
  ASSUME TypeOK, NEW n \in Node, NEW p, NEW g, NEW o, NEW v, NEW ask,
         NEW ahead \in Modest, NEW behind \in Modest, NEW kinds,
         Round(n, p, g, o, v, ask, ahead, behind, kinds)
  PROVE  \A a, b \in Node : Grants(a, b)' => Grants(a, b)
<1>1. PICK skip : Emit(n, ahead ++ SendBeacon(n, v, stp[n] \ skip, n) ++ behind)
  BY DEF Round
<1>2. stp[n] \ skip \in SUBSET Node
  BY DEF TypeOK
<1>3. SendBeacon(n, v, stp[n] \ skip, n) \in Modest
  BY <1>2, SendBeaconModest
<1>4. ahead ++ SendBeacon(n, v, stp[n] \ skip, n) \in Modest
  BY <1>3, BesideModest
<1>5. ahead ++ SendBeacon(n, v, stp[n] \ skip, n) ++ behind \in Modest
  BY <1>4, BesideModest
<1> QED
  BY <1>1, <1>5, EmitGrants DEF TypeOK

LEMMA RoundGivesUp ==
  ASSUME TypeOK, NEW n \in Node, NEW p, NEW g, NEW o \in SUBSET owned[n], NEW v,
         NEW ask, NEW ahead, NEW behind, NEW kinds,
         Round(n, p, g, o, v, ask, ahead, behind, kinds)
  PROVE  GivesUp(n)
BY DEF Round, GivesUp, TypeOK

LEMMA MaintQuietExclusive ==
  ASSUME TypeOK, Exclusive, NEW n \in Node, MaintQuiet(n)
  PROVE  Exclusive' /\ GivesUp(n)
<1>1. PICK p \in SUBSET pending[n], g \in SUBSET granted[n],
           o \in SUBSET owned[n], kept \in SUBSET Heard(n) :
        Round(n, p, g, o, TimeoutStpRecvBeacons(n, kept), {}, Silence, Silence, {})
  BY ZenonT(60) DEF MaintQuiet
<1>2. \A m \in Node : pending'[m] \subseteq pending[m]
  BY <1>1 DEF Round, TypeOK
<1>3. \A a, b \in Node : Grants(a, b)' => Grants(a, b)
  BY <1>1, SilenceModest, RoundGrants
<1>4. GivesUp(n)
  BY <1>1, RoundGivesUp
<1> QED
  BY <1>2, <1>3, <1>4, PendingShrinks, Fading

LEMMA MaintConnectExclusive ==
  ASSUME TypeOK, Exclusive, NEW n \in Node, MaintConnect(n)
  PROVE  Exclusive' /\ GivesUp(n)
<1>0. PICK p \in SUBSET pending[n], g \in SUBSET granted[n],
           o \in SUBSET owned[n], kept \in SUBSET Heard(n), new \in nbr[n] \ stp[n] :
        Round(n, p, g, o, TimeoutStpRecvBeacons(n, kept),
              {Entry("local_stp_add_request_msg", new)},
              Send(n, TimeoutStpRecvBeacons(n, kept),
                   Message("local_stp_add_request_msg", new)), Silence,
              {"connect"})
  BY ZenonT(60) DEF MaintConnect
<1>1. PICK v :
        Round(n, p, g, o, v, {Entry("local_stp_add_request_msg", new)},
              Send(n, v, Message("local_stp_add_request_msg", new)), Silence,
              {"connect"})
  BY <1>0
<1>2. Send(n, v, Message("local_stp_add_request_msg", new)) \in Modest
  <2>1. new \in Node
    BY DEF TypeOK
  <2> QED
    BY <2>1, ReplyModest DEF MsgType, PendType, Grant
<1>3. pending' = [pending EXCEPT
                    ![n] = p \cup {Entry("local_stp_add_request_msg", new)}]
  BY <1>1 DEF Round
<1>4. AsksNoMore
  <2> SUFFICES ASSUME NEW x \in Node, NEW m \in Node, NEW r \in pending'[x],
                      r.node = m, r.type \in ReqType
               PROVE  r \in pending[x]
    BY DEF AsksNoMore, Asks
  <2>1. r # Entry("local_stp_add_request_msg", new)
    BY DEF Entry, ReqType
  <2> QED
    BY <1>3, <2>1 DEF TypeOK
<1>5. \A a, b \in Node : Grants(a, b)' => Grants(a, b)
  BY <1>1, <1>2, SilenceModest, RoundGrants
<1>6. GivesUp(n)
  BY <1>1, RoundGivesUp
<1> QED
  BY <1>4, <1>5, <1>6, Fading

\* The one step that asks for locks: no old grant is on its way.
LEMMA MaintImproveExclusive ==
  ASSUME Timely, TypeOK, Exclusive, NEW n \in Node, MaintImprove(n)
  PROVE  Exclusive' /\ GivesUp(n)
<1>1. PICK p \in SUBSET pending[n], g \in SUBSET granted[n],
           o \in SUBSET owned[n], kept \in SUBSET Heard(n), new \in nbr[n] :
        LET v   == TimeoutStpRecvBeacons(n, kept)
            old == v[new]
        IN  /\ TimeoutLockables(n, p, g, o)
            /\ ~Doing(p, g, o)
            /\ Timely => ~Outstanding(n)
            /\ old \in stp[n] \cap nbr[n]
            /\ Round(n, p, g, o, v,
                     {Entry("local_lock_req_old_msg", old),
                      Entry("local_lock_req_new_msg", new)}, Silence,
                     Send(n, v, Message("local_lock_req_old_msg", old)) ++
                     Send(n, v, Message("local_lock_req_new_msg", new)),
                     {"improve"})
            /\ old \in stp'[n] /\ new \notin stp'[n]
  BY ZenonT(60) DEF MaintImprove
<1> DEFINE v   == TimeoutStpRecvBeacons(n, kept)
           old == v[new]
           ask == {Entry("local_lock_req_old_msg", old),
                   Entry("local_lock_req_new_msg", new)}
           out == Send(n, v, Message("local_lock_req_old_msg", old)) ++
                  Send(n, v, Message("local_lock_req_new_msg", new))
<1>2. /\ p = {} /\ o = {} /\ ~Outstanding(n)
      /\ old \in Node /\ new \in Node
      /\ Round(n, p, g, o, v, ask, Silence, out, {"improve"})
  BY <1>1 DEF Doing, TypeOK
<1> HIDE DEF old, v
<1>3. out \in Modest
  <2>1. /\ Send(n, v, Message("local_lock_req_old_msg", old)) \in Modest
        /\ Send(n, v, Message("local_lock_req_new_msg", new)) \in Modest
    BY <1>2, ReplyModest DEF MsgType, PendType, ReqType, Grant
  <2> QED
    BY <2>1, BesideModest
<1> HIDE DEF out, ask
<1>4. \A a, b \in Node : Grants(a, b)' => Grants(a, b)
  BY <1>2, <1>3, SilenceModest, RoundGrants
<1>5. GivesUp(n) /\ pending' = [pending EXCEPT ![n] = p \cup ask]
  BY <1>2, RoundGivesUp DEF Round
<1>6. \A b \in Node : ~Grants(b, n)
  BY <1>2 DEF Outstanding, Grants, Grant, Answers
<1>7. \A b \in Node : ~Grants(b, n)'
  BY <1>4, <1>6
<1>8. \A a \in Node \ {n}, b \in Node : Asks(a, b)' => Asks(a, b)
  BY <1>5 DEF Asks, TypeOK
<1>9. \A a, b \in Node : Claim(a, b)' => Claim(a, b)
  <2> SUFFICES ASSUME NEW a \in Node, NEW b \in Node, Claim(a, b)'
               PROVE  Claim(a, b)
    OBVIOUS
  <2>1. Owners(a)' \subseteq Owners(a)
    BY <1>5, GivingUp
  <2>2. CASE a = n
    BY <1>7, <2>1, <2>2 DEF Claim
  <2>3. CASE a # n
    BY <1>4, <1>8, <2>1, <2>3 DEF Claim
  <2> QED
    BY <2>2, <2>3
<1> QED
  BY <1>5, <1>9, FewerClaims

LEMMA EventExclusive ==
  ASSUME TypeOK, Exclusive, NEW n \in Node, NEW s \in Node,
         Lose(n, s) \/ CheckNbrDevices(n) \/ Restart(n)
  PROVE  Exclusive' /\ GivesUp(n)
<1>1. GivesUp(n) /\ \A m \in Node : pending'[m] \subseteq pending[m]
  <2>1. CASE UNCHANGED locks
    BY <2>1 DEF locks, GivesUp
  <2>2. CASE Restart(n)
    BY <2>2 DEF Restart, GivesUp, TypeOK
  <2> QED
    BY <2>1, <2>2 DEF Lose, CheckNbrDevices
<1>2. \A a, b \in Node : Grants(a, b)' => Grants(a, b)
  <2> SUFFICES ASSUME NEW a \in Node, NEW b \in Node, Grants(a, b)'
               PROVE  Grants(a, b)
    OBVIOUS
  <2>1. <<a, b>> \in Chan /\ net[<<a, b>>] \in Seq(Frames)
    BY DEF Chan, TypeOK
  <2>2. CASE net'[<<a, b>>] = net[<<a, b>>]
    BY <2>2 DEF Grants
  <2>3. CASE net'[<<a, b>>] = <<>>
    BY <2>3 DEF Grants
  <2>4. CASE net[<<a, b>>] # <<>> /\ net'[<<a, b>>] = Tail(net[<<a, b>>])
    <3>1. PICK i \in DOMAIN net'[<<a, b>>] : net'[<<a, b>>][i].type = Grant
      BY DEF Grants
    <3>2. \E j \in DOMAIN net[<<a, b>>] : net[<<a, b>>][j] = net'[<<a, b>>][i]
      BY <2>1, <2>4, <3>1, TailFrames
    <3> QED
      BY <3>1, <3>2 DEF Grants
  <2>5. \/ net'[<<a, b>>] = net[<<a, b>>]
        \/ net'[<<a, b>>] = <<>>
        \/ net[<<a, b>>] # <<>> /\ net'[<<a, b>>] = Tail(net[<<a, b>>])
    BY <2>1 DEF Lose, CheckNbrDevices, Restart, TypeOK
  <2> QED
    BY <2>2, <2>3, <2>4, <2>5
<1> QED
  BY <1>1, <1>2, PendingShrinks, Fading

-----------------------------------------------------------------------------
(* The steps of ArcLock.                                                    *)

LEMMA GivesUpImplements ==
  ASSUME TypeOK, TypeOK', NEW n \in Node, GivesUp(n)
  PROVE  Locks!Next
<1> DEFINE gone == Owners(n) \ Owners(n)'
<1>0. Owners(n)' \subseteq Owners(n)
  BY GivingUp
<1>1. gone \in SUBSET Node /\ Owners(n)' = Owners(n) \ gone
  <2>1. Owners(n) \subseteq Node
    BY DEF Owners, TypeOK
  <2> QED
    BY <1>0, <2>1
<1>2. \A m \in Node \ {n} : Owners(m)' = Owners(m)
  BY DEF GivesUp, Owners
<1> HIDE DEF gone
<1>3. Locks!GiveBack(n, gone)
  BY <1>1, <1>2 DEF Locks!GiveBack
<1> QED
  BY <1>1, <1>3 DEF Locks!Next

LEMMA GrantImplements ==
  ASSUME TypeOK, Exclusive, NEW n \in Node, NEW s \in Node,
         ProcessLocalLockGrant(n, s)
  PROVE  Locks!Next
<1>1. /\ s # n /\ Claim(n, s)
      /\ Owners(n)' = Owners(n) \cup {s}
      /\ \A m \in Node \ {n} : Owners(m)' = Owners(m)
  BY LockGrantClaims
<1>2. n \notin Owners(s)
  BY <1>1 DEF Exclusive, Claim
<1>3. Locks!Take(n, s)
  BY <1>1, <1>2 DEF Locks!Take
<1> QED
  BY <1>1, <1>3 DEF Locks!Next

LEMMA NextExclusive ==
  ASSUME Timely, TypeOK, TypeOK', Exclusive, Next
  PROVE  Exclusive' /\ Locks!Next
<1>1. ASSUME NEW n \in Node, PostRepeatedCloudMaint(n)
      PROVE  Exclusive' /\ Locks!Next
  BY <1>1, MaintQuietExclusive, MaintConnectExclusive, MaintImproveExclusive,
     GivesUpImplements DEF PostRepeatedCloudMaint
<1>2. ASSUME NEW n \in Node, NEW s \in Node, ProcessCloudMessage(n, s)
      PROVE  Exclusive' /\ Locks!Next
  <2>1. CASE ProcessLocalLockReq(n, s)
    BY <2>1, LockReqExclusive, GivesUpImplements
  <2>2. CASE ProcessLocalLockGrant(n, s)
    BY <2>2, LockGrantExclusive, GrantImplements
  <2>3. CASE OtherHandler(n, s)
    BY <2>3, OtherHandlerExclusive, OtherHandlerGivesUp, GivesUpImplements
  <2> QED
    BY <1>2, <2>1, <2>2, <2>3 DEF ProcessCloudMessage, OtherHandler
<1>3. ASSUME NEW n \in Node, NEW s \in Node,
             Lose(n, s) \/ CheckNbrDevices(n) \/ Restart(n)
      PROVE  Exclusive' /\ Locks!Next
  BY <1>3, EventExclusive, GivesUpImplements
<1> QED
  BY <1>1, <1>2, <1>3 DEF Next

\* As long as answers come while the attempt they belong to lives, the messages
\* of the lock protocol, with denials, timeouts, losses, restarts and boxes that
\* come and go, implement one lock per arc, taken in a single step and only if
\* the other end does not have it.
THEOREM LocksImplemented == Timely => (Spec => LocksSpec)
<1> SUFFICES ASSUME Timely PROVE Spec => LocksSpec
  OBVIOUS
<1>1. Init => TypeOK /\ Exclusive /\ Locks!Init
  <2> SUFFICES ASSUME Init PROVE Exclusive /\ Locks!Init
    BY InitType
  <2>1. \A n \in Node : Owners(n) = {} /\ pending[n] = {}
    BY DEF Init, Owners
  <2> QED
    BY <2>1 DEF Exclusive, Claim, Asks, Locks!Init
<1>2. TypeOK /\ Exclusive /\ [Next]_vars
        => /\ (TypeOK /\ Exclusive)'
           /\ [Locks!Next]_([n \in Node |-> Owners(n)])
  <2> SUFFICES ASSUME TypeOK, Exclusive, [Next]_vars
               PROVE  /\ (TypeOK /\ Exclusive)'
                      /\ [Locks!Next]_([n \in Node |-> Owners(n)])
    OBVIOUS
  <2>1. TypeOK'
    BY NextType
  <2>2. CASE Next
    BY <2>1, <2>2, NextExclusive
  <2>3. CASE UNCHANGED vars
    BY <2>1, <2>3 DEF vars, locks, Exclusive, Claim, Asks, Grants, Owners
  <2> QED
    BY <2>2, <2>3
<1> QED
  BY <1>1, <1>2, PTL DEF Spec, LocksSpec, Locks!Spec

=============================================================================
