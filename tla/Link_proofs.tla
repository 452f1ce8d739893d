------------------------------ MODULE Link_proofs ------------------------------
(* What holds of Link on every tree, for every packet and every width of    *)
(* the sequence numbers; and how frames lost are counted, and that nothing  *)
(* is missing when all is read, on trees.                                   *)
EXTENDS Link, SequenceTheorems, FiniteSetTheorems, TLAPS

LEMMA NumberIsNatural ==
  0 \in Number /\ \A x \in Number : x \in Nat
BY ConstAssumption DEF Number

LEMMA Wraps == \A x \in Nat : x % W \in Number
BY ConstAssumption DEF Number

LEMMA WidthIsPositive == W \in Nat /\ W > 0
BY ConstAssumption

LEMMA InitOK == Init => TypeOK /\ TimerCovers
<1> SUFFICES ASSUME Init PROVE TypeOK /\ TimerCovers
  OBVIOUS
<1>1. scenario \in Scenario
  BY ScenarioAssumption DEF Init
<1>2. /\ nbr \in [Box -> SUBSET Box]
      /\ \A i, j \in Box : j \in nbr[i] => j # i /\ i \in nbr[j]
      /\ scenario.todo \in [Box -> Seq(Packet)]
      /\ scenario.num \in Number /\ scenario.losses \in Nat /\ scenario.late \in Nat
  BY <1>1 DEF Scenario, nbr
<1>3. TypeOK
  <2>1. todo \in [Box -> Seq(Packet)] /\ losses \in Nat /\ late \in Nat
        /\ sendData \in [Links -> Number]
    BY <1>2 DEF Init
  <2>2. chan \in [Links -> Seq(Frame)] /\ seen \in [Box -> Seq(Message)]
    BY DEF Init
  <2>3. /\ ready \in [Box -> SUBSET (Box \cup {Client})]
        /\ sendSequence \in [Links -> Number]
        /\ awaitingAck \in [Links -> BOOLEAN]
        /\ messageLen \in [Links -> 0 .. 2]
        /\ recvSequence \in [Links -> Number]
        /\ recvSequenceError \in [Links -> 0 .. MAX_SEQUENCE_ERROR]
        /\ receivedDuplicate \in [Links -> BOOLEAN]
        /\ expectSeq \in [Links -> BOOLEAN]
        /\ recvMessageLen \in [Links -> 0 .. 2]
        /\ ackTimer \in [Box -> BOOLEAN]
    BY NumberIsNatural, ConstAssumption DEF Init
  <2>4. /\ held \in [Links -> Message \cup {None}]
        /\ lastData \in [Links -> Number \cup {None}]
        /\ firstData \in [Links -> Number \cup {None}]
        /\ received \in [Links -> Nat]
        /\ missed \in [Links -> Nat]
        /\ lost \in [Links -> Nat]
        /\ overlap \in BOOLEAN
    BY DEF Init
  <2> QED BY <1>1, <2>1, <2>2, <2>3, <2>4 DEF TypeOK
<1>4. \A i \in Box : ~AwaitingAck(i)
  BY <1>2 DEF Init, AwaitingAck, Links
<1> QED BY <1>3, <1>4 DEF TimerCovers

(* Joining three stretches of frames gives the same whichever two are first. *)
LEMMA JoinIsAssociative ==
  ASSUME NEW x \in Seq(Frame), NEW y \in Seq(Frame), NEW z \in Seq(Frame)
  PROVE  (x \o y) \o z = x \o (y \o z)
BY ConcatAssociative

(* What the frames sent for one packet are.                                 *)
LEMMA SentFrames ==
  ASSUME NEW l \in Links, NEW m \in Message, TypeOK
  PROVE  /\ SendSeq(l, m) \in Seq(Frame)
         /\ SendMessage(sendData[l], m) \in Seq(Frame)
         /\ Length(m) \in 1 .. 2
         /\ (sendData[l] + Length(m)) % W \in Number
<1>1. Length(m) \in 1 .. 2
  BY DEF Length
<1>2. sendData[l] \in Number /\ sendSequence[l] \in Number
  BY DEF TypeOK
<1>3. Next1(sendData[l]) \in Number
  <2>0. sendData[l] \in Nat
    BY <1>2, NumberIsNatural
  <2>1. sendData[l] + 1 \in Nat
    BY <2>0
  <2> QED BY <2>1, Wraps, Zenon DEF Next1
<1>4. [kind |-> "seq", num |-> sendSequence[l], len |-> Length(m)] \in Frame
  BY <1>1, <1>2 DEF Frame
<1>5. \A k \in 1 .. 2, n \in 1 .. 2, num \in Number :
        [kind |-> "data", m |-> m, k |-> k, n |-> n, num |-> num] \in Frame
  BY DEF Frame
<1>6. SendSeq(l, m) \in Seq(Frame)
  BY <1>4 DEF SendSeq
<1>7. SendMessage(sendData[l], m) \in Seq(Frame)
  BY <1>2, <1>3, <1>5 DEF SendMessage
<1>8. (sendData[l] + Length(m)) % W \in Number
  <2>0. sendData[l] \in Nat
    BY <1>2, NumberIsNatural
  <2>1. sendData[l] + Length(m) \in Nat
    BY <1>1, <2>0
  <2> QED BY <2>1, Wraps, Zenon
<1> QED BY <1>1, <1>6, <1>7, <1>8

(* Forwarding keeps the fields it changes in their sets, and the timer of   *)
(* the box on for every link it makes await an acknowledgement.             *)
LEMMA ForwardOK ==
  ASSUME NEW i \in Box, NEW from \in Box \cup {Client}, NEW m \in Message,
         NEW sent \in [Links -> Seq(Frame)],
         TypeOK, TimerCovers, scenario' = scenario,
         Forward(i, from, m, sent)
  PROVE  /\ chan' \in [Links -> Seq(Frame)]
         /\ sendData' \in [Links -> Number]
         /\ awaitingAck' \in [Links -> BOOLEAN]
         /\ messageLen' \in [Links -> 0 .. 2]
         /\ ackTimer' \in [Box -> BOOLEAN]
         /\ overlap' \in BOOLEAN
         /\ seen' \in [Box -> Seq(Message)]
         /\ TimerCovers'
<1> DEFINE out == {l \in Links : l[1] = i /\ l[2] \in Receivers(i, from)}
<1>1. \A l \in Links : sent[l] \in Seq(Frame)
  OBVIOUS
<1>2. \A l \in Links : sent[l] \o SendSeq(l, m) \o SendMessage(sendData[l], m)
                         \in Seq(Frame)
  BY <1>1, SentFrames
<1>3. chan' \in [Links -> Seq(Frame)]
  BY <1>1, <1>2 DEF Forward
<1>4. sendData' \in [Links -> Number]
  <2>1. \A l \in Links : /\ sendData[l] \in Number
                         /\ (sendData[l] + Length(m)) % W \in Number
    BY SentFrames DEF TypeOK
  <2>2. sendData' = [l \in Links |-> IF l \in out THEN (sendData[l] + Length(m)) % W
                                     ELSE sendData[l]]
    BY Zenon DEF Forward
  <2> DEFINE next(l) == (sendData[l] + Length(m)) % W
  <2>3. \A l \in Links : sendData[l] \in Number /\ next(l) \in Number
    BY <2>1
  <2>4. sendData' = [l \in Links |-> IF l \in out THEN next(l) ELSE sendData[l]]
    BY <2>2
  <2> HIDE DEF next
  <2> QED BY <2>3, <2>4
<1>5. awaitingAck' \in [Links -> BOOLEAN] /\ flow \in BOOLEAN
  BY DEF Forward, TypeOK, Scenario, flow
<1>6. messageLen' \in [Links -> 0 .. 2]
  <2>1. Length(m) \in 0 .. 2
    BY DEF Length
  <2> QED BY <2>1 DEF Forward, TypeOK
<1>7. ackTimer' \in [Box -> BOOLEAN]
  BY DEF Forward, TypeOK
<1>8. overlap' \in BOOLEAN /\ seen' \in [Box -> Seq(Message)]
  BY DEF Forward, TypeOK
<1>9. TimerCovers'
  <2> SUFFICES ASSUME NEW k \in Box, NEW j \in nbr[k], awaitingAck'[<<k, j>>]
               PROVE  ackTimer'[k]
    BY DEF TimerCovers, AwaitingAck, nbr
  <2>1. <<k, j>> \in Links
    BY DEF TypeOK, Links, Scenario, nbr
  <2>2. awaitingAck[<<k, j>>] \/ (flow /\ <<k, j>> \in out)
    BY <2>1 DEF Forward
  <2>3. CASE awaitingAck[<<k, j>>]
    <3>1. ackTimer[k]
      BY <2>3 DEF TimerCovers, AwaitingAck
    <3> QED BY <3>1 DEF Forward, TypeOK
  <2>4. CASE flow /\ <<k, j>> \in out
    <3>1. k = i /\ out # {}
      BY <2>4
    <3> QED BY <2>4, <3>1 DEF Forward, TypeOK
  <2> QED BY <2>2, <2>3, <2>4
<1> QED BY <1>3, <1>4, <1>5, <1>6, <1>7, <1>8, <1>9

-----------------------------------------------------------------------------
(* Every step keeps the types and the timer.                                *)
Kept == TypeOK /\ TimerCovers

(* A step that awaits nothing new and turns off no timer.                   *)
LEMMA TimerKept ==
  ASSUME TimerCovers, TypeOK, scenario' = scenario,
         awaitingAck' = awaitingAck, ackTimer' = ackTimer
  PROVE  TimerCovers'
BY DEF TimerCovers, AwaitingAck, nbr

LEMMA HeadAndTail ==
  ASSUME NEW l \in Links, TypeOK, chan[l] # <<>>
  PROVE  /\ Head(chan[l]) \in Frame
         /\ [chan EXCEPT ![l] = Tail(@)] \in [Links -> Seq(Frame)]
<1>1. chan[l] \in Seq(Frame) /\ chan \in [Links -> Seq(Frame)]
  BY DEF TypeOK
<1>2. Head(chan[l]) \in Frame /\ Tail(chan[l]) \in Seq(Frame)
  BY <1>1
<1> QED BY <1>1, <1>2

LEMMA NeighborLinks ==
  ASSUME TypeOK, NEW i \in Box, NEW j \in nbr[i]
  PROVE  /\ j \in Box /\ i \in nbr[j]
         /\ <<i, j>> \in Links /\ <<j, i>> \in Links
BY DEF TypeOK, Links, Scenario, nbr

LEMMA NextIsNumber == \A x \in Number : Next1(x) \in Number
<1> SUFFICES ASSUME NEW x \in Number PROVE Next1(x) \in Number
  OBVIOUS
<1>1. x \in Nat
  BY NumberIsNatural
<1>2. x + 1 \in Nat
  BY <1>1
<1> QED BY <1>2, Wraps, Zenon DEF Next1

LEMMA SelectKeeps == ASSUME Kept, NEW i \in Box, Select(i) PROVE Kept'
<1>1. ReadSet(i) \subseteq Box \cup {Client}
  BY DEF ReadSet, Kept, TypeOK, Scenario, nbr
<1>2. TypeOK'
  BY <1>1 DEF Select, Kept, TypeOK, flowVars, tallyVars
<1>3. TimerCovers'
  BY TimerKept DEF Select, Kept, flowVars
<1> QED BY <1>2, <1>3 DEF Kept

LEMMA ReadKeeps ==
  ASSUME TypeOK, NEW i \in Box, NEW d \in Box \cup {Client}, Read(i, d)
  PROVE  ready' \in [Box -> SUBSET (Box \cup {Client})]
BY DEF Read, TypeOK

LEMMA FromClientKeeps == ASSUME Kept, NEW i \in Box, FromClient(i) PROVE Kept'
<1> DEFINE m == Whole(Head(todo[i]))
<1>1. /\ Forward(i, Client, m, chan) /\ scenario' = scenario
      /\ todo' = [todo EXCEPT ![i] = Tail(@)]
      /\ Read(i, Client)
      /\ TypeOK /\ TimerCovers
  BY DEF FromClient, Kept
<1>2. Client \notin Box /\ todo[i] # <<>> /\ todo[i] \in Seq(Packet)
  BY <1>1, ConstAssumption DEF Read, HasInput, TypeOK
<1>3. Head(todo[i]) \in Packet /\ Tail(todo[i]) \in Seq(Packet)
  BY <1>2
<1>4. m \in Message /\ todo' \in [Box -> Seq(Packet)]
  BY <1>1, <1>3 DEF Whole, Message, TypeOK
<1>5. chan \in [Links -> Seq(Frame)]
  BY <1>1 DEF TypeOK
<1>6. /\ chan' \in [Links -> Seq(Frame)]
      /\ sendData' \in [Links -> Number]
      /\ awaitingAck' \in [Links -> BOOLEAN]
      /\ messageLen' \in [Links -> 0 .. 2]
      /\ ackTimer' \in [Box -> BOOLEAN]
      /\ overlap' \in BOOLEAN
      /\ seen' \in [Box -> Seq(Message)]
      /\ TimerCovers'
  <2> HIDE DEF m
  <2> QED BY <1>1, <1>4, <1>5, ForwardOK
<1>7. ready' \in [Box -> SUBSET (Box \cup {Client})]
  BY <1>1, ReadKeeps
<1> HIDE DEF m
<1>8. TypeOK'
  BY <1>1, <1>4, <1>6, <1>7 DEF FromClient, TypeOK, tallyVars
<1> QED BY <1>6, <1>8 DEF Kept

LEMMA FromSeqKeeps ==
  ASSUME Kept, NEW i \in Box, NEW j \in nbr[i], FromSeq(i, j)
  PROVE  Kept'
<1> DEFINE l == <<j, i>>
           f == Head(chan[l])
<1>1. TypeOK /\ TimerCovers /\ l \in Links /\ j \in Box
  BY NeighborLinks DEF Kept
<1>2. chan[l] # <<>> /\ Read(i, j) /\ f.kind = "seq"
  BY <1>1, ConstAssumption DEF FromSeq, Read, HasInput
<1>3. f \in Frame /\ chan' \in [Links -> Seq(Frame)]
  BY <1>1, <1>2, HeadAndTail DEF FromSeq
<1>4. f.num \in Number /\ f.len \in 0 .. 2
  BY <1>2, <1>3 DEF Frame
<1>5. ready' \in [Box -> SUBSET (Box \cup {Client})]
  BY <1>1, <1>2, ReadKeeps
<1> HIDE DEF f
<1>6. /\ recvSequence' \in [Links -> Number]
      /\ recvSequenceError' \in [Links -> 0 .. MAX_SEQUENCE_ERROR]
      /\ receivedDuplicate' \in [Links -> BOOLEAN]
      /\ expectSeq' \in [Links -> BOOLEAN]
      /\ recvMessageLen' \in [Links -> 0 .. 2]
  <2>1. CASE ~expectSeq[l]
    BY <1>1, <2>1 DEF FromSeq, TypeOK
  <2>2. CASE expectSeq[l]
    <3> DEFINE dup == recvSequence[l] = Next1(f.num)
               bad == ~dup /\ recvSequence[l] # f.num
               refused == Refused(l, bad)
    <3>1. /\ receivedDuplicate' = [receivedDuplicate EXCEPT ![l] = @ \/ dup]
          /\ recvSequenceError' =
               [recvSequenceError EXCEPT
                  ![l] = IF refused THEN @ + 1
                         ELSE IF dup \/ bad THEN @ ELSE 0]
          /\ recvSequence' = [recvSequence EXCEPT
                                ![l] = IF bad /\ ~refused THEN f.num ELSE @]
          /\ expectSeq' = [expectSeq EXCEPT ![l] = refused]
          /\ recvMessageLen' = [recvMessageLen EXCEPT
                                  ![l] = IF refused THEN @ ELSE f.len]
      BY <2>2 DEF FromSeq, f
    <3>2. recvSequenceError[l] \in 0 .. MAX_SEQUENCE_ERROR /\ MAX_SEQUENCE_ERROR \in Nat
      BY <1>1, ConstAssumption DEF TypeOK
    <3>3. (IF refused THEN recvSequenceError[l] + 1
           ELSE IF dup \/ bad THEN recvSequenceError[l] ELSE 0) \in 0 .. MAX_SEQUENCE_ERROR
      <4> DEFINE e == recvSequenceError[l]
      <4>1. e < MAX_SEQUENCE_ERROR => e + 1 \in 0 .. MAX_SEQUENCE_ERROR
        BY <3>2
      <4> QED BY <3>2, <4>1 DEF Refused
    <3>4. recvSequenceError' \in [Links -> 0 .. MAX_SEQUENCE_ERROR]
      BY <1>1, <3>1, <3>3 DEF TypeOK
    <3>5. refused \in BOOLEAN /\ dup \in BOOLEAN
      BY DEF Refused
    <3> HIDE DEF refused, bad, dup
    <3>6. /\ recvSequence' \in [Links -> Number]
          /\ receivedDuplicate' \in [Links -> BOOLEAN]
          /\ expectSeq' \in [Links -> BOOLEAN]
      BY <1>1, <1>4, <3>1, <3>5 DEF TypeOK
    <3>7. recvMessageLen' \in [Links -> 0 .. 2]
      BY <1>1, <1>4, <3>1 DEF TypeOK
    <3> QED BY <3>4, <3>6, <3>7
  <2> QED BY <2>1, <2>2
<1>7. TypeOK'
  BY <1>1, <1>3, <1>5, <1>6 DEF FromSeq, TypeOK, tallyVars
<1>8. TimerCovers'
  BY <1>1, TimerKept DEF FromSeq
<1> QED BY <1>7, <1>8 DEF Kept

LEMMA FromAckKeeps ==
  ASSUME Kept, NEW i \in Box, NEW j \in nbr[i], FromAck(i, j)
  PROVE  Kept'
<1> DEFINE l == <<i, j>>
<1>1. /\ TypeOK /\ TimerCovers /\ l \in Links /\ <<j, i>> \in Links /\ j \in Box
      /\ scenario' = scenario
  BY NeighborLinks DEF Kept, FromAck
<1>2. chan[<<j, i>>] # <<>> /\ Read(i, j)
  BY <1>1, ConstAssumption DEF FromAck, Read, HasInput
<1>3. chan' \in [Links -> Seq(Frame)]
  BY <1>1, <1>2, HeadAndTail DEF FromAck
<1>4. ready' \in [Box -> SUBSET (Box \cup {Client})]
  BY <1>1, <1>2, ReadKeeps
<1>5. sendSequence' \in [Links -> Number]
  BY <1>1, NextIsNumber DEF FromAck, TypeOK
<1>6. /\ awaitingAck' = [awaitingAck EXCEPT ![l] = FALSE]
      /\ ackTimer' = [ackTimer EXCEPT
                        ![i] = @ /\ \E k \in nbr[i] : awaitingAck'[<<i, k>>]]
  BY DEF FromAck, TurnOffAckTimer
<1>7. awaitingAck' \in [Links -> BOOLEAN] /\ ackTimer' \in [Box -> BOOLEAN]
  BY <1>1, <1>6 DEF TypeOK
<1>8. TypeOK'
  BY <1>1, <1>3, <1>4, <1>5, <1>7 DEF FromAck, TypeOK, tallyVars
<1>9. TimerCovers'
  <2> SUFFICES ASSUME NEW k \in Box, NEW h \in nbr[k], awaitingAck'[<<k, h>>]
               PROVE  ackTimer'[k]
    BY <1>1 DEF TimerCovers, AwaitingAck, nbr
  <2>1. awaitingAck[<<k, h>>]
    BY <1>1, <1>6, NeighborLinks DEF TypeOK
  <2>2. ackTimer[k]
    BY <1>1, <2>1 DEF TimerCovers, AwaitingAck
  <2> QED BY <1>1, <1>6, <2>2 DEF TypeOK
<1> QED BY <1>8, <1>9 DEF Kept

(* What sequence_check counts stays a number of frames.                     *)
LEMMA TallyOK ==
  ASSUME TypeOK, NEW l \in Links, NEW num \in Number, Tally(l, num)
  PROVE  /\ received' \in [Links -> Nat]
         /\ missed' \in [Links -> Nat]
         /\ lastData' \in [Links -> Number \cup {None}]
         /\ firstData' \in [Links -> Number \cup {None}]
<1>1. received' \in [Links -> Nat]
  BY DEF Tally, TypeOK
<1>2. /\ lastData' \in [Links -> Number \cup {None}]
      /\ firstData' \in [Links -> Number \cup {None}]
  BY DEF Tally, TypeOK
<1> DEFINE gap == (num + W - lastData[l]) % W
<1>3. lastData[l] # None => gap \in Nat
  <2> SUFFICES ASSUME lastData[l] # None PROVE gap \in Nat
    OBVIOUS
  <2>1. lastData[l] \in Number /\ num \in 0 .. W - 1 /\ lastData[l] \in 0 .. W - 1
    BY DEF TypeOK, Number
  <2>2. num + W - lastData[l] \in Nat
    BY <2>1, WidthIsPositive
  <2>3. gap \in Number
    BY <2>2, Wraps, Zenon
  <2> QED BY <2>3, NumberIsNatural
<1>4. missed' = [missed EXCEPT
                   ![l] = IF lastData[l] = None \/ num = Next1(lastData[l]) THEN @
                          ELSE @ + gap]
  BY DEF Tally
<1>5. missed' \in [Links -> Nat]
  <2> HIDE DEF gap
  <2> QED BY <1>3, <1>4 DEF TypeOK
<1> QED BY <1>1, <1>2, <1>5

LEMMA FromDataKeeps ==
  ASSUME Kept, NEW i \in Box, NEW j \in nbr[i], FromData(i, j)
  PROVE  Kept'
<1> DEFINE l    == <<j, i>>
           f    == Head(chan[l])
           rest == [chan EXCEPT ![l] = Tail(@)]
           done == Completed(held[l], f)
           ackd == \E m \in done : Acked(l, m)
           sent == IF ackd
                   THEN [rest EXCEPT ![<<i, j>>] =
                           Append(@, [kind |-> "ack", num |-> recvSequence[l]])]
                   ELSE rest
<1>1. /\ TypeOK /\ TimerCovers /\ l \in Links /\ <<i, j>> \in Links /\ j \in Box
      /\ scenario' = scenario
  BY NeighborLinks DEF Kept, FromData
<1>2. chan[l] # <<>> /\ Read(i, j) /\ f.kind = "data"
  BY <1>1, ConstAssumption DEF FromData, Read, HasInput
<1>3. f \in Frame /\ rest \in [Links -> Seq(Frame)]
  BY <1>1, <1>2, HeadAndTail
<1>4. f.num \in Number /\ f.m \in Message
  BY <1>2, <1>3 DEF Frame
<1>5. ready' \in [Box -> SUBSET (Box \cup {Client})]
  BY <1>1, <1>2, ReadKeeps
<1>6. held[l] \in Message \cup {None}
  BY <1>1 DEF TypeOK
<1>7. done \in SUBSET Message
  <2> HIDE DEF f
  <2> QED BY <1>4, <1>6 DEF Completed, Message
<1>8. HeldAfter(held[l], f) \in Message \cup {None}
  BY <1>4 DEF HeldAfter
<1>9. sent \in [Links -> Seq(Frame)]
  <2>1. recvSequence[l] \in Number
    BY <1>1 DEF TypeOK
  <2>2. [kind |-> "ack", num |-> recvSequence[l]] \in Frame
    BY <2>1 DEF Frame
  <2> HIDE DEF rest
  <2>3. rest[<<i, j>>] \in Seq(Frame)
    BY <1>1, <1>3
  <2>4. Append(rest[<<i, j>>], [kind |-> "ack", num |-> recvSequence[l]]) \in Seq(Frame)
    BY <2>2, <2>3
  <2> QED BY <1>1, <1>3, <2>4
<1>10. ackd \in BOOLEAN
  OBVIOUS
<1>11. /\ Tally(l, f.num)
       /\ held' = [held EXCEPT ![l] = HeldAfter(@, f)]
       /\ expectSeq' = [expectSeq EXCEPT ![l] = @ \/ ackd]
       /\ recvSequence' = [recvSequence EXCEPT
                             ![l] = IF ackd /\ ~receivedDuplicate[l] THEN Next1(@)
                                    ELSE @]
       /\ receivedDuplicate' = [receivedDuplicate EXCEPT ![l] = @ /\ ~ackd]
       /\ \/ \E m \in done : Forward(i, j, m, sent)
          \/ /\ chan' = sent
             /\ UNCHANGED <<sendData, awaitingAck, messageLen, ackTimer, overlap, seen>>
       /\ UNCHANGED <<scenario, todo, sendSequence, recvSequenceError,
                      recvMessageLen, losses, late, lost>>
  BY DEF FromData
<1> HIDE DEF sent, done, ackd, rest, f
<1>12. /\ chan' \in [Links -> Seq(Frame)]
       /\ sendData' \in [Links -> Number]
       /\ awaitingAck' \in [Links -> BOOLEAN]
       /\ messageLen' \in [Links -> 0 .. 2]
       /\ ackTimer' \in [Box -> BOOLEAN]
       /\ overlap' \in BOOLEAN
       /\ seen' \in [Box -> Seq(Message)]
       /\ TimerCovers'
  <2>1. CASE \E m \in done : Forward(i, j, m, sent)
    <3> PICK m \in done : Forward(i, j, m, sent)
      BY <2>1
    <3>1. m \in Message
      BY <1>7
    <3> QED BY <1>1, <1>9, <3>1, ForwardOK
  <2>2. CASE /\ chan' = sent
             /\ UNCHANGED <<sendData, awaitingAck, messageLen, ackTimer, overlap, seen>>
    BY <1>1, <1>9, <2>2, TimerKept DEF TypeOK
  <2> QED BY <1>11, <2>1, <2>2
<1>13. /\ held' \in [Links -> Message \cup {None}]
       /\ expectSeq' \in [Links -> BOOLEAN]
       /\ receivedDuplicate' \in [Links -> BOOLEAN]
  BY <1>1, <1>8, <1>10, <1>11 DEF TypeOK
<1>14. recvSequence' \in [Links -> Number]
  BY <1>1, <1>11, NextIsNumber DEF TypeOK
<1>15. /\ received' \in [Links -> Nat]
       /\ missed' \in [Links -> Nat]
       /\ lastData' \in [Links -> Number \cup {None}]
       /\ firstData' \in [Links -> Number \cup {None}]
  BY <1>1, <1>4, <1>11, TallyOK
<1>16. TypeOK'
  BY <1>1, <1>5, <1>11, <1>12, <1>13, <1>14, <1>15 DEF TypeOK
<1> QED BY <1>12, <1>16 DEF Kept

LEMMA TimeoutKeeps == ASSUME Kept, NEW i \in Box, Timeout(i) PROVE Kept'
<1>1. TypeOK /\ TimerCovers
  BY DEF Kept
<1>2. chan' \in [Links -> Seq(Frame)]
  <2> DEFINE again(l) == [kind |-> "seq", num |-> sendSequence[l], len |-> messageLen[l]]
  <2>1. \A l \in Links : chan[l] \in Seq(Frame)
    BY <1>1 DEF TypeOK
  <2>2. ASSUME NEW l \in Links, awaitingAck[l] PROVE again(l) \in Frame
    BY <1>1, <2>2 DEF TypeOK, Frame
  <2> QED BY <2>1, <2>2 DEF Timeout
<1>3. late' \in Nat
  BY <1>1 DEF Timeout, TypeOK
<1>4. TypeOK'
  BY <1>1, <1>2, <1>3 DEF Timeout, TypeOK, flowVars, tallyVars
<1>5. TimerCovers'
  BY <1>1, TimerKept DEF Timeout, flowVars
<1> QED BY <1>4, <1>5 DEF Kept

LEMMA LoseKeeps ==
  ASSUME Kept, NEW i \in Box, NEW j \in Box, j \in nbr[i], Lose(i, j)
  PROVE  Kept'
<1> DEFINE l == <<i, j>>
<1>1. TypeOK /\ TimerCovers /\ l \in Links
  BY NeighborLinks DEF Kept
<1>2. chan' \in [Links -> Seq(Frame)]
  BY <1>1, HeadAndTail DEF Lose
<1>3. losses' \in Nat /\ lost' \in [Links -> Nat]
  BY <1>1 DEF Lose, TypeOK
<1>4. TypeOK'
  BY <1>1, <1>2, <1>3 DEF Lose, TypeOK, flowVars, tallyVars
<1>5. TimerCovers'
  BY <1>1, TimerKept DEF Lose, flowVars
<1> QED BY <1>4, <1>5 DEF Kept

LEMMA NextKeeps == Kept /\ [Next]_vars => Kept'
<1> SUFFICES ASSUME Kept, [Next]_vars PROVE Kept'
  OBVIOUS
<1>1. ASSUME NEW i \in Box, Round(i) PROVE Kept'
  <2>1. CASE Select(i)
    BY <2>1, SelectKeeps
  <2>2. CASE FromClient(i)
    BY <2>2, FromClientKeeps
  <2>3. CASE \E j \in nbr[i] : FromSeq(i, j) \/ FromAck(i, j) \/ FromData(i, j)
    BY <2>3, FromSeqKeeps, FromAckKeeps, FromDataKeeps
  <2>4. CASE Timeout(i)
    BY <2>4, TimeoutKeeps
  <2> QED BY <1>1, <2>1, <2>2, <2>3, <2>4 DEF Round
<1>2. ASSUME NEW i \in Box, NEW j \in Box, j \in nbr[i], Lose(i, j) PROVE Kept'
  BY <1>2, LoseKeeps
<1>3. CASE UNCHANGED vars
  BY <1>3 DEF Kept, TypeOK, TimerCovers, AwaitingAck, nbr, vars, flowVars, tallyVars
<1> QED BY <1>1, <1>2, <1>3 DEF Next

(* The variables of Link keep to their types, whatever is lost or late.     *)
THEOREM LinkTypes == Spec => []TypeOK
<1>1. Init => Kept
  BY InitOK DEF Kept
<1>2. Kept => TypeOK
  BY DEF Kept
<1> QED BY <1>1, <1>2, NextKeeps, PTL DEF Spec

(* On every tree a box that awaits an acknowledgement has its timer on: the *)
(* timeout cannot get lost among the answers of the other links.            *)
THEOREM AckTimeoutNotLost == Spec => []TimerCovers
<1>1. Init => Kept
  BY InitOK DEF Kept
<1>2. Kept => TimerCovers
  BY DEF Kept
<1> QED BY <1>1, <1>2, NextKeeps, PTL DEF Spec

-----------------------------------------------------------------------------
(* Channels                                                                 *)

IsData(f)  == f.kind = "data"
Starts(c)  == {a \in 1 .. Len(c) : IsData(c[a]) /\ c[a].k = 1}

(* The two frames of a packet follow each other; only the first frame may   *)
(* be gone.                                                                 *)
FirstOk(c, a) == /\ c[a].n = 2
                 /\ a > 1 => IsData(c[a - 1]) /\ c[a - 1].k = 1 /\ c[a - 1].n = 2
                             /\ c[a - 1].m = c[a].m
NextOk(c, a) == a < Len(c) /\ IsData(c[a + 1]) /\ c[a + 1].k = 2 /\ c[a + 1].m = c[a].m
Wire(c) ==
  \A a \in 1 .. Len(c) : IsData(c[a]) =>
    /\ c[a].k = 2 => FirstOk(c, a)
    /\ c[a].k = 1 /\ c[a].n = 2 => NextOk(c, a)

LEMMA TailFrames ==
  ASSUME NEW c \in Seq(Frame), c # <<>>
  PROVE  /\ Tail(c) \in Seq(Frame) /\ Head(c) = c[1] /\ 1 \in 1 .. Len(c)
         /\ Len(c) \in Nat /\ Len(Tail(c)) = Len(c) - 1
         /\ \A a \in 1 .. Len(Tail(c)) : /\ a + 1 \in 1 .. Len(c) /\ a \in Nat
                                         /\ Tail(c)[a] = c[a + 1]
<1>1. /\ Tail(c) \in Seq(Frame) /\ Head(c) = c[1] /\ Len(c) \in Nat /\ Len(c) > 0
      /\ Len(Tail(c)) = Len(c) - 1
  BY HeadTailProperties, EmptySeq, LenProperties
<1>2. \A a \in 1 .. Len(Tail(c)) : Tail(c)[a] = c[a + 1]
  BY HeadTailProperties
<1> QED BY <1>1, <1>2

LEMMA TailWire ==
  ASSUME NEW c \in Seq(Frame), c # <<>>, Wire(c)
  PROVE  /\ Wire(Tail(c))
         /\ \A a \in Starts(Tail(c)) : a + 1 \in Starts(c) /\ Tail(c)[a] = c[a + 1]
<1> DEFINE t == Tail(c)
<1>1. /\ Len(c) \in Nat /\ Len(t) = Len(c) - 1
      /\ \A a \in 1 .. Len(t) : a + 1 \in 1 .. Len(c) /\ a \in Nat /\ t[a] = c[a + 1]
  BY TailFrames
<1> HIDE DEF t
<1>2. ASSUME NEW a \in 1 .. Len(t), IsData(t[a]), t[a].k = 2
      PROVE  FirstOk(t, a)
  <2>1. FirstOk(c, a + 1)
    BY <1>1, <1>2 DEF Wire
  <2>2. CASE a > 1
    <3>1. a - 1 \in 1 .. Len(t) /\ (a - 1) + 1 = a /\ (a + 1) - 1 = a /\ a + 1 > 1
      BY <1>1, <2>2
    <3>2. t[a - 1] = c[a]
      BY <1>1, <3>1
    <3> QED BY <1>1, <2>1, <3>1, <3>2 DEF FirstOk
  <2>3. CASE ~ (a > 1)
    BY <1>1, <2>1, <2>3 DEF FirstOk
  <2> QED BY <2>2, <2>3
<1>3. ASSUME NEW a \in 1 .. Len(t), IsData(t[a]), t[a].k = 1, t[a].n = 2
      PROVE  NextOk(t, a)
  <2>1. NextOk(c, a + 1)
    BY <1>1, <1>3 DEF Wire
  <2>2. a < Len(t) /\ a + 1 \in 1 .. Len(t)
    BY <1>1, <2>1 DEF NextOk
  <2>3. t[a + 1] = c[(a + 1) + 1]
    BY <1>1, <2>2
  <2> QED BY <1>1, <2>1, <2>2, <2>3 DEF NextOk
<1>4. Wire(t)
  BY <1>2, <1>3 DEF Wire
<1>5. \A a \in Starts(t) : a + 1 \in Starts(c) /\ t[a] = c[a + 1]
  BY <1>1 DEF Starts
<1> QED BY <1>4, <1>5 DEF t

(* Frames after those of a channel, that begin with no last piece.          *)
LEMMA JoinedFrames ==
  ASSUME NEW c \in Seq(Frame), NEW d \in Seq(Frame)
  PROVE  /\ c \o d \in Seq(Frame)
         /\ Len(c) \in Nat /\ Len(d) \in Nat /\ Len(c \o d) = Len(c) + Len(d)
         /\ \A a \in 1 .. Len(c) : (c \o d)[a] = c[a]
         /\ \A a \in 1 .. Len(d) : (c \o d)[Len(c) + a] = d[a]
         /\ \A a \in 1 .. Len(c \o d) :
              a \in 1 .. Len(c) \/ (a - Len(c) \in 1 .. Len(d) /\ a = Len(c) + (a - Len(c)))
<1>1. /\ c \o d \in Seq(Frame)
      /\ Len(c) \in Nat /\ Len(d) \in Nat /\ Len(c \o d) = Len(c) + Len(d)
  BY ConcatProperties, LenProperties
<1>2. \A a \in 1 .. Len(c) + Len(d) :
        (c \o d)[a] = IF a <= Len(c) THEN c[a] ELSE d[a - Len(c)]
  BY ConcatProperties
<1>3. \A a \in 1 .. Len(c) : a \in 1 .. Len(c) + Len(d) /\ a <= Len(c)
  BY <1>1
<1>4. \A a \in 1 .. Len(d) : /\ Len(c) + a \in 1 .. Len(c) + Len(d)
                             /\ ~ (Len(c) + a <= Len(c)) /\ (Len(c) + a) - Len(c) = a
  BY <1>1
<1>5. \A a \in 1 .. Len(c) + Len(d) :
        a \in 1 .. Len(c) \/ (a - Len(c) \in 1 .. Len(d) /\ a = Len(c) + (a - Len(c)))
  BY <1>1
<1>6. \A a \in 1 .. Len(c) : (c \o d)[a] = c[a]
  BY <1>2, <1>3
<1>7. \A a \in 1 .. Len(d) : (c \o d)[Len(c) + a] = d[a]
  BY <1>2, <1>4
<1> QED BY <1>1, <1>5, <1>6, <1>7

LEMMA JoinedWire ==
  ASSUME NEW c \in Seq(Frame), NEW d \in Seq(Frame), Wire(c), Wire(d),
         d # <<>> => ~ (IsData(d[1]) /\ d[1].k = 2)
  PROVE  Wire(c \o d)
<1> DEFINE e == c \o d
           n == Len(c)
<1>1. /\ n \in Nat /\ Len(d) \in Nat /\ Len(e) = n + Len(d)
      /\ \A a \in 1 .. n : e[a] = c[a]
      /\ \A a \in 1 .. Len(d) : e[n + a] = d[a]
      /\ \A a \in 1 .. Len(e) : a \in 1 .. n \/ (a - n \in 1 .. Len(d) /\ a = n + (a - n))
  BY JoinedFrames
<1> HIDE DEF e, n
<1>2. ASSUME NEW a \in 1 .. n, IsData(e[a])
      PROVE  /\ e[a].k = 2 => FirstOk(e, a)
             /\ e[a].k = 1 /\ e[a].n = 2 => NextOk(e, a)
  <2>1. a \in 1 .. Len(c) /\ e[a] = c[a]
    BY <1>1 DEF n
  <2>2. ASSUME e[a].k = 2 PROVE FirstOk(e, a)
    <3>1. FirstOk(c, a)
      BY <1>2, <2>1, <2>2 DEF Wire
    <3>2. a > 1 => e[a - 1] = c[a - 1]
      BY <1>1
    <3> QED BY <2>1, <3>1, <3>2 DEF FirstOk
  <2>3. ASSUME e[a].k = 1, e[a].n = 2 PROVE NextOk(e, a)
    <3>1. NextOk(c, a)
      BY <1>2, <2>1, <2>3 DEF Wire
    <3>2. a + 1 \in 1 .. n /\ a < Len(e)
      BY <1>1, <3>1 DEF NextOk, n
    <3>3. e[a + 1] = c[a + 1]
      BY <1>1, <3>2
    <3> QED BY <2>1, <3>1, <3>2, <3>3 DEF NextOk
  <2> QED BY <2>2, <2>3
<1>3. ASSUME NEW a \in 1 .. Len(d), IsData(e[n + a])
      PROVE  /\ e[n + a].k = 2 => FirstOk(e, n + a)
             /\ e[n + a].k = 1 /\ e[n + a].n = 2 => NextOk(e, n + a)
  <2>1. e[n + a] = d[a]
    BY <1>1
  <2>2. ASSUME e[n + a].k = 2 PROVE FirstOk(e, n + a)
    <3>1. FirstOk(d, a) /\ d # <<>>
      BY <1>3, <2>1, <2>2 DEF Wire
    <3>2. a # 1
      BY <1>3, <2>1, <2>2, <3>1
    <3>3. a - 1 \in 1 .. Len(d) /\ (n + a) - 1 = n + (a - 1) /\ a > 1
      BY <1>1, <3>2
    <3>4. e[(n + a) - 1] = d[a - 1]
      BY <1>1, <3>3
    <3> QED BY <2>1, <3>1, <3>3, <3>4 DEF FirstOk
  <2>3. ASSUME e[n + a].k = 1, e[n + a].n = 2 PROVE NextOk(e, n + a)
    <3>1. NextOk(d, a)
      BY <1>3, <2>1, <2>3 DEF Wire
    <3>2. a + 1 \in 1 .. Len(d) /\ (n + a) + 1 = n + (a + 1) /\ n + a < Len(e)
      BY <1>1, <3>1 DEF NextOk
    <3>3. e[(n + a) + 1] = d[a + 1]
      BY <1>1, <3>2
    <3> QED BY <2>1, <3>1, <3>2, <3>3 DEF NextOk
  <2> QED BY <2>2, <2>3
<1>4. Wire(e)
  <2> SUFFICES ASSUME NEW a \in 1 .. Len(e), IsData(e[a])
               PROVE  /\ e[a].k = 2 => FirstOk(e, a)
                      /\ e[a].k = 1 /\ e[a].n = 2 => NextOk(e, a)
    BY DEF Wire
  <2>1. CASE a \in 1 .. n
    BY <1>2, <2>1
  <2>2. CASE a - n \in 1 .. Len(d) /\ a = n + (a - n)
    BY <1>3, <2>2
  <2> QED BY <1>1, <2>1, <2>2
<1> QED BY <1>4 DEF e

(* What is sent for one packet: at most an announcement before its frames,  *)
(* of which one is a first one.                                             *)
Burst(l, m) == SendSeq(l, m) \o SendMessage(sendData[l], m)

LEMMA BurstFrames ==
  ASSUME TypeOK, NEW l \in Links, NEW m \in Message
  PROVE  /\ Burst(l, m) \in Seq(Frame) /\ Wire(Burst(l, m))
         /\ Burst(l, m) # <<>> => ~ (IsData(Burst(l, m)[1]) /\ Burst(l, m)[1].k = 2)
         /\ \A a \in 1 .. Len(Burst(l, m)) :
              IsData(Burst(l, m)[a]) => Burst(l, m)[a].m = m
         /\ \A a, b \in Starts(Burst(l, m)) : a = b
<1> DEFINE s == SendSeq(l, m)
           d == SendMessage(sendData[l], m)
<1>1. s \in Seq(Frame) /\ d \in Seq(Frame)
  BY SentFrames
<1>2. \A a \in 1 .. Len(s) : ~ IsData(s[a])
  BY DEF SendSeq, IsData
<1>3. /\ Len(d) \in 1 .. 2
      /\ d[1].kind = "data" /\ d[1].k = 1 /\ d[1].m = m /\ d[1].n = Len(d)
      /\ Len(d) = 2 => d[2].kind = "data" /\ d[2].k = 2 /\ d[2].n = 2 /\ d[2].m = m
  BY DEF SendMessage
<1> HIDE DEF s, d
<1>4. Wire(s)
  BY <1>2 DEF Wire
<1>5. Wire(d)
  <2> SUFFICES ASSUME NEW a \in 1 .. Len(d), IsData(d[a])
               PROVE  /\ d[a].k = 2 => FirstOk(d, a)
                      /\ d[a].k = 1 /\ d[a].n = 2 => NextOk(d, a)
    BY DEF Wire
  <2>1. a = 1 \/ (a = 2 /\ Len(d) = 2)
    BY <1>3
  <2>2. CASE a = 1
    BY <1>3, <2>2 DEF NextOk, IsData
  <2>3. CASE a = 2 /\ Len(d) = 2
    BY <1>3, <2>3 DEF FirstOk, IsData
  <2> QED BY <2>1, <2>2, <2>3
<1>6. Wire(s \o d)
  BY <1>1, <1>3, <1>4, <1>5, JoinedWire
<1>7. /\ s \o d \in Seq(Frame)
      /\ Len(s) \in Nat /\ Len(s \o d) = Len(s) + Len(d)
      /\ \A a \in 1 .. Len(s) : (s \o d)[a] = s[a]
      /\ \A a \in 1 .. Len(d) : (s \o d)[Len(s) + a] = d[a]
      /\ \A a \in 1 .. Len(s \o d) :
              a \in 1 .. Len(s) \/ (a - Len(s) \in 1 .. Len(d) /\ a = Len(s) + (a - Len(s)))
  BY <1>1, JoinedFrames
<1> DEFINE b == s \o d
<1> HIDE DEF b
<1>8. \A a \in 1 .. Len(b) : IsData(b[a]) =>
        /\ b[a].m = m
        /\ b[a].k = 1 => a = Len(s) + 1
        /\ b[a].k = 2 => a = Len(s) + 2
  <2> SUFFICES ASSUME NEW a \in 1 .. Len(b), IsData(b[a])
               PROVE  /\ b[a].m = m
                      /\ b[a].k = 1 => a = Len(s) + 1
                      /\ b[a].k = 2 => a = Len(s) + 2
    OBVIOUS
  <2>1. a \notin 1 .. Len(s)
    BY <1>2, <1>7 DEF b
  <2>2. a - Len(s) \in 1 .. Len(d) /\ a = Len(s) + (a - Len(s))
    BY <1>7, <2>1 DEF b
  <2>3. b[a] = d[a - Len(s)]
    BY <1>7, <2>2 DEF b
  <2>4. a - Len(s) = 1 \/ (a - Len(s) = 2 /\ Len(d) = 2)
    BY <1>3, <1>7, <2>2
  <2> QED BY <1>3, <1>7, <2>2, <2>3, <2>4
<1>9. \A x, y \in Starts(b) : x = y
  BY <1>8 DEF Starts
<1>10. ~ (IsData(b[1]) /\ b[1].k = 2)
  <2>1. 1 \in 1 .. Len(b)
    BY <1>3, <1>7 DEF b
  <2> QED BY <1>7, <1>8, <2>1
<1>11. Burst(l, m) = b
  BY DEF Burst, b, s, d
<1>12. b \in Seq(Frame) /\ Wire(b)
  BY <1>6, <1>7 DEF b
<1> QED BY <1>8, <1>9, <1>10, <1>11, <1>12

-----------------------------------------------------------------------------
(* The order of packets. Of two packets of one box the one sent first is    *)
(* before the other.                                                        *)
Before(w, p, q) == w.src[p] = w.src[q] => w.pos[p] < w.pos[q]

(* The packets under way on a link with channel c that holds h; the ones    *)
(* that came over link l among those a box has seen, s; the ones box u has  *)
(* passed on, which has seen s and has t still to send.                     *)
Begun(c, h) == {p \in Packet : \/ h # None /\ h.head = p
                               \/ \E a \in 1 .. Len(c) : IsData(c[a]) /\ c[a].m.head = p}
Shown(s) == {s[e].head : e \in 1 .. Len(s)}
CameOver(w, l, s) == {p \in Shown(s) : w.src[p] \in w.side[l]}
Passed(w, u, s, t) ==
  {p \in Packet : IF w.src[p] = u THEN w.pos[p] <= Len(scenario.todo[u]) - Len(t)
                  ELSE p \in Shown(s)}

(* On a link, what is still to be read is in order, after what is held, and *)
(* that after what the receiver has seen, g.                                *)
InChannel(w, c) == \A a, b \in Starts(c) : a < b => Before(w, c[a].m.head, c[b].m.head)
AfterAll(w, ps, c) == \A p \in ps : \A a \in Starts(c) : Before(w, p, c[a].m.head)
HeldHead(h) == IF h = None THEN {} ELSE {h.head}
Ordered(w, c, h, g) ==
  /\ InChannel(w, c) /\ AfterAll(w, HeldHead(h), c) /\ AfterAll(w, g, c)
  /\ \A p \in g : \A q \in HeldHead(h) : Before(w, p, q)

Shape(w, c, h, sn, td) ==
  /\ w \in Way /\ scenario \in Scenario /\ OnTree(scenario, w)
  /\ c \in [Links -> Seq(Frame)] /\ h \in [Links -> Message \cup {None}]
  /\ sn \in [Box -> Seq(Message)] /\ td \in [Box -> Seq(Packet)]
Forwarded(w, c, h, sn, td, u, v) ==
  LET l == <<u, v>> IN
  /\ Ordered(w, c[l], h[l], CameOver(w, l, sn[v]))
  /\ Begun(c[l], h[l]) \cup CameOver(w, l, sn[v]) \subseteq Passed(w, u, sn[u], td[u])
  /\ \A p \in Begun(c[l], h[l]) : w.src[p] \in w.side[l]
SeenInOrder(w, s) == \A e, f \in 1 .. Len(s) : e < f => Before(w, s[e].head, s[f].head)
Remaining(i, t) ==
  /\ Len(t) <= Len(scenario.todo[i])
  /\ \A k \in 1 .. Len(t) : t[k] = scenario.todo[i][Len(scenario.todo[i]) - Len(t) + k]

InOrder(w, c, h, sn, td) ==
  /\ Shape(w, c, h, sn, td)
  /\ \A l \in Links : Wire(c[l])
  /\ \A u \in Box : \A v \in nbr[u] : Forwarded(w, c, h, sn, td, u, v)
  /\ \A i \in Box : SeenInOrder(w, sn[i]) /\ Remaining(i, td[i])

LEMMA OnNeighbors ==
  ASSUME scenario \in Scenario
  PROVE  \A u \in Box : \A v \in nbr[u] :
           v \in Box /\ u \in nbr[v] /\ v # u /\ <<u, v>> \in Links /\ <<v, u>> \in Links
BY DEF Scenario, nbr, Links

(* A step that changes channels and held pieces, and begins only packets    *)
(* that the box at the near end has passed on.                              *)
LEMMA ChannelsOrdered ==
  ASSUME NEW w, NEW c, NEW h, NEW sn, NEW td, InOrder(w, c, h, sn, td),
         NEW c2 \in [Links -> Seq(Frame)], NEW h2 \in [Links -> Message \cup {None}],
         \A l \in Links : Wire(c2[l]),
         \A u \in Box : \A v \in nbr[u] :
           /\ Ordered(w, c2[<<u, v>>], h2[<<u, v>>], CameOver(w, <<u, v>>, sn[v]))
           /\ \A p \in Begun(c2[<<u, v>>], h2[<<u, v>>]) :
                \/ p \in Begun(c[<<u, v>>], h[<<u, v>>])
                \/ p \in Passed(w, u, sn[u], td[u]) /\ w.src[p] \in w.side[<<u, v>>]
  PROVE  InOrder(w, c2, h2, sn, td)
<1>1. Shape(w, c2, h2, sn, td)
  BY DEF InOrder, Shape
<1>2. ASSUME NEW u \in Box, NEW v \in nbr[u]
      PROVE  Forwarded(w, c2, h2, sn, td, u, v)
  BY DEF InOrder, Forwarded
<1> QED BY <1>1, <1>2 DEF InOrder

LEMMA TailOrdered ==
  ASSUME NEW w, NEW c \in Seq(Frame), c # <<>>, NEW h, NEW g, Wire(c), Ordered(w, c, h, g)
  PROVE  /\ Tail(c) \in Seq(Frame) /\ Wire(Tail(c)) /\ Ordered(w, Tail(c), h, g)
         /\ Begun(Tail(c), h) \subseteq Begun(c, h)
         /\ Starts(c) = {} => Starts(Tail(c)) = {}
<1> DEFINE t == Tail(c)
<1>1. /\ t \in Seq(Frame) /\ Len(c) \in Nat /\ Len(t) = Len(c) - 1
      /\ \A a \in 1 .. Len(t) : a + 1 \in 1 .. Len(c) /\ a \in Nat /\ t[a] = c[a + 1]
  BY TailFrames
<1>2. Wire(t) /\ \A a \in Starts(t) : a + 1 \in Starts(c) /\ t[a] = c[a + 1]
  BY TailWire
<1> HIDE DEF t
<1>3. \A a \in Starts(t) : a \in Nat
  BY <1>1 DEF Starts
<1>4. InChannel(w, t)
  <2> SUFFICES ASSUME NEW a \in Starts(t), NEW b \in Starts(t), a < b
               PROVE  Before(w, t[a].m.head, t[b].m.head)
    BY DEF InChannel
  <2>1. a + 1 < b + 1
    BY <1>3
  <2> QED BY <1>2, <2>1 DEF Ordered, InChannel
<1>5. Ordered(w, t, h, g)
  BY <1>2, <1>4 DEF Ordered, AfterAll
<1>6. Begun(t, h) \subseteq Begun(c, h)
  BY <1>1 DEF Begun
<1> QED BY <1>1, <1>2, <1>5, <1>6 DEF t

(* Frames d, all of one packet, go after the others of a channel.           *)
OneBurst(w, c, h, g, d, p) ==
  /\ \A a \in 1 .. Len(d) : IsData(d[a]) => d[a].m.head = p
  /\ \A a, b \in Starts(d) : a = b
  /\ Starts(d) # {} => \A q \in Begun(c, h) \cup g : Before(w, q, p)
Extended(w, c, h, g, d, p) ==
  /\ Ordered(w, c \o d, h, g)
  /\ \A q \in Begun(c \o d, h) :
       q \in Begun(c, h) \/ (q = p /\ \E a \in 1 .. Len(d) : IsData(d[a]))

LEMMA JoinedOrdered ==
  ASSUME NEW w, NEW c \in Seq(Frame), NEW d \in Seq(Frame), NEW h, NEW g, NEW p,
         Ordered(w, c, h, g), OneBurst(w, c, h, g, d, p),
         h \in Message \cup {None}
  PROVE  Extended(w, c, h, g, d, p)
<1> DEFINE e == c \o d
           n == Len(c)
<1>0. /\ \A a \in 1 .. Len(d) : IsData(d[a]) => d[a].m.head = p
      /\ \A a, b \in Starts(d) : a = b
      /\ Starts(d) # {} => \A q \in Begun(c, h) \cup g : Before(w, q, p)
  BY DEF OneBurst
<1>1. /\ n \in Nat /\ Len(d) \in Nat /\ Len(e) = n + Len(d)
      /\ \A a \in 1 .. n : e[a] = c[a]
      /\ \A a \in 1 .. Len(d) : e[n + a] = d[a]
      /\ \A a \in 1 .. Len(e) : a \in 1 .. n \/ (a - n \in 1 .. Len(d) /\ a = n + (a - n))
      /\ e \in Seq(Frame)
  BY JoinedFrames
<1>2. \A a \in Starts(c) : a \in 1 .. n /\ c[a].m.head \in Begun(c, h)
  <2>1. \A a \in 1 .. Len(c) : c[a] \in Frame
    BY ElementOfSeq
  <2>2. \A a \in Starts(c) : a \in 1 .. Len(c) /\ IsData(c[a])
    BY DEF Starts
  <2>3. \A a \in Starts(c) : c[a].m.head \in Packet
    BY <2>1, <2>2 DEF Frame, Message, IsData
  <2> QED BY <2>2, <2>3 DEF Begun, n
<1> HIDE DEF e, n
<1>3. \A a \in Starts(e) : \/ a \in Starts(c) /\ e[a] = c[a]
                           \/ /\ a - n \in Starts(d) /\ e[a] = d[a - n] /\ a = n + (a - n)
                              /\ e[a].m.head = p
  <2> SUFFICES ASSUME NEW a \in Starts(e)
               PROVE  \/ a \in Starts(c) /\ e[a] = c[a]
                      \/ /\ a - n \in Starts(d) /\ e[a] = d[a - n] /\ a = n + (a - n)
                         /\ e[a].m.head = p
    OBVIOUS
  <2>1. a \in 1 .. Len(e) /\ IsData(e[a]) /\ e[a].k = 1
    BY DEF Starts
  <2>2. CASE a \in 1 .. n
    BY <1>1, <2>1, <2>2 DEF Starts, n
  <2>3. CASE a - n \in 1 .. Len(d) /\ a = n + (a - n)
    <3>1. e[a] = d[a - n]
      BY <1>1, <2>3
    <3> QED BY <1>0, <2>1, <2>3, <3>1 DEF Starts
  <2> QED BY <1>1, <2>1, <2>2, <2>3
<1>4. InChannel(w, e)
  <2> SUFFICES ASSUME NEW a \in Starts(e), NEW b \in Starts(e), a < b
               PROVE  Before(w, e[a].m.head, e[b].m.head)
    BY DEF InChannel
  <2>1. CASE a \in Starts(c) /\ e[a] = c[a] /\ b \in Starts(c) /\ e[b] = c[b]
    BY <2>1 DEF Ordered, InChannel
  <2>2. CASE a \in Starts(c) /\ e[a] = c[a] /\ b - n \in Starts(d) /\ e[b].m.head = p
    BY <1>0, <1>2, <2>2
  <2>3. CASE a - n \in Starts(d) /\ a = n + (a - n) /\ b \in Starts(c)
    <3>1. a - n \in 1 .. Len(d) /\ b \in 1 .. n
      BY <1>2, <2>3 DEF Starts
    <3>2. a > n /\ b <= n /\ a \in Int /\ b \in Int
      BY <1>1, <2>3, <3>1
    <3> QED BY <1>1, <3>2
  <2>4. CASE a - n \in Starts(d) /\ a = n + (a - n) /\ b - n \in Starts(d) /\ b = n + (b - n)
    <3>1. a - n = b - n
      BY <1>0, <2>4
    <3>2. a = b
      BY <2>4, <3>1
    <3>3. a \in Int
      BY <1>1 DEF Starts
    <3> QED BY <3>2, <3>3
  <2> QED BY <1>3, <2>1, <2>2, <2>3, <2>4
<1>5. h # None => h.head \in Begun(c, h)
  BY DEF Begun, Message
<1>6. AfterAll(w, HeldHead(h), e)
  <2> SUFFICES ASSUME h # None, NEW a \in Starts(e) PROVE Before(w, h.head, e[a].m.head)
    BY DEF AfterAll, HeldHead
  <2> QED BY <1>0, <1>3, <1>5 DEF Ordered, AfterAll, HeldHead
<1>7. AfterAll(w, g, e)
  BY <1>0, <1>3 DEF Ordered, AfterAll
<1>8. \A q \in Begun(e, h) :
        q \in Begun(c, h) \/ (q = p /\ \E a \in 1 .. Len(d) : IsData(d[a]))
  <2> SUFFICES ASSUME NEW q \in Packet, NEW a \in 1 .. Len(e), IsData(e[a]), e[a].m.head = q
               PROVE  q \in Begun(c, h) \/ (q = p /\ \E b \in 1 .. Len(d) : IsData(d[b]))
    BY DEF Begun
  <2>1. CASE a \in 1 .. n
    BY <1>1, <2>1 DEF Begun, n
  <2>2. CASE a - n \in 1 .. Len(d) /\ a = n + (a - n)
    <3>1. e[a] = d[a - n]
      BY <1>1, <2>2
    <3>2. IsData(d[a - n]) /\ d[a - n].m.head = q
      BY <3>1
    <3> QED BY <1>0, <2>2, <3>2
  <2> QED BY <1>1, <2>1, <2>2
<1> QED BY <1>4, <1>6, <1>7, <1>8 DEF Ordered, Extended, e

(* A frame that is no data changes no order.                                *)
LEMMA PlainOrdered ==
  ASSUME NEW w, NEW c \in Seq(Frame), NEW f \in Frame, ~ IsData(f), Wire(c), NEW h, NEW g,
         h \in Message \cup {None}, Ordered(w, c, h, g)
  PROVE  /\ Append(c, f) \in Seq(Frame) /\ Wire(Append(c, f))
         /\ Ordered(w, Append(c, f), h, g)
         /\ Begun(Append(c, f), h) \subseteq Begun(c, h)
<1> DEFINE d == <<f>>
<1>1. d \in Seq(Frame) /\ Append(c, f) = c \o d
  BY AppendIsConcat
<1>2. Len(d) = 1 /\ d[1] = f
  OBVIOUS
<1> HIDE DEF d
<1>3. \A a \in 1 .. Len(d) : ~ IsData(d[a])
  BY <1>2
<1>4. Wire(d) /\ Starts(d) = {} /\ (d # <<>> => ~ (IsData(d[1]) /\ d[1].k = 2))
  BY <1>2, <1>3 DEF Wire, Starts
<1>5. Wire(c \o d)
  BY <1>1, <1>4, JoinedWire
<1>6. /\ Ordered(w, c \o d, h, g)
      /\ \A q \in Begun(c \o d, h) :
           q \in Begun(c, h) \/ (q = f /\ \E a \in 1 .. Len(d) : IsData(d[a]))
  <2>1. OneBurst(w, c, h, g, d, f)
    BY <1>3, <1>4 DEF OneBurst
  <2>2. Extended(w, c, h, g, d, f)
    BY <1>1, <2>1, JoinedOrdered
  <2> QED BY <2>2 DEF Extended
<1>7. c \o d \in Seq(Frame)
  BY <1>1, ConcatProperties
<1> QED BY <1>1, <1>3, <1>5, <1>6, <1>7

(* One channel is changed, and what it holds, so that nothing is begun.     *)
LEMMA OneChannel ==
  ASSUME NEW w, NEW c, NEW h, NEW sn, NEW td, InOrder(w, c, h, sn, td),
         NEW u \in Box, NEW v \in nbr[u], NEW e, NEW g,
         e \in Seq(Frame), g \in Message \cup {None}, Wire(e),
         Ordered(w, e, g, CameOver(w, <<u, v>>, sn[v])),
         Begun(e, g) \subseteq Begun(c[<<u, v>>], h[<<u, v>>])
  PROVE  InOrder(w, [c EXCEPT ![<<u, v>>] = e], [h EXCEPT ![<<u, v>>] = g], sn, td)
<1> DEFINE l  == <<u, v>>
           c2 == [c EXCEPT ![l] = e]
           h2 == [h EXCEPT ![l] = g]
<1>1. /\ scenario \in Scenario /\ c \in [Links -> Seq(Frame)]
      /\ h \in [Links -> Message \cup {None}]
  BY DEF InOrder, Shape
<1>2. l \in Links
  BY <1>1, OnNeighbors
<1>3. c2 \in [Links -> Seq(Frame)] /\ h2 \in [Links -> Message \cup {None}]
  BY <1>1
<1>4. /\ c2[l] = e /\ h2[l] = g
      /\ \A k \in Links : k # l => c2[k] = c[k] /\ h2[k] = h[k]
  BY <1>1, <1>2
<1>5. \A k \in Links : Wire(c[k])
  BY DEF InOrder
<1> HIDE DEF c2, h2
<1>6. \A k \in Links : Wire(c2[k])
  BY <1>4, <1>5
<1>7. ASSUME NEW x \in Box, NEW y \in nbr[x]
      PROVE  /\ Ordered(w, c2[<<x, y>>], h2[<<x, y>>], CameOver(w, <<x, y>>, sn[y]))
             /\ Begun(c2[<<x, y>>], h2[<<x, y>>]) \subseteq Begun(c[<<x, y>>], h[<<x, y>>])
  <2>1. <<x, y>> \in Links
    BY <1>1, OnNeighbors
  <2>2. CASE <<x, y>> = l
    <3>1. x = u /\ y = v
      BY <2>2
    <3> QED BY <1>4, <3>1
  <2>3. CASE <<x, y>> # l
    <3>1. Forwarded(w, c, h, sn, td, x, y)
      BY DEF InOrder
    <3> QED BY <1>4, <2>1, <2>3, <3>1 DEF Forwarded
  <2> QED BY <2>2, <2>3
<1>8. InOrder(w, c2, h2, sn, td)
  BY <1>3, <1>6, <1>7, ChannelsOrdered
<1> QED BY <1>8 DEF c2, h2

(* A data frame is read: what it leaves held, and the packet it completes,  *)
(* were begun before everything that is still to be read, and after all     *)
(* that the receiver has seen of the link.                                  *)
ReadWell(w, c, h, g) ==
  LET f == Head(c) IN
  /\ Ordered(w, Tail(c), HeldAfter(h, f), g)
  /\ Begun(Tail(c), HeldAfter(h, f)) \subseteq Begun(c, h)
  /\ HeldAfter(h, f) \in Message \cup {None}
  /\ \A m \in Completed(h, f) :
       /\ m \in Message /\ m.head \in Begun(c, h) /\ HeldAfter(h, f) = None
       /\ \A q \in g : Before(w, q, m.head)
       /\ AfterAll(w, {m.head}, Tail(c))

LEMMA ReadOrdered ==
  ASSUME NEW w, NEW c \in Seq(Frame), c # <<>>, NEW h \in Message \cup {None}, NEW g,
         Wire(c), Ordered(w, c, h, g), IsData(Head(c))
  PROVE  ReadWell(w, c, h, g)
<1> DEFINE f == Head(c)
           t == Tail(c)
<1>1. /\ t \in Seq(Frame) /\ f = c[1] /\ 1 \in 1 .. Len(c)
      /\ Len(c) \in Nat /\ Len(t) = Len(c) - 1
      /\ \A a \in 1 .. Len(t) : a + 1 \in 1 .. Len(c) /\ a \in Nat /\ t[a] = c[a + 1]
  BY TailFrames
<1>2. \A a \in Starts(t) : a + 1 \in Starts(c) /\ t[a] = c[a + 1]
  BY TailWire
<1>3. f \in Frame /\ IsData(f)
  BY <1>1, ElementOfSeq
<1> HIDE DEF f, t
<1>4. f.m \in Message /\ f.k \in 1 .. 2 /\ f.n \in 1 .. 2
  BY <1>3 DEF Frame, IsData
<1>5. f.k = 2 => f.n = 2
  BY <1>1, <1>3 DEF Wire, FirstOk
<1>6. f.m.head \in Packet /\ f.m.head \in Begun(c, h)
  BY <1>1, <1>3, <1>4 DEF Begun, Message
<1>7. f.k = 1 => AfterAll(w, {f.m.head}, t) /\ \A q \in g : Before(w, q, f.m.head)
  <2> SUFFICES ASSUME f.k = 1
               PROVE  AfterAll(w, {f.m.head}, t) /\ \A q \in g : Before(w, q, f.m.head)
    OBVIOUS
  <2>1. 1 \in Starts(c)
    BY <1>1, <1>3 DEF Starts
  <2>2. \A q \in g : Before(w, q, c[1].m.head)
    BY <2>1 DEF Ordered, AfterAll
  <2>3. \A a \in Starts(t) : Before(w, c[1].m.head, t[a].m.head)
    <3> SUFFICES ASSUME NEW a \in Starts(t) PROVE Before(w, c[1].m.head, t[a].m.head)
      OBVIOUS
    <3>1. a \in Nat /\ a \in 1 .. Len(t)
      BY <1>1 DEF Starts
    <3>2. 1 < a + 1
      BY <3>1
    <3> QED BY <1>2, <2>1, <3>2 DEF Ordered, InChannel
  <2> QED BY <1>1, <2>2, <2>3 DEF AfterAll
<1>8. /\ AfterAll(w, HeldHead(h), t) /\ AfterAll(w, g, t)
      /\ \A q \in g : \A p \in HeldHead(h) : Before(w, q, p)
  BY <1>2 DEF Ordered, AfterAll
<1>9. InChannel(w, t)
  <2>1. Ordered(w, Tail(c), h, g)
    BY TailOrdered
  <2> QED BY <2>1 DEF Ordered, t
<1>10. h # None => h.head \in Begun(c, h)
  BY DEF Begun, Message
<1>11. Ordered(w, t, HeldAfter(h, f), g) /\ HeldAfter(h, f) \in Message \cup {None}
  <2>1. CASE h = None /\ f.n = 2 /\ f.k = 1
    <3>1. HeldAfter(h, f) = f.m
      BY <2>1 DEF HeldAfter
    <3>2. HeldHead(f.m) \subseteq {f.m.head}
      BY DEF HeldHead
    <3>3. AfterAll(w, HeldHead(f.m), t) /\ \A q \in g : \A p \in HeldHead(f.m) : Before(w, q, p)
      BY <1>7, <2>1, <3>2 DEF AfterAll
    <3> QED BY <1>4, <1>8, <1>9, <3>1, <3>3 DEF Ordered
  <2>2. CASE ~ (h = None /\ f.n = 2 /\ f.k = 1)
    <3>1. HeldAfter(h, f) = None /\ HeldHead(None) = {}
      BY <2>2 DEF HeldAfter, HeldHead
    <3> QED BY <1>8, <1>9, <3>1 DEF Ordered, AfterAll
  <2> QED BY <2>1, <2>2
<1>12. Begun(t, HeldAfter(h, f)) \subseteq Begun(c, h)
  <2>1. HeldAfter(h, f) # None => HeldAfter(h, f) = f.m
    BY DEF HeldAfter
  <2> QED BY <1>1, <1>6, <2>1 DEF Begun
<1>13. ASSUME NEW m \in Completed(h, f)
       PROVE  /\ m \in Message /\ m.head \in Begun(c, h) /\ HeldAfter(h, f) = None
              /\ \A q \in g : Before(w, q, m.head)
              /\ AfterAll(w, {m.head}, t)
  <2>1. CASE h = None
    <3>1. m = f.m /\ f.n = 1
      BY <1>13, <2>1 DEF Completed
    <3>2. f.k = 1 /\ HeldAfter(h, f) = None
      BY <1>4, <1>5, <3>1 DEF HeldAfter
    <3> QED BY <1>4, <1>6, <1>7, <3>1, <3>2
  <2>2. CASE h # None
    <3>1. m = [head |-> h.head, tail |-> f.m.tail] /\ h \in Message
      BY <1>13, <2>2 DEF Completed
    <3>2. m \in Message /\ m.head = h.head
      BY <1>4, <3>1 DEF Message
    <3>3. HeldHead(h) = {m.head} /\ HeldAfter(h, f) = None
      BY <2>2, <3>2 DEF HeldHead, HeldAfter
    <3> QED BY <1>8, <1>10, <2>2, <3>2, <3>3
  <2> QED BY <2>1, <2>2
<1> QED BY <1>11, <1>12, <1>13 DEF ReadWell, f, t

(* Packet p has come to box i over its link from j.                         *)
Arrived(w, c, h, sn, td, i, j, p) ==
  LET l == <<j, i>> IN
  /\ p \in Packet /\ w.src[p] \in w.side[l] /\ p \in Passed(w, j, sn[j], td[j])
  /\ h[l] = None /\ AfterAll(w, {p}, c[l])
  /\ \A q \in Shown(sn[i]) : Before(w, q, p)

LEMMA ReadInOrder ==
  ASSUME NEW w, NEW c, NEW h, NEW sn, NEW td, InOrder(w, c, h, sn, td),
         NEW i \in Box, NEW j \in nbr[i], c[<<j, i>>] # <<>>, IsData(Head(c[<<j, i>>]))
  PROVE  LET l  == <<j, i>>
             c2 == [c EXCEPT ![l] = Tail(@)]
             h2 == [h EXCEPT ![l] = HeldAfter(@, Head(c[l]))]
         IN  /\ InOrder(w, c2, h2, sn, td)
             /\ \A m \in Completed(h[l], Head(c[l])) :
                  m \in Message /\ Arrived(w, c2, h2, sn, td, i, j, m.head)
<1> DEFINE l  == <<j, i>>
           f  == Head(c[l])
           g  == CameOver(w, l, sn[i])
           c2 == [c EXCEPT ![l] = Tail(@)]
           h2 == [h EXCEPT ![l] = HeldAfter(@, f)]
<1>1. /\ scenario \in Scenario /\ OnTree(scenario, w) /\ w \in Way
      /\ c \in [Links -> Seq(Frame)] /\ h \in [Links -> Message \cup {None}]
      /\ sn \in [Box -> Seq(Message)]
  BY DEF InOrder, Shape
<1>2. j \in Box /\ i \in nbr[j] /\ l \in Links
  BY <1>1, OnNeighbors
<1>3. Wire(c[l]) /\ Forwarded(w, c, h, sn, td, j, i)
  BY <1>2 DEF InOrder
<1>4. /\ Ordered(w, c[l], h[l], g)
      /\ Begun(c[l], h[l]) \subseteq Passed(w, j, sn[j], td[j])
      /\ \A p \in Begun(c[l], h[l]) : w.src[p] \in w.side[l]
  BY <1>3 DEF Forwarded
<1>5. c[l] \in Seq(Frame) /\ h[l] \in Message \cup {None}
  BY <1>1, <1>2
<1>6. ReadWell(w, c[l], h[l], g)
  BY <1>3, <1>4, <1>5, ReadOrdered
<1>7. /\ Ordered(w, Tail(c[l]), HeldAfter(h[l], f), g)
      /\ Begun(Tail(c[l]), HeldAfter(h[l], f)) \subseteq Begun(c[l], h[l])
      /\ HeldAfter(h[l], f) \in Message \cup {None}
      /\ \A m \in Completed(h[l], f) :
           /\ m \in Message /\ m.head \in Begun(c[l], h[l]) /\ HeldAfter(h[l], f) = None
           /\ \A q \in g : Before(w, q, m.head)
           /\ AfterAll(w, {m.head}, Tail(c[l]))
  BY <1>6 DEF ReadWell
<1>8. Tail(c[l]) \in Seq(Frame) /\ Wire(Tail(c[l]))
  BY <1>3, <1>5, TailWire, TailFrames
<1>9. /\ c2 = [c EXCEPT ![l] = Tail(c[l])] /\ h2 = [h EXCEPT ![l] = HeldAfter(h[l], f)]
      /\ c2[l] = Tail(c[l]) /\ h2[l] = HeldAfter(h[l], f)
  BY <1>1, <1>2
<1>10. InOrder(w, c2, h2, sn, td)
  <2> DEFINE e == Tail(c[l])
             b == HeldAfter(h[l], f)
  <2>1. /\ Ordered(w, e, b, CameOver(w, <<j, i>>, sn[i])) /\ b \in Message \cup {None}
        /\ e \in Seq(Frame) /\ Wire(e) /\ Begun(e, b) \subseteq Begun(c[<<j, i>>], h[<<j, i>>])
    BY <1>7, <1>8
  <2> HIDE DEF e, b
  <2>2. InOrder(w, [c EXCEPT ![<<j, i>>] = e], [h EXCEPT ![<<j, i>>] = b], sn, td)
    BY <1>2, <2>1, OneChannel
  <2> QED BY <1>9, <2>2 DEF e, b
<1>11. ASSUME NEW m \in Completed(h[l], f)
       PROVE  m \in Message /\ Arrived(w, c2, h2, sn, td, i, j, m.head)
  <2>1. /\ m \in Message /\ m.head \in Begun(c[l], h[l]) /\ HeldAfter(h[l], f) = None
        /\ \A q \in g : Before(w, q, m.head)
        /\ AfterAll(w, {m.head}, Tail(c[l]))
    BY <1>7
  <2>2. m.head \in Packet /\ w.src[m.head] \in w.side[l] /\ m.head \in Passed(w, j, sn[j], td[j])
    BY <1>4, <2>1 DEF Message
  <2>3. \A q \in Shown(sn[i]) : Before(w, q, m.head)
    <3> SUFFICES ASSUME NEW q \in Shown(sn[i]), w.src[q] = w.src[m.head]
                 PROVE  Before(w, q, m.head)
      BY DEF Before
    <3>1. q \in g
      BY <2>2 DEF CameOver
    <3> QED BY <2>1, <3>1
  <2> HIDE DEF c2, h2
  <2> QED BY <1>9, <2>1, <2>2, <2>3 DEF Arrived
<1> QED BY <1>10, <1>11

LEMMA ShownAfter ==
  ASSUME NEW s \in Seq(Message), NEW m \in Message
  PROVE  /\ Append(s, m) \in Seq(Message)
         /\ Shown(Append(s, m)) = Shown(s) \cup {m.head}
<1>1. /\ Append(s, m) \in Seq(Message) /\ Len(Append(s, m)) = Len(s) + 1
      /\ \A e \in 1 .. Len(s) : Append(s, m)[e] = s[e]
      /\ Append(s, m)[Len(s) + 1] = m /\ Len(s) \in Nat
  BY AppendProperties, LenProperties
<1> DEFINE t == Append(s, m)
<1> HIDE DEF t
<1>2. \A e \in 1 .. Len(t) : e \in 1 .. Len(s) \/ e = Len(s) + 1
  BY <1>1 DEF t
<1>3. \A e \in 1 .. Len(s) : e \in 1 .. Len(t) /\ t[e] = s[e]
  BY <1>1 DEF t
<1>4. Len(s) + 1 \in 1 .. Len(t) /\ t[Len(s) + 1] = m
  BY <1>1 DEF t
<1>5. Shown(t) = Shown(s) \cup {m.head}
  BY <1>2, <1>3, <1>4 DEF Shown
<1> QED BY <1>1, <1>5 DEF t

(* The clients of box i get a packet that has arrived.                      *)
LEMMA Deliver ==
  ASSUME NEW w, NEW c, NEW h, NEW sn, NEW td, InOrder(w, c, h, sn, td),
         NEW i \in Box, NEW j \in nbr[i], NEW m \in Message,
         Arrived(w, c, h, sn, td, i, j, m.head)
  PROVE  InOrder(w, c, h, [sn EXCEPT ![i] = Append(@, m)], td)
<1> DEFINE p  == m.head
           s2 == [sn EXCEPT ![i] = Append(@, m)]
           l  == <<j, i>>
<1>1. /\ scenario \in Scenario /\ OnTree(scenario, w) /\ w \in Way
      /\ sn \in [Box -> Seq(Message)]
  BY DEF InOrder, Shape
<1>2. j \in Box /\ i \in nbr[j] /\ l \in Links /\ j # i
  BY <1>1, OnNeighbors
<1>3. /\ p \in Packet /\ w.src[p] \in w.side[l] /\ p \in Passed(w, j, sn[j], td[j])
      /\ h[l] = None /\ AfterAll(w, {p}, c[l])
      /\ \A q \in Shown(sn[i]) : Before(w, q, p)
  BY DEF Arrived
<1>4. /\ s2 \in [Box -> Seq(Message)] /\ Shown(s2[i]) = Shown(sn[i]) \cup {p}
      /\ \A v \in Box : v # i => s2[v] = sn[v]
      /\ s2[i] = Append(sn[i], m)
  BY <1>1, ShownAfter
<1> HIDE DEF s2, p
<1>5. Shape(w, c, h, s2, td)
  BY <1>4 DEF InOrder, Shape
<1>6. \A u \in Box : Passed(w, u, sn[u], td[u]) \subseteq Passed(w, u, s2[u], td[u])
  BY <1>4 DEF Passed
<1>7. ASSUME NEW u \in Box, NEW v \in nbr[u]
      PROVE  Forwarded(w, c, h, s2, td, u, v)
  <2>1. /\ Ordered(w, c[<<u, v>>], h[<<u, v>>], CameOver(w, <<u, v>>, sn[v]))
        /\ Begun(c[<<u, v>>], h[<<u, v>>]) \cup CameOver(w, <<u, v>>, sn[v])
             \subseteq Passed(w, u, sn[u], td[u])
        /\ \A q \in Begun(c[<<u, v>>], h[<<u, v>>]) : w.src[q] \in w.side[<<u, v>>]
    BY DEF InOrder, Forwarded
  <2>2. v \in Box
    BY <1>1, OnNeighbors
  <2>3. CASE v # i
    BY <1>4, <1>6, <2>1, <2>2, <2>3 DEF Forwarded
  <2>4. CASE v = i /\ u # j
    <3>1. w.src[p] \notin w.side[<<u, i>>]
      <4>1. i \in nbr[u] /\ u \in nbr[i] /\ j \in nbr[i]
        BY <1>1, <2>4, OnNeighbors
      <4>2. w.side[<<u, i>>] \cap w.side[<<j, i>>] = {}
        <5>1. \A x, y \in scenario.nbr[i] : x # y => w.side[<<y, i>>] \cap w.side[<<x, i>>] = {}
          BY <1>1 DEF OnTree
        <5> QED BY <2>4, <4>1, <5>1 DEF nbr
      <4> QED BY <1>3, <4>2
    <3>2. CameOver(w, <<u, i>>, s2[i]) = CameOver(w, <<u, i>>, sn[i])
      BY <1>4, <3>1 DEF CameOver
    <3> QED BY <1>6, <2>1, <2>4, <3>2 DEF Forwarded
  <2>5. CASE v = i /\ u = j
    <3>1. CameOver(w, l, s2[i]) = CameOver(w, l, sn[i]) \cup {p}
      BY <1>3, <1>4 DEF CameOver
    <3>2. Ordered(w, c[l], h[l], CameOver(w, l, sn[i]))
      BY <2>1, <2>5
    <3>3. Ordered(w, c[l], h[l], CameOver(w, l, s2[i]))
      BY <1>3, <3>1, <3>2 DEF Ordered, AfterAll, HeldHead
    <3>4. CameOver(w, l, s2[i]) \subseteq Passed(w, j, sn[j], td[j])
      BY <1>3, <2>1, <2>5, <3>1
    <3> QED BY <1>6, <2>1, <2>5, <3>3, <3>4 DEF Forwarded
  <2> QED BY <2>3, <2>4, <2>5
<1>8. SeenInOrder(w, s2[i])
  <2>1. sn[i] \in Seq(Message)
    BY <1>1
  <2>2. /\ Len(s2[i]) = Len(sn[i]) + 1 /\ Len(sn[i]) \in Nat
        /\ \A e \in 1 .. Len(sn[i]) : s2[i][e] = sn[i][e]
        /\ s2[i][Len(sn[i]) + 1] = m
    BY <1>4, <2>1, AppendProperties, LenProperties
  <2> SUFFICES ASSUME NEW e \in 1 .. Len(s2[i]), NEW f \in 1 .. Len(s2[i]), e < f
               PROVE  Before(w, s2[i][e].head, s2[i][f].head)
    BY DEF SeenInOrder
  <2>3. e \in 1 .. Len(sn[i]) /\ s2[i][e] = sn[i][e]
    BY <2>2
  <2>4. CASE f \in 1 .. Len(sn[i])
    <3>1. SeenInOrder(w, sn[i])
      BY DEF InOrder
    <3> QED BY <2>2, <2>3, <2>4, <3>1 DEF SeenInOrder
  <2>5. CASE f = Len(sn[i]) + 1
    <3>1. sn[i][e].head \in Shown(sn[i])
      BY <2>3 DEF Shown
    <3> QED BY <1>3, <2>2, <2>3, <2>5, <3>1 DEF p
  <2> QED BY <2>2, <2>4, <2>5
<1>9. \A u \in Box : SeenInOrder(w, s2[u]) /\ Remaining(u, td[u])
  BY <1>4, <1>8 DEF InOrder
<1>10. InOrder(w, c, h, s2, td)
  BY <1>5, <1>7, <1>9 DEF InOrder
<1> QED BY <1>10 DEF s2

(* A packet that may be sent on link l: its sender is behind that link, and *)
(* it comes after all that has been sent on it.                             *)
MayFollow(w, c, h, sn, u, v, p) ==
  LET l == <<u, v>> IN
  /\ w.src[p] \in w.side[l]
  /\ \A q \in Begun(c[l], h[l]) \cup CameOver(w, l, sn[v]) : Before(w, q, p)

(* The clients of box i send a packet.                                      *)
LEMMA TodoTail ==
  ASSUME NEW w, NEW c, NEW h, NEW sn, NEW td, InOrder(w, c, h, sn, td),
         NEW i \in Box, td[i] # <<>>
  PROVE  LET t2 == [td EXCEPT ![i] = Tail(@)]
             p  == Head(td[i])
         IN  /\ InOrder(w, c, h, sn, t2)
             /\ p \in Passed(w, i, sn[i], t2[i])
             /\ \A v \in nbr[i] : MayFollow(w, c, h, sn, i, v, p)
<1> DEFINE t2 == [td EXCEPT ![i] = Tail(@)]
           p  == Head(td[i])
           all == scenario.todo[i]
           n  == Len(td[i])
<1>1. /\ scenario \in Scenario /\ OnTree(scenario, w) /\ w \in Way
      /\ td \in [Box -> Seq(Packet)]
  BY DEF InOrder, Shape
<1>2. td[i] \in Seq(Packet) /\ all \in Seq(Packet)
  BY <1>1 DEF Scenario
<1>3. /\ Tail(td[i]) \in Seq(Packet) /\ n \in Nat /\ n > 0 /\ p = td[i][1] /\ p \in Packet
      /\ Len(Tail(td[i])) = n - 1 /\ Len(all) \in Nat
      /\ \A k \in 1 .. n - 1 : Tail(td[i])[k] = td[i][k + 1]
  <2>1. Len(td[i]) \in Nat \ {0} /\ Head(td[i]) = td[i][1]
    BY <1>2, EmptySeq
  <2> QED BY <1>2, <2>1, HeadTailProperties, LenProperties
<1>4. /\ t2 \in [Box -> Seq(Packet)] /\ t2[i] = Tail(td[i])
      /\ \A u \in Box : u # i => t2[u] = td[u]
  BY <1>1, <1>3
<1>5. Remaining(i, td[i])
  BY DEF InOrder
<1>6. n <= Len(all) /\ \A k \in 1 .. n : td[i][k] = all[Len(all) - n + k]
  BY <1>5 DEF Remaining
<1>7. \A k \in 1 .. Len(all) : w.src[all[k]] = i /\ w.pos[all[k]] = k
  BY <1>1 DEF OnTree
<1> HIDE DEF t2, p, n, all
<1>8. w.src[p] = i /\ w.pos[p] = Len(all) - n + 1
  <2>1. Len(all) - n + 1 \in 1 .. Len(all) /\ 1 \in 1 .. n
    BY <1>3, <1>6
  <2>2. p = all[Len(all) - n + 1]
    BY <1>3, <1>6, <2>1
  <2> QED BY <1>7, <2>1, <2>2
<1>9. Remaining(i, t2[i])
  <2>1. Len(t2[i]) = n - 1 /\ n - 1 <= Len(all)
    BY <1>3, <1>4, <1>6
  <2>2. ASSUME NEW k \in 1 .. n - 1
        PROVE  t2[i][k] = all[Len(all) - (n - 1) + k]
    <3>1. k + 1 \in 1 .. n /\ Len(all) - n + (k + 1) = Len(all) - (n - 1) + k
      BY <1>3
    <3>2. t2[i][k] = td[i][k + 1]
      BY <1>3, <1>4
    <3>3. td[i][k + 1] = all[Len(all) - n + (k + 1)]
      BY <1>6, <3>1
    <3> QED BY <3>1, <3>2, <3>3
  <2> QED BY <2>1, <2>2 DEF Remaining, all
<1>10. /\ Passed(w, i, sn[i], td[i]) \subseteq Passed(w, i, sn[i], t2[i])
      /\ p \in Passed(w, i, sn[i], t2[i])
  <2>1. w.pos \in [Packet -> Nat]
    BY <1>1 DEF Way
  <2>2. \A q \in Packet : w.pos[q] \in Nat
    BY <2>1
  <2>3. Len(t2[i]) = n - 1 /\ Len(td[i]) = n
    BY <1>3, <1>4 DEF n
  <2>4. \A x \in Nat : x <= Len(all) - n => x <= Len(all) - (n - 1)
    BY <1>3
  <2>5. p \in Passed(w, i, sn[i], t2[i])
    <3>1. w.pos[p] <= Len(all) - (n - 1)
      BY <1>3, <1>8
    <3> QED BY <1>3, <1>8, <2>3, <3>1 DEF Passed, all
  <2>6. Passed(w, i, sn[i], td[i]) \subseteq Passed(w, i, sn[i], t2[i])
    BY <2>2, <2>3, <2>4 DEF Passed, all
  <2> QED BY <2>5, <2>6
<1>11. \A u \in Box : Passed(w, u, sn[u], td[u]) \subseteq Passed(w, u, sn[u], t2[u])
  BY <1>4, <1>10
<1>12. \A u \in Box : \A v \in nbr[u] : Forwarded(w, c, h, sn, t2, u, v)
  BY <1>11 DEF InOrder, Forwarded
<1>13. Shape(w, c, h, sn, t2)
  BY <1>4 DEF InOrder, Shape
<1>14. InOrder(w, c, h, sn, t2)
  BY <1>4, <1>9, <1>12, <1>13 DEF InOrder
<1>15. ASSUME NEW v \in nbr[i] PROVE MayFollow(w, c, h, sn, i, v, p)
  <2>1. Begun(c[<<i, v>>], h[<<i, v>>]) \cup CameOver(w, <<i, v>>, sn[v])
          \subseteq Passed(w, i, sn[i], td[i])
    BY DEF InOrder, Forwarded
  <2>2. i \in w.side[<<i, v>>]
    BY <1>1 DEF OnTree, nbr
  <2>3. ASSUME NEW q \in Passed(w, i, sn[i], td[i]) PROVE Before(w, q, p)
    <3>1. w.pos \in [Packet -> Nat] /\ q \in Packet
      BY <1>1 DEF Way, Passed
    <3>2. w.src[q] = i => w.pos[q] <= Len(all) - n
      BY DEF Passed, all, n
    <3>3. w.pos[q] \in Nat
      BY <3>1
    <3> QED BY <1>3, <1>8, <3>2, <3>3 DEF Before
  <2> QED BY <1>8, <2>1, <2>2, <2>3 DEF MayFollow
<1> QED BY <1>10, <1>14, <1>15 DEF t2, p

(* A packet that may follow is sent on the links out of box i.              *)
Outgoing(i, from) == {l \in Links : l[1] = i /\ l[2] \in Receivers(i, from)}
Sent(c, i, from, m) ==
  [l \in Links |-> IF l \in Outgoing(i, from)
                   THEN c[l] \o SendSeq(l, m) \o SendMessage(sendData[l], m)
                   ELSE c[l]]

LEMMA Sends ==
  ASSUME TypeOK, NEW w, NEW c, NEW h, NEW sn, NEW td, InOrder(w, c, h, sn, td),
         NEW i \in Box, NEW from, NEW m \in Message,
         m.head \in Passed(w, i, sn[i], td[i]),
         \A v \in nbr[i] \ {from} : MayFollow(w, c, h, sn, i, v, m.head)
  PROVE  InOrder(w, Sent(c, i, from, m), h, sn, td)
<1> DEFINE c2 == Sent(c, i, from, m)
<1>1. /\ scenario \in Scenario /\ c \in [Links -> Seq(Frame)]
      /\ h \in [Links -> Message \cup {None}] /\ \A l \in Links : Wire(c[l])
  BY DEF InOrder, Shape
<1>2. \A l \in Links : /\ l \in Outgoing(i, from) => c2[l] = c[l] \o Burst(l, m)
                       /\ l \notin Outgoing(i, from) => c2[l] = c[l]
  <2> SUFFICES ASSUME NEW l \in Links
               PROVE  c[l] \o SendSeq(l, m) \o SendMessage(sendData[l], m) = c[l] \o Burst(l, m)
    BY DEF Sent
  <2> DEFINE x == c[l]
             y == SendSeq(l, m)
             z == SendMessage(sendData[l], m)
  <2>1. x \in Seq(Frame) /\ y \in Seq(Frame) /\ z \in Seq(Frame)
    BY <1>1, SentFrames
  <2> HIDE DEF x, y, z
  <2>2. (x \o y) \o z = x \o (y \o z)
    BY <2>1, JoinIsAssociative
  <2> QED BY <2>2 DEF Burst, x, y, z
<1> HIDE DEF c2
<1>3. ASSUME NEW l \in Links PROVE c2[l] \in Seq(Frame) /\ Wire(c2[l])
  <2>1. CASE l \in Outgoing(i, from)
    <3> DEFINE d == Burst(l, m)
               e == c[l]
    <3>1. /\ d \in Seq(Frame) /\ Wire(d) /\ e \in Seq(Frame) /\ Wire(e)
          /\ d # <<>> => ~ (IsData(d[1]) /\ d[1].k = 2)
      BY <1>1, BurstFrames
    <3> HIDE DEF d, e
    <3>2. e \o d \in Seq(Frame) /\ Wire(e \o d)
      BY <3>1, JoinedWire, ConcatProperties
    <3> QED BY <1>2, <2>1, <3>2 DEF d, e
  <2>2. CASE l \notin Outgoing(i, from)
    BY <1>1, <1>2, <2>2
  <2> QED BY <2>1, <2>2
<1>4. c2 \in [Links -> Seq(Frame)]
  <2>1. c2 = [l \in Links |-> c2[l]]
    BY DEF c2, Sent
  <2> QED BY <1>3, <2>1
<1>5. ASSUME NEW u \in Box, NEW v \in nbr[u]
      PROVE  /\ Ordered(w, c2[<<u, v>>], h[<<u, v>>], CameOver(w, <<u, v>>, sn[v]))
             /\ \A p \in Begun(c2[<<u, v>>], h[<<u, v>>]) :
                  \/ p \in Begun(c[<<u, v>>], h[<<u, v>>])
                  \/ p \in Passed(w, u, sn[u], td[u]) /\ w.src[p] \in w.side[<<u, v>>]
  <2> DEFINE l == <<u, v>>
             g == CameOver(w, l, sn[v])
  <2>1. l \in Links /\ l[1] = u /\ l[2] = v
    BY <1>1, OnNeighbors
  <2>2. Ordered(w, c[l], h[l], g)
    BY DEF InOrder, Forwarded
  <2>3. CASE l \notin Outgoing(i, from)
    BY <1>2, <2>1, <2>2, <2>3
  <2>4. CASE l \in Outgoing(i, from)
    <3> DEFINE d == Burst(l, m)
               e == c[l]
    <3>1. u = i /\ v \in nbr[i] \ {from}
      BY <2>1, <2>4 DEF Outgoing, Receivers
    <3>2. MayFollow(w, c, h, sn, i, v, m.head)
      BY <3>1
    <3>3. /\ w.src[m.head] \in w.side[l]
          /\ \A q \in Begun(e, h[l]) \cup g : Before(w, q, m.head)
      BY <3>1, <3>2 DEF MayFollow
    <3>4. /\ d \in Seq(Frame) /\ \A a \in 1 .. Len(d) : IsData(d[a]) => d[a].m = m
          /\ \A a, b \in Starts(d) : a = b
      BY <2>1, BurstFrames
    <3>5. e \in Seq(Frame) /\ h[l] \in Message \cup {None} /\ c2[l] = e \o d
      BY <1>1, <1>2, <2>1, <2>4
    <3> DEFINE b == h[l]
               p == m.head
    <3>6. OneBurst(w, e, b, g, d, p)
      BY <3>3, <3>4 DEF OneBurst
    <3>7. Ordered(w, e, b, g) /\ b \in Message \cup {None}
      BY <2>2, <3>5
    <3> HIDE DEF b, p, d, e, g
    <3>8. Extended(w, e, b, g, d, p)
      BY <3>4, <3>5, <3>6, <3>7, JoinedOrdered
    <3>9. /\ Ordered(w, c2[l], h[l], g)
          /\ \A q \in Begun(c2[l], h[l]) : q \in Begun(c[l], h[l]) \/ q = m.head
      BY <3>5, <3>8 DEF Extended, b, p, e
    <3> QED BY <3>1, <3>3, <3>9 DEF g
  <2> QED BY <2>3, <2>4
<1>6. InOrder(w, c2, h, sn, td)
  BY <1>1, <1>3, <1>4, <1>5, ChannelsOrdered
<1> QED BY <1>6 DEF c2

LEMMA DropHead ==
  ASSUME NEW w, NEW c, NEW h, NEW sn, NEW td, InOrder(w, c, h, sn, td),
         NEW u \in Box, NEW v \in nbr[u], c[<<u, v>>] # <<>>
  PROVE  InOrder(w, [c EXCEPT ![<<u, v>>] = Tail(@)], h, sn, td)
<1> DEFINE l == <<u, v>>
           e == Tail(c[l])
           b == h[l]
<1>1. /\ scenario \in Scenario /\ c \in [Links -> Seq(Frame)] /\ l \in Links
      /\ h \in [Links -> Message \cup {None}] /\ Wire(c[l])
  BY OnNeighbors DEF InOrder, Shape
<1>2. c[l] \in Seq(Frame) /\ b \in Message \cup {None}
  BY <1>1
<1>3. Ordered(w, c[l], b, CameOver(w, l, sn[v]))
  BY DEF InOrder, Forwarded
<1>4. /\ e \in Seq(Frame) /\ Wire(e) /\ Ordered(w, e, b, CameOver(w, <<u, v>>, sn[v]))
      /\ Begun(e, b) \subseteq Begun(c[<<u, v>>], h[<<u, v>>])
  BY <1>1, <1>2, <1>3, TailOrdered
<1>5. [c EXCEPT ![l] = Tail(@)] = [c EXCEPT ![l] = e] /\ h = [h EXCEPT ![l] = b]
  BY <1>1
<1> HIDE DEF e, b
<1>6. InOrder(w, [c EXCEPT ![<<u, v>>] = e], [h EXCEPT ![<<u, v>>] = b], sn, td)
  BY <1>2, <1>4, OneChannel
<1> QED BY <1>5, <1>6

LEMMA AddPlain ==
  ASSUME NEW w, NEW c, NEW h, NEW sn, NEW td, InOrder(w, c, h, sn, td),
         NEW u \in Box, NEW v \in nbr[u], NEW f \in Frame, ~ IsData(f)
  PROVE  InOrder(w, [c EXCEPT ![<<u, v>>] = Append(@, f)], h, sn, td)
<1> DEFINE l == <<u, v>>
           e == Append(c[l], f)
           b == h[l]
<1>1. /\ scenario \in Scenario /\ c \in [Links -> Seq(Frame)] /\ l \in Links
      /\ h \in [Links -> Message \cup {None}] /\ Wire(c[l])
  BY OnNeighbors DEF InOrder, Shape
<1>2. c[l] \in Seq(Frame) /\ b \in Message \cup {None}
  BY <1>1
<1>3. Ordered(w, c[l], b, CameOver(w, l, sn[v]))
  BY DEF InOrder, Forwarded
<1>4. /\ e \in Seq(Frame) /\ Wire(e) /\ Ordered(w, e, b, CameOver(w, <<u, v>>, sn[v]))
      /\ Begun(e, b) \subseteq Begun(c[<<u, v>>], h[<<u, v>>])
  BY <1>1, <1>2, <1>3, PlainOrdered
<1>5. [c EXCEPT ![l] = Append(@, f)] = [c EXCEPT ![l] = e] /\ h = [h EXCEPT ![l] = b]
  BY <1>1
<1> HIDE DEF e, b
<1>6. InOrder(w, [c EXCEPT ![<<u, v>>] = e], [h EXCEPT ![<<u, v>>] = b], sn, td)
  BY <1>2, <1>4, OneChannel
<1> QED BY <1>5, <1>6

(* The state is in order, and a step that leads to c, h, s and t keeps it.  *)
AllInOrder(w) == InOrder(w, chan, held, seen, todo)

LEMMA OrderAfter ==
  ASSUME NEW w, NEW c, NEW h, NEW s, NEW t, InOrder(w, c, h, s, t),
         scenario' = scenario, chan' = c, held' = h, seen' = s, todo' = t
  PROVE  AllInOrder(w)'
<1>1. nbr' = nbr
  BY DEF nbr
<1> QED BY <1>1 DEF AllInOrder, InOrder, Shape, Forwarded, Passed, Remaining

LEMMA SelectInOrder ==
  ASSUME NEW w, AllInOrder(w), NEW i \in Box, Select(i)
  PROVE  AllInOrder(w)'
<1>1. InOrder(w, chan, held, seen, todo) /\ scenario' = scenario
      /\ chan' = chan /\ held' = held /\ seen' = seen /\ todo' = todo
  BY DEF AllInOrder, Select
<1> QED BY <1>1, OrderAfter

LEMMA DropInOrder ==
  ASSUME NEW w, AllInOrder(w), NEW i \in Box, NEW j \in nbr[i], chan[<<i, j>>] # <<>>,
         chan' = [chan EXCEPT ![<<i, j>>] = Tail(@)],
         UNCHANGED <<scenario, held, seen, todo>>
  PROVE  AllInOrder(w)'
<1> DEFINE c2 == [chan EXCEPT ![<<i, j>>] = Tail(@)]
<1>1. InOrder(w, c2, held, seen, todo)
  BY DropHead DEF AllInOrder
<1>2. scenario' = scenario /\ chan' = c2 /\ held' = held /\ seen' = seen /\ todo' = todo
  OBVIOUS
<1> HIDE DEF c2
<1> QED BY <1>1, <1>2, OrderAfter

LEMMA TimeoutInOrder ==
  ASSUME Kept, NEW w, AllInOrder(w), NEW i \in Box, Timeout(i)
  PROVE  AllInOrder(w)'
<1> DEFINE again(l) == [kind |-> "seq", num |-> sendSequence[l], len |-> messageLen[l]]
           c2 == [l \in Links |->
                    IF l[1] = i /\ l[2] \in nbr[i] /\ awaitingAck[l]
                    THEN Append(chan[l], again(l)) ELSE chan[l]]
<1>1. /\ TypeOK /\ scenario \in Scenario /\ \A l \in Links : Wire(chan[l])
      /\ chan \in [Links -> Seq(Frame)] /\ held \in [Links -> Message \cup {None}]
      /\ InOrder(w, chan, held, seen, todo)
  BY DEF AllInOrder, InOrder, Shape, Kept
<1>2. \A l \in Links : again(l) \in Frame /\ ~ IsData(again(l))
  BY <1>1 DEF TypeOK, Frame, IsData
<1>3. scenario' = scenario /\ chan' = c2 /\ held' = held /\ seen' = seen /\ todo' = todo
  BY DEF Timeout
<1> HIDE DEF again
<1>4. ASSUME NEW u \in Box, NEW v \in nbr[u]
      PROVE  /\ Ordered(w, c2[<<u, v>>], held[<<u, v>>], CameOver(w, <<u, v>>, seen[v]))
             /\ Begun(c2[<<u, v>>], held[<<u, v>>]) \subseteq Begun(chan[<<u, v>>], held[<<u, v>>])
  <2> DEFINE l == <<u, v>>
             c == chan[l]
             h == held[l]
             f == again(l)
             g == CameOver(w, l, seen[v])
  <2>1. l \in Links
    BY <1>1, OnNeighbors
  <2>2. Ordered(w, c, h, g)
    BY <1>1 DEF InOrder, Forwarded
  <2>3. /\ c \in Seq(Frame) /\ h \in Message \cup {None} /\ Wire(c)
        /\ f \in Frame /\ ~ IsData(f)
    BY <1>1, <1>2, <2>1
  <2>4. c2[l] = c \/ c2[l] = Append(c, f)
    BY <2>1
  <2> HIDE DEF c, h, f, g, c2
  <2>5. Ordered(w, Append(c, f), h, g) /\ Begun(Append(c, f), h) \subseteq Begun(c, h)
    BY <2>2, <2>3, PlainOrdered
  <2> QED BY <2>2, <2>4, <2>5 DEF c, h, g
<1>5. ASSUME NEW l \in Links PROVE c2[l] \in Seq(Frame) /\ Wire(c2[l])
  <2> DEFINE c == chan[l]
             f == again(l)
  <2>1. c \in Seq(Frame) /\ Wire(c) /\ f \in Frame /\ ~ IsData(f)
    BY <1>1, <1>2
  <2>2. c2[l] = c \/ c2[l] = Append(c, f)
    OBVIOUS
  <2> HIDE DEF c, f, c2
  <2> DEFINE d == <<f>>
  <2>3. d \in Seq(Frame) /\ Append(c, f) = c \o d /\ Len(d) = 1 /\ d[1] = f
    BY <2>1, AppendIsConcat
  <2> HIDE DEF d
  <2>4. Wire(d) /\ ~ (IsData(d[1]) /\ d[1].k = 2)
    BY <2>1, <2>3 DEF Wire
  <2>5. Wire(c \o d) /\ c \o d \in Seq(Frame)
    BY <2>1, <2>3, <2>4, JoinedWire, ConcatProperties
  <2> QED BY <2>1, <2>2, <2>3, <2>5
<1>6. c2 \in [Links -> Seq(Frame)]
  <2>1. c2 = [l \in Links |-> c2[l]]
    OBVIOUS
  <2> HIDE DEF c2
  <2> QED BY <1>5, <2>1
<1> HIDE DEF c2
<1>7. InOrder(w, c2, held, seen, todo)
  BY <1>1, <1>4, <1>5, <1>6, ChannelsOrdered
<1> QED BY <1>3, <1>7, OrderAfter

LEMMA FromClientInOrder ==
  ASSUME Kept, NEW w, AllInOrder(w), NEW i \in Box, FromClient(i)
  PROVE  AllInOrder(w)'
<1> DEFINE p  == Head(todo[i])
           m  == Whole(p)
           t2 == [todo EXCEPT ![i] = Tail(@)]
           c2 == Sent(chan, i, Client, m)
<1>1. /\ TypeOK /\ InOrder(w, chan, held, seen, todo)
  BY DEF AllInOrder, Kept
<1>2. todo[i] # <<>> /\ todo[i] \in Seq(Packet)
  BY <1>1 DEF FromClient, Read, HasInput, TypeOK
<1>3. m \in Message /\ m.head = p
  BY <1>2 DEF Whole, Message
<1>4. /\ InOrder(w, chan, held, seen, t2)
      /\ p \in Passed(w, i, seen[i], t2[i])
      /\ \A v \in nbr[i] : MayFollow(w, chan, held, seen, i, v, p)
  BY <1>1, <1>2, TodoTail
<1>5. /\ scenario' = scenario /\ chan' = c2 /\ held' = held /\ todo' = t2 /\ seen' = seen
  <2>1. Forward(i, Client, m, chan) /\ UNCHANGED <<scenario, held>> /\ todo' = t2
    BY DEF FromClient
  <2> QED BY <2>1 DEF Forward, Outgoing, Sent
<1> HIDE DEF m, t2, p
<1>6. InOrder(w, c2, held, seen, t2)
  BY <1>1, <1>3, <1>4, Sends
<1> HIDE DEF c2
<1> QED BY <1>5, <1>6, OrderAfter

LEMMA FromDataInOrder ==
  ASSUME Kept, NEW w, AllInOrder(w), NEW i \in Box, NEW j \in nbr[i], FromData(i, j)
  PROVE  AllInOrder(w)'
<1> DEFINE l    == <<j, i>>
           f    == Head(chan[l])
           rest == [chan EXCEPT ![l] = Tail(@)]
           done == Completed(held[l], f)
           ackd == \E m \in done : Acked(l, m)
           ack  == [kind |-> "ack", num |-> recvSequence[l]]
           sent == IF ackd THEN [rest EXCEPT ![<<i, j>>] = Append(@, ack)] ELSE rest
           h2   == [held EXCEPT ![l] = HeldAfter(@, f)]
<1>1. /\ TypeOK /\ InOrder(w, chan, held, seen, todo)
      /\ scenario \in Scenario /\ chan \in [Links -> Seq(Frame)]
      /\ j \in Box /\ i \in nbr[j] /\ l \in Links /\ <<i, j>> \in Links /\ j # i
  BY OnNeighbors DEF AllInOrder, InOrder, Shape, Kept
<1>2. chan[l] # <<>> /\ IsData(f)
  BY <1>1, ConstAssumption DEF FromData, Read, HasInput, IsData
<1>3. /\ InOrder(w, rest, h2, seen, todo)
      /\ \A m \in done : m \in Message /\ Arrived(w, rest, h2, seen, todo, i, j, m.head)
  BY <1>1, <1>2, ReadInOrder
<1>4. ack \in Frame /\ ~ IsData(ack)
  BY <1>1 DEF TypeOK, Frame, IsData
<1>5. /\ scenario' = scenario /\ held' = h2 /\ todo' = todo
      /\ IF \E m \in done : MessageOk(l, m)
         THEN \E m \in done : Forward(i, j, m, sent)
         ELSE chan' = sent /\ seen' = seen
  BY DEF FromData
<1>6. rest \in [Links -> Seq(Frame)] /\ rest[l] = sent[l]
  <2>1. rest \in [Links -> Seq(Frame)]
    BY <1>3 DEF InOrder, Shape
  <2>2. l # <<i, j>>
    BY <1>1
  <2> HIDE DEF rest, ack, ackd
  <2> QED BY <1>1, <2>1, <2>2
<1> HIDE DEF ack, ackd, rest, f, h2, done
<1>7. InOrder(w, sent, h2, seen, todo)
  <2>1. InOrder(w, [rest EXCEPT ![<<i, j>>] = Append(@, ack)], h2, seen, todo)
    BY <1>1, <1>3, <1>4, AddPlain
  <2> QED BY <1>3, <2>1
<1>8. \A m \in done : m \in Message /\ Arrived(w, sent, h2, seen, todo, i, j, m.head)
  BY <1>3, <1>6 DEF Arrived
<1> HIDE DEF sent
<1>9. CASE \E m \in done : MessageOk(l, m)
  <2>1. PICK m \in done : Forward(i, j, m, sent)
    BY <1>5, <1>9
  <2> DEFINE s2 == [seen EXCEPT ![i] = Append(@, m)]
             c2 == Sent(sent, i, j, m)
             p  == m.head
  <2>2. m \in Message /\ Arrived(w, sent, h2, seen, todo, i, j, p)
    BY <1>8
  <2>3. InOrder(w, sent, h2, s2, todo)
    BY <1>7, <2>2, Deliver
  <2>4. chan' = c2 /\ seen' = s2
    <3>1. j # Client
      BY <1>1, ConstAssumption
    <3> QED BY <2>1, <3>1 DEF Forward, Outgoing, Sent
  <2>5. /\ OnTree(scenario, w) /\ seen \in [Box -> Seq(Message)]
        /\ h2 \in [Links -> Message \cup {None}]
    BY <1>7 DEF InOrder, Shape
  <2>6. /\ p \in Packet /\ w.src[p] \in w.side[l] /\ w.src[p] # i
        /\ \A q \in Shown(seen[i]) : Before(w, q, p)
    <3>1. i \notin w.side[l]
      BY <1>1, <2>5 DEF OnTree, nbr
    <3> QED BY <2>2, <3>1 DEF Arrived
  <2>7. s2[i] = Append(seen[i], m) /\ \A v \in Box : v # i => s2[v] = seen[v]
    BY <2>5
  <2>8. Shown(s2[i]) = Shown(seen[i]) \cup {p}
    <3>1. seen[i] \in Seq(Message)
      BY <2>5
    <3> QED BY <2>2, <2>7, <3>1, ShownAfter
  <2>9. p \in Passed(w, i, s2[i], todo[i])
    BY <2>6, <2>8 DEF Passed
  <2>10. ASSUME NEW v \in nbr[i] \ {j}
         PROVE  MayFollow(w, sent, h2, s2, i, v, p)
    <3>1. v \in Box /\ v # i
      BY <1>1, OnNeighbors
    <3>2. w.side[l] \subseteq w.side[<<i, v>>]
      <4>1. \A x, y \in scenario.nbr[i] : x # y => w.side[<<y, i>>] \subseteq w.side[<<i, x>>]
        BY <2>5 DEF OnTree
      <4> QED BY <4>1 DEF nbr
    <3>3. Forwarded(w, sent, h2, seen, todo, i, v)
      BY <1>7 DEF InOrder
    <3>4. Begun(sent[<<i, v>>], h2[<<i, v>>]) \cup CameOver(w, <<i, v>>, seen[v])
            \subseteq Passed(w, i, seen[i], todo[i])
      BY <3>3 DEF Forwarded
    <3>5. \A q \in Passed(w, i, seen[i], todo[i]) : Before(w, q, p)
      BY <2>6 DEF Passed, Before
    <3>6. s2[v] = seen[v]
      BY <2>7, <3>1
    <3> HIDE DEF s2, c2, p
    <3> QED BY <2>6, <3>2, <3>4, <3>5, <3>6 DEF MayFollow
  <2> HIDE DEF s2
  <2>11. InOrder(w, c2, h2, s2, todo)
    BY <1>1, <2>2, <2>3, <2>9, <2>10, Sends
  <2> HIDE DEF c2
  <2> QED BY <1>5, <2>4, <2>11, OrderAfter
<1>10. CASE ~ \E m \in done : MessageOk(l, m)
  <2>1. chan' = sent /\ seen' = seen
    BY <1>5, <1>10
  <2> QED BY <1>5, <1>7, <2>1, OrderAfter
<1> QED BY <1>9, <1>10

LEMMA InitInOrder ==
  ASSUME Init, NEW w \in Way, OnTree(scenario, w)
  PROVE  AllInOrder(w)
<1>1. TypeOK
  BY InitOK
<1>2. Shape(w, chan, held, seen, todo)
  BY <1>1 DEF Shape, TypeOK
<1>3. /\ scenario \in Scenario /\ todo = scenario.todo
      /\ \A l \in Links : chan[l] = <<>> /\ held[l] = None
      /\ \A i \in Box : seen[i] = <<>>
  BY <1>1 DEF Init, TypeOK
<1>4. Len(<<>>) = 0
  OBVIOUS
<1>5. \A l \in Links : Wire(chan[l])
  BY <1>3, <1>4 DEF Wire
<1>6. \A i \in Box : SeenInOrder(w, seen[i]) /\ Shown(seen[i]) = {}
  BY <1>3, <1>4 DEF SeenInOrder, Shown
<1>7. ASSUME NEW i \in Box PROVE Remaining(i, todo[i])
  <2>1. scenario.todo[i] \in Seq(Packet)
    BY <1>3 DEF Scenario
  <2>2. Len(scenario.todo[i]) \in Nat
    BY <2>1, LenProperties
  <2> DEFINE n == Len(scenario.todo[i])
  <2>3. \A k \in 1 .. n : n - n + k = k
    BY <2>2
  <2>4. n <= n
    BY <2>2
  <2> QED BY <1>3, <2>3, <2>4 DEF Remaining
<1>8. ASSUME NEW u \in Box, NEW v \in nbr[u]
      PROVE  Forwarded(w, chan, held, seen, todo, u, v)
  <2> DEFINE l == <<u, v>>
  <2>1. l \in Links /\ v \in Box
    BY <1>3, OnNeighbors
  <2>2. chan[l] = <<>> /\ held[l] = None
    BY <1>3, <2>1
  <2>3. CameOver(w, l, seen[v]) = {}
    BY <1>6, <2>1 DEF CameOver
  <2>4. Begun(chan[l], held[l]) = {} /\ Starts(chan[l]) = {} /\ HeldHead(held[l]) = {}
    BY <1>4, <2>2 DEF Begun, Starts, HeldHead
  <2>5. Ordered(w, chan[l], held[l], CameOver(w, l, seen[v]))
    BY <2>3, <2>4 DEF Ordered, InChannel, AfterAll
  <2> QED BY <2>3, <2>4, <2>5 DEF Forwarded
<1> QED BY <1>2, <1>5, <1>6, <1>7, <1>8 DEF AllInOrder, InOrder

LEMMA NextInOrder ==
  ASSUME Kept, NEW w, AllInOrder(w), [Next]_vars
  PROVE  AllInOrder(w)'
<1>1. ASSUME NEW i \in Box, Round(i) PROVE AllInOrder(w)'
  <2>1. CASE Select(i)
    BY <2>1, SelectInOrder
  <2>2. CASE FromClient(i)
    BY <2>2, FromClientInOrder
  <2>3. ASSUME NEW j \in nbr[i], FromSeq(i, j) \/ FromAck(i, j) PROVE AllInOrder(w)'
    <3>1. scenario \in Scenario
      BY DEF AllInOrder, InOrder, Shape
    <3>2. j \in Box /\ i \in nbr[j]
      BY <3>1, OnNeighbors
    <3>3. chan[<<j, i>>] # <<>>
      BY <2>3, <3>2, ConstAssumption DEF FromSeq, FromAck, Read, HasInput
    <3>4. /\ chan' = [chan EXCEPT ![<<j, i>>] = Tail(@)]
          /\ UNCHANGED <<scenario, held, seen, todo>>
      BY <2>3 DEF FromSeq, FromAck
    <3> QED BY <3>2, <3>3, <3>4, DropInOrder
  <2>4. ASSUME NEW j \in nbr[i], FromData(i, j) PROVE AllInOrder(w)'
    BY <2>4, FromDataInOrder
  <2>5. CASE Timeout(i)
    BY <2>5, TimeoutInOrder
  <2> QED BY <1>1, <2>1, <2>2, <2>3, <2>4, <2>5 DEF Round
<1>2. ASSUME NEW i \in Box, NEW j \in Box, j \in nbr[i], Lose(i, j) PROVE AllInOrder(w)'
  <2>1. /\ chan[<<i, j>>] # <<>> /\ chan' = [chan EXCEPT ![<<i, j>>] = Tail(@)]
        /\ UNCHANGED <<scenario, held, seen, todo>>
    BY <1>2 DEF Lose
  <2> QED BY <1>2, <2>1, DropInOrder
<1>3. CASE UNCHANGED vars
  <2>1. InOrder(w, chan, held, seen, todo) /\ scenario' = scenario
        /\ chan' = chan /\ held' = held /\ seen' = seen /\ todo' = todo
    BY <1>3 DEF AllInOrder, vars
  <2> QED BY <2>1, OrderAfter
<1> QED BY <1>1, <1>2, <1>3 DEF Next

(* What was seen in order is in order: the order of the positions.          *)
LEMMA OrderSeen == ASSUME NEW w, AllInOrder(w) PROVE InOrderOnce
<1>1. /\ OnTree(scenario, w) /\ scenario \in Scenario /\ seen \in [Box -> Seq(Message)]
      /\ \A i \in Box : SeenInOrder(w, seen[i])
  BY DEF AllInOrder, InOrder, Shape
<1> SUFFICES ASSUME NEW i \in Box, NEW j \in Box,
                    NEW x \in DOMAIN scenario.todo[j], NEW y \in DOMAIN scenario.todo[j],
                    NEW e \in DOMAIN seen[i], NEW f \in DOMAIN seen[i],
                    seen[i][e] = Whole(scenario.todo[j][x]),
                    seen[i][f] = Whole(scenario.todo[j][y])
             PROVE  x < y <=> e < f
  BY DEF InOrderOnce
<1>2. /\ scenario.todo[j] \in Seq(Packet) /\ seen[i] \in Seq(Message)
  BY <1>1 DEF Scenario
<1>3. /\ x \in 1 .. Len(scenario.todo[j]) /\ y \in 1 .. Len(scenario.todo[j])
      /\ e \in 1 .. Len(seen[i]) /\ f \in 1 .. Len(seen[i])
      /\ x \in Int /\ y \in Int /\ e \in Int /\ f \in Int
      /\ e \in 1 .. Len(seen[i]) /\ f \in 1 .. Len(seen[i])
      /\ x \in Int /\ y \in Int /\ e \in Int /\ f \in Int
  <2>1. ASSUME NEW S, NEW q \in Seq(S), NEW z \in DOMAIN q
        PROVE  z \in 1 .. Len(q) /\ z \in Int
    BY LenProperties
  <2>2. x \in 1 .. Len(scenario.todo[j]) /\ x \in Int
    BY <1>2, <2>1
  <2>3. y \in 1 .. Len(scenario.todo[j]) /\ y \in Int
    BY <1>2, <2>1
  <2>4. e \in 1 .. Len(seen[i]) /\ e \in Int
    BY <1>2, <2>1
  <2>5. f \in 1 .. Len(seen[i]) /\ f \in Int
    BY <1>2, <2>1
  <2> QED BY <2>2, <2>3, <2>4, <2>5
<1> DEFINE p == scenario.todo[j][x]
           q == scenario.todo[j][y]
<1>4. w.src[p] = j /\ w.pos[p] = x /\ w.src[q] = j /\ w.pos[q] = y
  BY <1>1, <1>3 DEF OnTree
<1>5. seen[i][e].head = p /\ seen[i][f].head = q
  BY DEF Whole
<1> HIDE DEF p, q
<1>6. e < f => x < y
  BY <1>1, <1>3, <1>4, <1>5 DEF SeenInOrder, Before
<1>7. f < e => y < x
  BY <1>1, <1>3, <1>4, <1>5 DEF SeenInOrder, Before
<1>8. e = f => x = y
  BY <1>4, <1>5
<1> QED BY <1>3, <1>6, <1>7, <1>8

(* Every scenario is a tree on which every packet is sent once.             *)
Trees == \A x \in Scenarios : \E w \in Way : OnTree(x, w)

(* On every tree, with every packet sent once, the clients of a box get the *)
(* packets of another box in the order they were sent in and none of them   *)
(* twice, whatever frames are lost, whatever acknowledgements are late and  *)
(* however often a packet is announced again.                               *)
THEOREM InOrderOnEveryTree == ASSUME Trees PROVE Spec => []InOrderOnce
<1> DEFINE Good == \E w : AllInOrder(w)
<1>1. Init => Kept /\ Good
  <2> SUFFICES ASSUME Init PROVE Kept /\ Good
    OBVIOUS
  <2>1. PICK w \in Way : OnTree(scenario, w)
    BY DEF Init, Trees
  <2> QED BY <2>1, InitOK, InitInOrder DEF Kept
<1>2. Kept /\ Good /\ [Next]_vars => Kept' /\ Good'
  <2> SUFFICES ASSUME Kept, Good, [Next]_vars PROVE Kept' /\ Good'
    OBVIOUS
  <2>1. PICK w : AllInOrder(w)
    OBVIOUS
  <2>2. AllInOrder(w)'
    BY <2>1, NextInOrder
  <2>3. Good'
    BY <2>2
  <2> QED BY <2>3, NextKeeps
<1>3. Good => InOrderOnce
  BY OrderSeen
<1> HIDE DEF Good
<1> QED BY <1>1, <1>2, <1>3, PTL DEF Spec

-----------------------------------------------------------------------------
(* Mixtures.  A first frame is held while its last frame is the next one to *)
(* be read, or has been lost; then the next first frame must be lost too    *)
(* before another last frame can meet it.                                   *)
LastAtHead(c) == c # <<>> /\ IsData(Head(c)) /\ Head(c).k = 2
Waiting(c, h, n) ==
  h # None => \/ n >= 2
              \/ LastAtHead(c) /\ Head(c).m = h
              \/ n >= 1 /\ ~ LastAtHead(c)
Sound(c, h, n) == Wire(c) /\ Waiting(c, h, n)
WholeLink(c, h) == /\ h # None => IsWhole(h)
                   /\ \A a \in 1 .. Len(c) : IsData(c[a]) => IsWhole(c[a].m)

(* What a step may do to a link: nothing, read a frame that is no data,     *)
(* lose a frame, read a data frame, or send frames d.                       *)
Follows(d) == Wire(d) /\ (d # <<>> => ~ (IsData(d[1]) /\ d[1].k = 2))
Moves(c, h, n, c2, h2, n2, big) ==
  \/ c2 = c /\ h2 = h /\ n2 = n
  \/ c # <<>> /\ ~ IsData(Head(c)) /\ c2 = Tail(c) /\ h2 = h /\ n2 = n
  \/ c # <<>> /\ c2 = Tail(c) /\ h2 = h /\ n2 = n + 1
  \/ c # <<>> /\ IsData(Head(c)) /\ c2 = Tail(c) /\ h2 = HeldAfter(h, Head(c)) /\ n2 = n
  \/ \E d \in Seq(Frame) :
       /\ Follows(d) /\ c2 = c \o d /\ h2 = h /\ n2 = n
       /\ big \/ \A a \in 1 .. Len(d) : IsData(d[a]) => IsWhole(d[a].m)

LEMMA HeadOfTail ==
  ASSUME NEW c \in Seq(Frame), c # <<>>, Wire(c)
  PROVE  /\ LastAtHead(Tail(c)) =>
              IsData(Head(c)) /\ Head(c).k = 1 /\ Head(c).n = 2
         /\ IsData(Head(c)) /\ Head(c).k = 1 /\ Head(c).n = 2 =>
              LastAtHead(Tail(c)) /\ Head(Tail(c)).m = Head(c).m
<1> DEFINE t == Tail(c)
<1>1. /\ t \in Seq(Frame) /\ Head(c) = c[1] /\ 1 \in 1 .. Len(c)
      /\ Len(c) \in Nat /\ Len(t) = Len(c) - 1
      /\ \A a \in 1 .. Len(t) : a + 1 \in 1 .. Len(c) /\ a \in Nat /\ t[a] = c[a + 1]
  BY TailFrames
<1>2. t # <<>> => Head(t) = t[1] /\ 1 \in 1 .. Len(t) /\ t[1] = c[2] /\ 2 \in 1 .. Len(c)
  BY <1>1, TailFrames
<1> HIDE DEF t
<1>3. Len(c) >= 2 => t # <<>>
  BY <1>1, EmptySeq
<1>4. ASSUME LastAtHead(t) PROVE IsData(c[1]) /\ c[1].k = 1 /\ c[1].n = 2
  <2>1. 2 \in 1 .. Len(c) /\ IsData(c[2]) /\ c[2].k = 2
    BY <1>2, <1>4 DEF LastAtHead
  <2>2. FirstOk(c, 2)
    BY <2>1 DEF Wire
  <2> QED BY <2>2 DEF FirstOk
<1>5. ASSUME IsData(c[1]), c[1].k = 1, c[1].n = 2
      PROVE  LastAtHead(t) /\ Head(t).m = c[1].m
  <2>1. NextOk(c, 1)
    BY <1>1, <1>5 DEF Wire
  <2>2. 1 < Len(c) /\ IsData(c[2]) /\ c[2].k = 2 /\ c[2].m = c[1].m
    BY <2>1 DEF NextOk
  <2>3. t # <<>>
    BY <1>1, <1>3, <2>2
  <2> QED BY <1>2, <2>2, <2>3 DEF LastAtHead
<1> QED BY <1>1, <1>4, <1>5 DEF t

LEMMA MovesSound ==
  ASSUME NEW c \in Seq(Frame), NEW h \in Message \cup {None}, NEW n \in Nat,
         NEW c2, NEW h2, NEW n2, NEW big, Moves(c, h, n, c2, h2, n2, big), Sound(c, h, n)
  PROVE  Sound(c2, h2, n2)
<1>1. Wire(c) /\ Waiting(c, h, n)
  BY DEF Sound
<1>2. CASE c2 = c /\ h2 = h /\ n2 = n
  BY <1>2
<1>3. ASSUME c # <<>> PROVE Wire(Tail(c))
  BY <1>1, <1>3, TailWire
<1>4. CASE c # <<>> /\ ~ IsData(Head(c)) /\ c2 = Tail(c) /\ h2 = h /\ n2 = n
  <2>1. ~ LastAtHead(c) /\ ~ LastAtHead(c2)
    BY <1>1, <1>4, HeadOfTail DEF LastAtHead
  <2> QED BY <1>1, <1>3, <1>4, <2>1 DEF Sound, Waiting
<1>5. CASE c # <<>> /\ c2 = Tail(c) /\ h2 = h /\ n2 = n + 1
  <2>1. LastAtHead(c) => ~ LastAtHead(c2)
    BY <1>1, <1>5, HeadOfTail DEF LastAtHead
  <2>2. n + 1 >= 1 /\ (n >= 1 => n + 1 >= 2)
    OBVIOUS
  <2> QED BY <1>1, <1>3, <1>5, <2>1, <2>2 DEF Sound, Waiting
<1>6. CASE c # <<>> /\ IsData(Head(c)) /\ c2 = Tail(c) /\ h2 = HeldAfter(h, Head(c)) /\ n2 = n
  <2>1. h2 # None => Head(c).n = 2 /\ Head(c).k = 1 /\ h2 = Head(c).m
    BY <1>6 DEF HeldAfter
  <2>2. h2 # None => LastAtHead(c2) /\ Head(c2).m = h2
    BY <1>1, <1>6, <2>1, HeadOfTail
  <2> QED BY <1>3, <1>6, <2>2 DEF Sound, Waiting
<1>7. ASSUME NEW d \in Seq(Frame), Follows(d), c2 = c \o d, h2 = h, n2 = n
      PROVE  Sound(c2, h2, n2)
  <2>1. Wire(d) /\ (d # <<>> => ~ (IsData(d[1]) /\ d[1].k = 2))
    BY <1>7 DEF Follows
  <2>2. Wire(c \o d)
    BY <1>1, <2>1, JoinedWire
  <2>3. c # <<>> => c \o d # <<>> /\ Head(c \o d) = Head(c)
    <3> SUFFICES ASSUME c # <<>> PROVE c \o d # <<>> /\ Head(c \o d) = Head(c)
      OBVIOUS
    <3>1. 1 \in 1 .. Len(c) /\ Head(c) = c[1] /\ Len(c) \in Nat
      BY TailFrames
    <3>2. /\ c \o d \in Seq(Frame) /\ (c \o d)[1] = c[1]
          /\ Len(c \o d) = Len(c) + Len(d) /\ Len(d) \in Nat
      BY <3>1, JoinedFrames
    <3>3. c \o d # <<>>
      BY <3>1, <3>2
    <3>4. Head(c \o d) = (c \o d)[1]
      BY <3>2, <3>3, TailFrames
    <3> QED BY <3>1, <3>2, <3>3, <3>4
  <2>4. c = <<>> => c \o d = d /\ ~ LastAtHead(d) /\ ~ LastAtHead(c)
    <3>1. d # <<>> => Head(d) = d[1]
      BY TailFrames
    <3> QED BY <2>1, <3>1, ConcatEmptySeq DEF LastAtHead
  <2>5. LastAtHead(c \o d) <=> LastAtHead(c)
    BY <2>3, <2>4 DEF LastAtHead
  <2>6. LastAtHead(c) => Head(c \o d) = Head(c)
    BY <2>3 DEF LastAtHead
  <2> QED BY <1>1, <1>7, <2>2, <2>5, <2>6 DEF Sound, Waiting
<1> QED BY <1>2, <1>4, <1>5, <1>6, <1>7 DEF Moves

LEMMA MovesWhole ==
  ASSUME NEW c \in Seq(Frame), NEW h \in Message \cup {None}, NEW n \in Nat,
         NEW c2, NEW h2, NEW n2, NEW big, Moves(c, h, n, c2, h2, n2, big), ~ big,
         WholeLink(c, h)
  PROVE  WholeLink(c2, h2)
<1>1. ASSUME c # <<>>, c2 = Tail(c) PROVE \A a \in 1 .. Len(c2) : IsData(c2[a]) => IsWhole(c2[a].m)
  <2>1. \A a \in 1 .. Len(c2) : a + 1 \in 1 .. Len(c) /\ c2[a] = c[a + 1]
    BY <1>1, TailFrames
  <2> QED BY <2>1 DEF WholeLink
<1>2. CASE h2 = h /\ (c2 = c \/ (c # <<>> /\ c2 = Tail(c)))
  BY <1>1, <1>2 DEF WholeLink
<1>3. CASE c # <<>> /\ IsData(Head(c)) /\ c2 = Tail(c) /\ h2 = HeldAfter(h, Head(c))
  <2>1. Head(c) = c[1] /\ 1 \in 1 .. Len(c)
    BY <1>3, TailFrames
  <2>2. h2 # None => h2 = c[1].m
    BY <1>3, <2>1 DEF HeldAfter
  <2> QED BY <1>1, <1>3, <2>1, <2>2 DEF WholeLink
<1>4. ASSUME NEW d \in Seq(Frame), c2 = c \o d, h2 = h,
             \A a \in 1 .. Len(d) : IsData(d[a]) => IsWhole(d[a].m)
      PROVE  WholeLink(c2, h2)
  <2>1. /\ \A a \in 1 .. Len(c) : (c \o d)[a] = c[a]
        /\ \A a \in 1 .. Len(d) : (c \o d)[Len(c) + a] = d[a]
        /\ \A a \in 1 .. Len(c \o d) :
             a \in 1 .. Len(c) \/ (a - Len(c) \in 1 .. Len(d) /\ a = Len(c) + (a - Len(c)))
    BY JoinedFrames
  <2> SUFFICES ASSUME NEW a \in 1 .. Len(c \o d), IsData((c \o d)[a])
               PROVE  IsWhole((c \o d)[a].m)
    BY <1>4 DEF WholeLink
  <2>2. CASE a \in 1 .. Len(c)
    BY <2>1, <2>2 DEF WholeLink
  <2>3. CASE a - Len(c) \in 1 .. Len(d) /\ a = Len(c) + (a - Len(c))
    <3>1. (c \o d)[a] = d[a - Len(c)]
      BY <2>1, <2>3
    <3> QED BY <1>4, <2>3, <3>1
  <2> QED BY <2>1, <2>2, <2>3
<1> QED BY <1>2, <1>3, <1>4 DEF Moves

(* What is completed is whole, unless two frames of the link are lost.      *)
LEMMA CompletedWhole ==
  ASSUME NEW c \in Seq(Frame), c # <<>>, IsData(Head(c)), NEW h \in Message \cup {None},
         NEW n \in Nat, Sound(c, h, n), WholeLink(c, h), ~ (n >= 2),
         NEW m \in Completed(h, Head(c))
  PROVE  IsWhole(m)
<1>1. Head(c) = c[1] /\ 1 \in 1 .. Len(c)
  BY TailFrames
<1>2. IsWhole(Head(c).m)
  BY <1>1 DEF WholeLink
<1>3. CASE h = None
  BY <1>2, <1>3 DEF Completed
<1>4. CASE h # None
  <2>1. m = [head |-> h.head, tail |-> Head(c).m.tail] /\ Head(c).k = 2
    BY <1>4 DEF Completed
  <2>2. LastAtHead(c)
    BY <2>1 DEF LastAtHead
  <2>3. Head(c).m = h
    BY <1>4, <2>2 DEF Sound, Waiting
  <2> QED BY <1>2, <2>1, <2>3 DEF IsWhole
<1> QED BY <1>3, <1>4

(* All links are sound, and all pieces and packets are whole unless a link  *)
(* has lost two frames.                                                     *)
TwoLost == \E l \in Links : lost[l] >= 2
SeenWhole == \A i \in Box : \A a \in 1 .. Len(seen[i]) : IsWhole(seen[i][a])
Unmixed ==
  /\ \A l \in Links : Sound(chan[l], held[l], lost[l])
  /\ TwoLost \/ (SeenWhole /\ \A l \in Links : WholeLink(chan[l], held[l]))

AllMove == \A l \in Links : Moves(chan[l], held[l], lost[l], chan'[l], held'[l], lost'[l], TwoLost)
LostGrows == \A l \in Links : lost'[l] = lost[l] \/ lost'[l] = lost[l] + 1

LEMMA MovesUnmixed ==
  ASSUME TypeOK, TypeOK', Unmixed, AllMove, LostGrows, TwoLost \/ SeenWhole'
  PROVE  Unmixed'
<1>1. \A l \in Links : /\ chan[l] \in Seq(Frame) /\ held[l] \in Message \cup {None}
                       /\ lost[l] \in Nat
  BY DEF TypeOK
<1>2. ASSUME NEW l \in Links PROVE Sound(chan'[l], held'[l], lost'[l])
  <2> DEFINE c  == chan[l]
             h  == held[l]
             n  == lost[l]
             c2 == chan'[l]
             h2 == held'[l]
             n2 == lost'[l]
             big == TwoLost
  <2>1. /\ c \in Seq(Frame) /\ h \in Message \cup {None} /\ n \in Nat
        /\ Moves(c, h, n, c2, h2, n2, big) /\ Sound(c, h, n)
    BY <1>1 DEF AllMove, Unmixed
  <2> HIDE DEF c, h, n, c2, h2, n2, big
  <2>2. Sound(c2, h2, n2)
    BY <2>1, MovesSound
  <2> QED BY <2>2 DEF c2, h2, n2
<1>3. TwoLost => TwoLost'
  <2> SUFFICES ASSUME NEW l \in Links, lost[l] >= 2 PROVE lost'[l] >= 2
    BY DEF TwoLost
  <2>1. lost[l] \in Nat /\ (lost'[l] = lost[l] \/ lost'[l] = lost[l] + 1)
    BY <1>1 DEF LostGrows
  <2> QED BY <2>1
<1>4. ASSUME ~ TwoLost, NEW l \in Links PROVE WholeLink(chan'[l], held'[l])
  <2> DEFINE c  == chan[l]
             h  == held[l]
             n  == lost[l]
             c2 == chan'[l]
             h2 == held'[l]
             n2 == lost'[l]
             big == TwoLost
  <2>1. /\ c \in Seq(Frame) /\ h \in Message \cup {None} /\ n \in Nat
        /\ Moves(c, h, n, c2, h2, n2, big) /\ WholeLink(c, h) /\ ~ big
    BY <1>1, <1>4 DEF AllMove, Unmixed
  <2> HIDE DEF c, h, n, c2, h2, n2, big
  <2>2. WholeLink(c2, h2)
    BY <2>1, MovesWhole
  <2> QED BY <2>2 DEF c2, h2
<1> QED BY <1>2, <1>3, <1>4 DEF Unmixed

LEMMA MovesDrop ==
  ASSUME TypeOK, NEW l \in Links, chan[l] # <<>>,
         chan' = [chan EXCEPT ![l] = Tail(@)], held' = held,
         \/ lost' = lost /\ ~ IsData(Head(chan[l]))
         \/ lost' = [lost EXCEPT ![l] = @ + 1]
  PROVE  AllMove /\ LostGrows
<1>1. chan \in [Links -> Seq(Frame)] /\ lost \in [Links -> Nat]
  BY DEF TypeOK
<1>2. ASSUME NEW k \in Links
      PROVE  Moves(chan[k], held[k], lost[k], chan'[k], held'[k], lost'[k], TwoLost)
  <2>1. CASE k # l
    BY <1>1, <2>1 DEF Moves
  <2>2. CASE k = l
    BY <1>1, <2>2 DEF Moves
  <2> QED BY <2>1, <2>2
<1>3. LostGrows
  BY <1>1 DEF LostGrows
<1> QED BY <1>2, <1>3 DEF AllMove

LEMMA SeenStays ==
  ASSUME Unmixed, seen' = seen PROVE TwoLost \/ SeenWhole'
BY DEF Unmixed, SeenWhole

LEMMA PlainFollows ==
  ASSUME NEW c \in Seq(Frame), NEW h, NEW n, NEW f \in Frame, ~ IsData(f), NEW big
  PROVE  Moves(c, h, n, Append(c, f), h, n, big)
<1> DEFINE d == <<f>>
<1>1. d \in Seq(Frame) /\ Append(c, f) = c \o d /\ Len(d) = 1 /\ d[1] = f
  BY AppendIsConcat
<1> HIDE DEF d
<1>2. Follows(d) /\ \A a \in 1 .. Len(d) : IsData(d[a]) => IsWhole(d[a].m)
  BY <1>1 DEF Follows, Wire
<1> QED BY <1>1, <1>2 DEF Moves

LEMMA BurstMoves ==
  ASSUME TypeOK, NEW l \in Links, NEW m \in Message, NEW c \in Seq(Frame), NEW h, NEW n,
         NEW big, big \/ IsWhole(m)
  PROVE  Moves(c, h, n, c \o SendSeq(l, m) \o SendMessage(sendData[l], m), h, n, big)
<1> DEFINE d == Burst(l, m)
           y == SendSeq(l, m)
           z == SendMessage(sendData[l], m)
<1>1. /\ d \in Seq(Frame) /\ Wire(d)
      /\ d # <<>> => ~ (IsData(d[1]) /\ d[1].k = 2)
      /\ \A a \in 1 .. Len(d) : IsData(d[a]) => d[a].m = m
  BY BurstFrames
<1>2. y \in Seq(Frame) /\ z \in Seq(Frame) /\ d = y \o z
  BY SentFrames DEF Burst
<1> HIDE DEF d, y, z
<1>3. (c \o y) \o z = c \o d
  BY <1>2, JoinIsAssociative
<1>4. Moves(c, h, n, c \o d, h, n, big)
  BY <1>1 DEF Moves, Follows
<1> QED BY <1>3, <1>4 DEF y, z

LEMMA FromClientUnmixed ==
  ASSUME Kept, TypeOK', Unmixed, NEW i \in Box, FromClient(i)
  PROVE  Unmixed'
<1> DEFINE m == Whole(Head(todo[i]))
<1>1. /\ TypeOK /\ todo[i] # <<>> /\ todo[i] \in Seq(Packet)
      /\ Forward(i, Client, m, chan) /\ held' = held /\ lost' = lost
  BY DEF FromClient, Read, HasInput, TypeOK, Kept
<1>2. m \in Message /\ IsWhole(m)
  BY <1>1 DEF Whole, Message, IsWhole
<1>3. chan' = Sent(chan, i, Client, m) /\ seen' = seen
  BY <1>1 DEF Forward, Outgoing, Sent
<1> HIDE DEF m
<1>4. ASSUME NEW l \in Links
      PROVE  Moves(chan[l], held[l], lost[l], chan'[l], held'[l], lost'[l], TwoLost)
  <2>1. CASE l \in Outgoing(i, Client)
    <3> DEFINE c == chan[l]
               h == held[l]
               n == lost[l]
               big == TwoLost
    <3>1. c \in Seq(Frame) /\ (big \/ IsWhole(m))
      BY <1>1, <1>2 DEF TypeOK
    <3> HIDE DEF c, h, n, big
    <3>2. Moves(c, h, n, c \o SendSeq(l, m) \o SendMessage(sendData[l], m), h, n, big)
      BY <1>1, <1>2, <3>1, BurstMoves
    <3>3. chan'[l] = chan[l] \o SendSeq(l, m) \o SendMessage(sendData[l], m)
      BY <1>3, <2>1 DEF Sent
    <3> QED BY <1>1, <3>2, <3>3 DEF c, h, n, big
  <2>2. CASE l \notin Outgoing(i, Client)
    BY <1>1, <1>3, <2>2 DEF Sent, Moves
  <2> QED BY <2>1, <2>2
<1>5. AllMove /\ LostGrows
  BY <1>1, <1>4 DEF AllMove, LostGrows
<1> QED BY <1>1, <1>3, <1>5, SeenStays, MovesUnmixed

LEMMA TimeoutUnmixed ==
  ASSUME Kept, TypeOK', Unmixed, NEW i \in Box, Timeout(i)
  PROVE  Unmixed'
<1> DEFINE again(l) == [kind |-> "seq", num |-> sendSequence[l], len |-> messageLen[l]]
<1>1. TypeOK /\ held' = held /\ lost' = lost /\ seen' = seen
  BY DEF Timeout, Kept
<1>2. ASSUME NEW l \in Links
      PROVE  Moves(chan[l], held[l], lost[l], chan'[l], held'[l], lost'[l], TwoLost)
  <2> DEFINE c == chan[l]
             h == held[l]
             n == lost[l]
             f == again(l)
             big == TwoLost
  <2>1. c \in Seq(Frame) /\ f \in Frame /\ ~ IsData(f)
    BY <1>1 DEF TypeOK, Frame, IsData
  <2>2. chan'[l] = c \/ chan'[l] = Append(c, f)
    BY DEF Timeout
  <2> HIDE DEF c, h, n, f, big
  <2>3. Moves(c, h, n, Append(c, f), h, n, big)
    BY <2>1, PlainFollows
  <2>4. Moves(c, h, n, c, h, n, big)
    BY DEF Moves
  <2>5. Moves(c, h, n, chan'[l], h, n, big)
    BY <2>2, <2>3, <2>4
  <2> QED BY <1>1, <2>5 DEF c, h, n, big
<1>3. AllMove /\ LostGrows
  BY <1>1, <1>2 DEF AllMove, LostGrows
<1> QED BY <1>1, <1>3, SeenStays, MovesUnmixed

LEMMA FromDataUnmixed ==
  ASSUME Kept, TypeOK', Unmixed, NEW i \in Box, NEW j \in nbr[i], FromData(i, j)
  PROVE  Unmixed'
<1> DEFINE l    == <<j, i>>
           f    == Head(chan[l])
           rest == [chan EXCEPT ![l] = Tail(@)]
           done == Completed(held[l], f)
           ackd == \E m \in done : Acked(l, m)
           ack  == [kind |-> "ack", num |-> recvSequence[l]]
           sent == IF ackd THEN [rest EXCEPT ![<<i, j>>] = Append(@, ack)] ELSE rest
<1>1. /\ TypeOK /\ j \in Box /\ l \in Links /\ <<i, j>> \in Links /\ l # <<i, j>>
  <2>1. TypeOK
    BY DEF Kept
  <2>2. j \in Box /\ l \in Links /\ <<i, j>> \in Links
    BY <2>1, NeighborLinks
  <2> QED BY <2>1, <2>2 DEF Links
<1>2. chan[l] # <<>> /\ IsData(f)
  BY <1>1, ConstAssumption DEF FromData, Read, HasInput, IsData
<1>3. /\ chan \in [Links -> Seq(Frame)] /\ held \in [Links -> Message \cup {None}]
      /\ lost \in [Links -> Nat] /\ ack \in Frame /\ ~ IsData(ack)
      /\ seen \in [Box -> Seq(Message)]
  BY <1>1 DEF TypeOK, Frame, IsData
<1>4. /\ held' = [held EXCEPT ![l] = HeldAfter(@, f)] /\ lost' = lost
      /\ IF \E m \in done : MessageOk(l, m)
         THEN \E m \in done : Forward(i, j, m, sent)
         ELSE chan' = sent /\ seen' = seen
  BY DEF FromData
<1>5. \A m \in done : m \in Message /\ (TwoLost \/ IsWhole(m))
  <2> SUFFICES ASSUME NEW m \in done PROVE m \in Message /\ (TwoLost \/ IsWhole(m))
    OBVIOUS
  <2> DEFINE c == chan[l]
             h == held[l]
             n == lost[l]
  <2>1. c \in Seq(Frame) /\ h \in Message \cup {None} /\ n \in Nat /\ c # <<>> /\ IsData(Head(c))
    BY <1>1, <1>2, <1>3
  <2>2. m \in Completed(h, Head(c)) /\ Sound(c, h, n)
    BY <1>1 DEF Unmixed
  <2>3. ASSUME ~ TwoLost PROVE WholeLink(c, h) /\ ~ (n >= 2)
    BY <1>1, <2>3 DEF Unmixed, TwoLost
  <2> HIDE DEF c, h, n, done
  <2>4. ~ TwoLost => IsWhole(m)
    BY <2>1, <2>2, <2>3, CompletedWhole
  <2>5. Head(c) \in Frame
    BY <2>1
  <2>6. Head(c).m \in Message
    BY <2>1, <2>5 DEF Frame, IsData
  <2>7. m \in Message
    BY <2>1, <2>2, <2>6 DEF Completed, Message
  <2> QED BY <2>4, <2>7
<1>6. PICK out \in SUBSET Links, m \in Message \cup {None} :
        /\ <<i, j>> \notin out /\ l \notin out
        /\ out # {} => m \in Message /\ (TwoLost \/ IsWhole(m))
        /\ \A k \in Links :
             chan'[k] = IF k \in out THEN sent[k] \o SendSeq(k, m) \o SendMessage(sendData[k], m)
                        ELSE sent[k]
        /\ seen' = seen \/ (/\ seen' = [seen EXCEPT ![i] = Append(@, m)]
                            /\ m \in Message /\ (TwoLost \/ IsWhole(m)))
  <2>1. CASE \E m \in done : MessageOk(l, m)
    <3>1. PICK m \in done : Forward(i, j, m, sent)
      BY <1>4, <2>1
    <3>2. m \in Message /\ (TwoLost \/ IsWhole(m))
      BY <1>5
    <3>3. j # Client
      BY <1>1, ConstAssumption
    <3>4. /\ seen' = [seen EXCEPT ![i] = Append(@, m)]
          /\ chan' = Sent(sent, i, j, m)
      BY <3>1, <3>3 DEF Forward, Outgoing, Sent
    <3>5. <<i, j>> \notin Outgoing(i, j) /\ l \notin Outgoing(i, j)
          /\ Outgoing(i, j) \subseteq Links
      BY <1>1 DEF Outgoing, Receivers, Links
    <3> HIDE DEF sent, done, l
    <3>6. \A k \in Links :
            chan'[k] = IF k \in Outgoing(i, j)
                       THEN sent[k] \o SendSeq(k, m) \o SendMessage(sendData[k], m)
                       ELSE sent[k]
      BY <3>4 DEF Sent
    <3>7. Outgoing(i, j) \in SUBSET Links /\ m \in Message \cup {None}
      BY <3>2, <3>5
    <3> QED BY <3>2, <3>4, <3>5, <3>6, <3>7
  <2>2. CASE ~ \E m \in done : MessageOk(l, m)
    <3>1. chan' = sent /\ seen' = seen
      BY <1>4, <2>2
    <3> HIDE DEF sent, done, l
    <3>2. {} \in SUBSET Links /\ None \in Message \cup {None}
          /\ \A k \in Links : chan'[k] = sent[k]
      BY <3>1
    <3> QED BY <3>1, <3>2
  <2> QED BY <2>1, <2>2
<1>7. ASSUME NEW k \in Links
      PROVE  Moves(chan[k], held[k], lost[k], chan'[k], held'[k], lost'[k], TwoLost)
  <2> DEFINE c == chan[k]
             h == held[k]
             n == lost[k]
             big == TwoLost
  <2>0. c \in Seq(Frame)
    BY <1>3
  <2>1. CASE k = l
    <3>1. chan'[k] = Tail(c) /\ held'[k] = HeldAfter(h, Head(c)) /\ lost'[k] = n
      <4>1. sent[k] = rest[k] /\ rest[k] = Tail(c)
        <5>1. rest \in [Links -> Seq(Frame)]
          BY <1>1, <1>2, <1>3, HeadAndTail
        <5>2. rest[k] = Tail(c)
          BY <1>3, <2>1
        <5> HIDE DEF rest, ack, ackd
        <5> QED BY <1>1, <2>1, <5>1, <5>2
      <4> QED BY <1>3, <1>4, <1>6, <2>1, <4>1
    <3> QED BY <1>2, <2>1, <3>1 DEF Moves
  <2>2. CASE k = <<i, j>>
    <3>1. held'[k] = h /\ lost'[k] = n
      BY <1>1, <1>3, <1>4, <2>2
    <3>2. chan'[k] = c \/ chan'[k] = Append(c, ack)
      <4>1. rest[k] = c /\ rest \in [Links -> Seq(Frame)]
        BY <1>1, <1>2, <1>3, <2>2, HeadAndTail
      <4> HIDE DEF rest, ack, ackd
      <4>2. sent[k] = c \/ sent[k] = Append(c, ack)
        BY <1>1, <2>2, <4>1
      <4> QED BY <1>6, <2>2, <4>2
    <3> HIDE DEF c, h, n, big, ack
    <3>3. Moves(c, h, n, Append(c, ack), h, n, big)
      BY <1>3, <2>0, PlainFollows
    <3>4. Moves(c, h, n, c, h, n, big)
      BY DEF Moves
    <3>5. Moves(c, h, n, chan'[k], h, n, big)
      BY <3>2, <3>3, <3>4
    <3> QED BY <3>1, <3>5 DEF c, h, n, big
  <2>3. CASE k # l /\ k # <<i, j>>
    <3>1. held'[k] = h /\ lost'[k] = n
      BY <1>1, <1>3, <1>4, <2>3
    <3>2. sent[k] = c
      <4>1. rest[k] = c /\ rest \in [Links -> Seq(Frame)]
        BY <1>1, <1>2, <1>3, <2>3, HeadAndTail
      <4> HIDE DEF rest, ack, ackd
      <4> QED BY <1>1, <2>3, <4>1
    <3>3. CASE k \in out
      <4>1. /\ chan'[k] = c \o SendSeq(k, m) \o SendMessage(sendData[k], m)
            /\ m \in Message /\ (TwoLost \/ IsWhole(m))
        BY <1>6, <3>2, <3>3
      <4> HIDE DEF c, h, n
      <4>2. Moves(c, h, n, c \o SendSeq(k, m) \o SendMessage(sendData[k], m), h, n, big)
        <5> HIDE DEF big
        <5>1. big \/ IsWhole(m)
          BY <4>1 DEF big
        <5> QED BY <1>1, <2>0, <4>1, <5>1, BurstMoves
      <4> QED BY <3>1, <4>1, <4>2 DEF c, h, n
    <3>4. CASE k \notin out
      <4> HIDE DEF c, h, n, sent
      <4>1. chan'[k] = c
        BY <1>6, <3>2, <3>4
      <4>2. Moves(c, h, n, c, h, n, big)
        BY DEF Moves
      <4> QED BY <3>1, <4>1, <4>2 DEF c, h, n
    <3> QED BY <3>3, <3>4
  <2> QED BY <2>1, <2>2, <2>3
<1>8. AllMove /\ LostGrows
  BY <1>4, <1>7 DEF AllMove, LostGrows
<1>9. TwoLost \/ SeenWhole'
  <2>1. CASE seen' = seen
    BY <2>1, SeenStays
  <2>2. CASE /\ seen' = [seen EXCEPT ![i] = Append(@, m)]
             /\ m \in Message /\ (TwoLost \/ IsWhole(m))
    <3> SUFFICES ASSUME ~ TwoLost, NEW u \in Box, NEW a \in 1 .. Len(seen'[u])
                 PROVE  IsWhole(seen'[u][a])
      BY DEF SeenWhole
    <3>1. \A b \in 1 .. Len(seen[u]) : IsWhole(seen[u][b])
      BY DEF Unmixed, SeenWhole
    <3>2. CASE u # i
      BY <1>3, <2>2, <3>1, <3>2
    <3>3. CASE u = i
      <4>1. seen'[u] = Append(seen[u], m) /\ seen[u] \in Seq(Message)
        BY <1>3, <2>2, <3>3
      <4>2. /\ Len(seen'[u]) = Len(seen[u]) + 1 /\ Len(seen[u]) \in Nat
            /\ \A b \in 1 .. Len(seen[u]) : seen'[u][b] = seen[u][b]
            /\ seen'[u][Len(seen[u]) + 1] = m
        BY <2>2, <4>1, AppendProperties, LenProperties
      <4>3. a \in 1 .. Len(seen[u]) \/ a = Len(seen[u]) + 1
        BY <4>2
      <4> QED BY <2>2, <3>1, <4>2, <4>3
    <3> QED BY <3>2, <3>3
  <2> QED BY <1>6, <2>1, <2>2
<1> QED BY <1>1, <1>8, <1>9, MovesUnmixed

LEMMA InitUnmixed == ASSUME Init PROVE Unmixed
<1>1. Len(<<>>) = 0
  OBVIOUS
<1>2. /\ \A l \in Links : chan[l] = <<>> /\ held[l] = None
      /\ \A i \in Box : seen[i] = <<>>
  BY DEF Init
<1>3. \A l \in Links : Wire(chan[l]) /\ WholeLink(chan[l], held[l])
  BY <1>1, <1>2 DEF Wire, WholeLink
<1>4. SeenWhole
  BY <1>1, <1>2 DEF SeenWhole
<1> QED BY <1>2, <1>3, <1>4 DEF Unmixed, Sound, Waiting

LEMMA NextUnmixed ==
  ASSUME Kept, TypeOK', Unmixed, [Next]_vars
  PROVE  Unmixed'
<1>0. TypeOK
  BY DEF Kept
<1>1. ASSUME chan' = chan, held' = held, lost' = lost, seen' = seen PROVE Unmixed'
  BY <1>1 DEF Unmixed, TwoLost, SeenWhole
<1>2. ASSUME NEW i \in Box, Round(i) PROVE Unmixed'
  <2>1. CASE Select(i)
    BY <1>1, <2>1 DEF Select
  <2>2. CASE FromClient(i)
    BY <2>2, FromClientUnmixed
  <2>3. ASSUME NEW j \in nbr[i], FromSeq(i, j) \/ FromAck(i, j) PROVE Unmixed'
    <3>1. j \in Box /\ <<j, i>> \in Links
      BY <1>0, NeighborLinks
    <3>2. /\ chan[<<j, i>>] # <<>> /\ ~ IsData(Head(chan[<<j, i>>]))
      BY <2>3, <3>1, ConstAssumption DEF FromSeq, FromAck, Read, HasInput, IsData
    <3>3. /\ chan' = [chan EXCEPT ![<<j, i>>] = Tail(@)]
          /\ UNCHANGED <<held, lost, seen>>
      BY <2>3 DEF FromSeq, FromAck
    <3>4. AllMove /\ LostGrows
      BY <1>0, <3>1, <3>2, <3>3, MovesDrop
    <3> QED BY <1>0, <3>3, <3>4, SeenStays, MovesUnmixed
  <2>4. ASSUME NEW j \in nbr[i], FromData(i, j) PROVE Unmixed'
    BY <2>4, FromDataUnmixed
  <2>5. CASE Timeout(i)
    BY <2>5, TimeoutUnmixed
  <2> QED BY <1>2, <2>1, <2>2, <2>3, <2>4, <2>5 DEF Round
<1>3. ASSUME NEW i \in Box, NEW j \in Box, j \in nbr[i], Lose(i, j) PROVE Unmixed'
  <2>1. <<i, j>> \in Links
    BY <1>0, <1>3, NeighborLinks
  <2>2. /\ chan[<<i, j>>] # <<>> /\ chan' = [chan EXCEPT ![<<i, j>>] = Tail(@)]
        /\ lost' = [lost EXCEPT ![<<i, j>>] = @ + 1]
        /\ UNCHANGED <<held, seen>>
    BY <1>3 DEF Lose
  <2>3. AllMove /\ LostGrows
    BY <1>0, <2>1, <2>2, MovesDrop
  <2> QED BY <1>0, <2>2, <2>3, SeenStays, MovesUnmixed
<1>4. CASE UNCHANGED vars
  BY <1>1, <1>4 DEF vars
<1> QED BY <1>2, <1>3, <1>4 DEF Next

(* On any graph of links the first frame of one packet is joined to the     *)
(* last frame of another only after a link has lost two frames.             *)
THEOREM MixturesNeedTwoLosses == Spec => []MixtureNeedsTwoLosses
<1>1. Init => Kept /\ Unmixed
  BY InitOK, InitUnmixed DEF Kept
<1>2. Kept /\ Unmixed /\ [Next]_vars => Kept' /\ Unmixed'
  <2> SUFFICES ASSUME Kept, Unmixed, [Next]_vars PROVE Kept' /\ Unmixed'
    OBVIOUS
  <2>1. Kept'
    BY NextKeeps
  <2> QED BY <2>1, NextUnmixed DEF Kept
<1>3. Kept /\ Unmixed => MixtureNeedsTwoLosses
  <2> SUFFICES ASSUME Kept, Unmixed, ~ TwoLost,
                      NEW i \in Box, NEW a \in DOMAIN seen[i]
               PROVE  IsWhole(seen[i][a])
    BY DEF MixtureNeedsTwoLosses, TwoLost
  <2>1. seen[i] \in Seq(Message)
    BY DEF Kept, TypeOK
  <2>2. a \in 1 .. Len(seen[i])
    BY <2>1, LenProperties
  <2> QED BY <2>2 DEF Unmixed, SeenWhole
<1> QED BY <1>1, <1>2, <1>3, PTL DEF Spec

-----------------------------------------------------------------------------
(* Numbers that come round: what is left of a sum or a difference of two.   *)
LEMMA Divides == ASSUME NEW x \in Nat PROVE /\ x \div W \in Nat /\ x % W \in 0 .. W - 1
                            /\ x = W * (x \div W) + (x % W)
<1>1. W \in Nat /\ W > 0
  BY WidthIsPositive
<1>2. x % W \in 0 .. W - 1
  BY <1>1
<1>3. x = W * (x \div W) + (x % W)
  BY <1>1
<1>4. x \div W \in Int
  BY <1>1
<1>5. x \div W >= 0
  BY <1>1, <1>2, <1>3, <1>4
<1> QED BY <1>2, <1>3, <1>4, <1>5

LEMMA NoMultiple ==
  ASSUME NEW q \in Int, NEW d \in Int, d = W * q, 0 - W < d, d < W
  PROVE  q = 0
<1> W \in Nat /\ W >= 1
  BY WidthIsPositive
<1>1. CASE q >= 1
  BY <1>1, Z3
<1>2. CASE q <= 0 - 1
  BY <1>2, Z3
<1> QED BY <1>1, <1>2

LEMMA RestIs ==
  ASSUME NEW z \in Nat, NEW q \in Int, NEW r \in 0 .. W - 1, z = W * q + r
  PROVE  z % W = r
<1> DEFINE p == z \div W
           s == z % W
<1>1. p \in Nat /\ s \in 0 .. W - 1 /\ z = W * p + s
  BY Divides
<1>2. W \in Nat /\ W > 0
  BY WidthIsPositive
<1> HIDE DEF p, s
<1>3. W * (p - q) = W * p - W * q
  BY <1>1, <1>2, Z3
<1> DEFINE a == W * p
           b == W * q
           d == r - s
<1>4. a \in Int /\ b \in Int
  BY <1>1, <1>2, Z3
<1>5. a - b = d /\ 0 - W < d /\ d < W /\ d \in Int
  <2> HIDE DEF a, b
  <2>1. z = a + s /\ z = b + r
    BY <1>1 DEF a, b
  <2> QED BY <1>1, <1>2, <1>4, <2>1
<1>6. p - q = 0
  <2>1. d = W * (p - q)
    BY <1>3, <1>5
  <2>2. p - q \in Int
    BY <1>1
  <2> HIDE DEF d
  <2> QED BY <1>5, <2>1, <2>2, NoMultiple
<1>7. p = q
  BY <1>1, <1>6
<1>8. a = b
  BY <1>7
<1> QED BY <1>1, <1>4, <1>5, <1>8 DEF s

LEMMA RestOfSum ==
  ASSUME NEW x \in Nat, NEW d \in Nat
  PROVE  ((x % W) + d) % W = (x + d) % W
<1> DEFINE p == x \div W
           s == x % W
           y == s + d
           q == y \div W
           r == y % W
<1>1. p \in Nat /\ s \in 0 .. W - 1 /\ x = W * p + s /\ W \in Nat
  BY Divides, WidthIsPositive
<1>2. y \in Nat
  BY <1>1
<1>3. q \in Nat /\ r \in 0 .. W - 1 /\ y = W * q + r
  <2> HIDE DEF y
  <2> QED BY <1>2, Divides
<1> HIDE DEF p, s, q, r
<1>4. x + d = W * (p + q) + r
  BY <1>1, <1>3, Z3
<1>5. x + d \in Nat /\ p + q \in Int
  BY <1>1, <1>3
<1>6. (x + d) % W = r
  BY <1>3, <1>4, <1>5, RestIs
<1> QED BY <1>6 DEF r, s

LEMMA RestOfDifference ==
  ASSUME NEW x \in Nat, NEW y \in Nat, y <= x, x - y < W
  PROVE  ((x % W) + W - (y % W)) % W = x - y
<1> DEFINE p == x \div W
           r == x % W
           q == y \div W
           s == y % W
           z == r + W - s
<1>1. /\ p \in Nat /\ r \in 0 .. W - 1 /\ x = W * p + r /\ W \in Nat
      /\ q \in Nat /\ s \in 0 .. W - 1 /\ y = W * q + s
  BY Divides, WidthIsPositive
<1>2. z \in Nat
  BY <1>1
<1>3. x - y \in 0 .. W - 1
  BY <1>1
<1> HIDE DEF p, s, q, r
<1>4. z = W * (1 - p + q) + (x - y)
  BY <1>1, Z3
<1>5. 1 - p + q \in Int
  BY <1>1
<1>6. z % W = x - y
  <2> HIDE DEF z
  <2> QED BY <1>2, <1>3, <1>4, <1>5, RestIs
<1> QED BY <1>6 DEF z, r, s

LEMMA SameRest ==
  ASSUME NEW x \in Nat, NEW y \in Nat, y <= x, x - y < W, x % W = y % W
  PROVE  x = y
<1> DEFINE r == y % W
<1>1. W \in Nat /\ W > 0 /\ r \in 0 .. W - 1
  BY WidthIsPositive, Divides
<1>2. (r + W - r) % W = x - y
  BY RestOfDifference
<1> HIDE DEF r
<1>3. r + W - r = W * 1 + 0 /\ r + W - r \in Nat /\ 0 \in 0 .. W - 1
  BY <1>1
<1>4. (r + W - r) % W = 0
  BY <1>3, RestIs
<1> QED BY <1>2, <1>4

-----------------------------------------------------------------------------
(* The numbers of the data frames on a link.  The sender has sent s frames, *)
(* the first of them with number z; x is which one each frame in channel c  *)
(* is; the receiver is past those before the lo-th; fd, ld, rc and ms are   *)
(* what it has tallied, from the a-th on.                                   *)
NumberedBy(z, c, x, lo, s) ==
  \A a \in 1 .. Len(c) : IsData(c[a]) =>
    /\ c[a].num = (z + x[a]) % W
    /\ lo <= x[a] /\ x[a] < s
    /\ \A b \in 1 .. Len(c) : b < a /\ IsData(c[b]) => x[b] < x[a]
Numbered(z, c, lo, s) == \E x \in [1 .. Len(c) -> Nat] : NumberedBy(z, c, x, lo, s)

Summed(z, lo, fd, ld, rc, ms) ==
  IF fd = None THEN ld = None /\ rc = 0 /\ ms = 0
  ELSE \E a \in Nat : /\ a < lo /\ fd = (z + a) % W /\ ld = (z + (lo - 1)) % W
                      /\ rc <= lo - a
                      /\ lo - a - rc <= ms /\ ms <= 2 * (lo - a - rc)
Counted(z, c, top, sd, fd, ld, rc, ms) ==
  \E s \in 0 .. top : \E lo \in 0 .. s :
    sd = (z + s) % W /\ Numbered(z, c, lo, s) /\ Summed(z, lo, fd, ld, rc, ms)

LEMMA FramesAfter ==
  ASSUME NEW z \in Nat, NEW c \in Seq(Frame), c # <<>>, NEW lo \in Nat, NEW s \in Nat,
         Numbered(z, c, lo, s)
  PROVE  /\ Numbered(z, Tail(c), lo, s)
         /\ IsData(Head(c)) => \E y \in Nat : /\ lo <= y /\ y < s
                                              /\ Head(c).num = (z + y) % W
                                              /\ Numbered(z, Tail(c), y + 1, s)
<1> DEFINE t == Tail(c)
<1>1. /\ t \in Seq(Frame) /\ Head(c) = c[1] /\ 1 \in 1 .. Len(c)
      /\ Len(c) \in Nat /\ Len(t) = Len(c) - 1 /\ Len(t) \in Nat
      /\ \A a \in 1 .. Len(t) : a + 1 \in 1 .. Len(c) /\ a \in Nat /\ t[a] = c[a + 1]
  BY TailFrames, LenProperties
<1>2. PICK x \in [1 .. Len(c) -> Nat] : NumberedBy(z, c, x, lo, s)
  BY DEF Numbered
<1> DEFINE y == [a \in 1 .. Len(t) |-> x[a + 1]]
<1> HIDE DEF t
<1>3. y \in [1 .. Len(t) -> Nat] /\ \A a \in 1 .. Len(t) : y[a] = x[a + 1] /\ x[a + 1] \in Nat
  BY <1>1
<1> HIDE DEF y
<1>4. ASSUME NEW a \in 1 .. Len(t), IsData(t[a])
      PROVE  /\ t[a].num = (z + y[a]) % W
             /\ lo <= y[a] /\ y[a] < s
             /\ \A b \in 1 .. Len(t) : b < a /\ IsData(t[b]) => y[b] < y[a]
             /\ IsData(c[1]) => x[1] + 1 <= y[a]
  <2>1. a + 1 \in 1 .. Len(c) /\ t[a] = c[a + 1] /\ y[a] = x[a + 1]
    BY <1>1, <1>3
  <2>2. /\ c[a + 1].num = (z + x[a + 1]) % W
        /\ lo <= x[a + 1] /\ x[a + 1] < s
        /\ \A b \in 1 .. Len(c) : b < a + 1 /\ IsData(c[b]) => x[b] < x[a + 1]
    BY <1>2, <1>4, <2>1 DEF NumberedBy
  <2>3. \A b \in 1 .. Len(t) : b < a => b + 1 < a + 1
    BY <1>1
  <2>4. \A b \in 1 .. Len(t) : b < a /\ IsData(t[b]) => y[b] < y[a]
    BY <1>1, <1>3, <2>1, <2>2, <2>3
  <2>5. IsData(c[1]) => x[1] < x[a + 1]
    <3>1. 1 < a + 1
      BY <1>1
    <3> QED BY <1>1, <2>2, <3>1
  <2>6. x[1] \in Nat /\ x[a + 1] \in Nat
    BY <1>1, <2>1
  <2> QED BY <2>1, <2>2, <2>4, <2>5, <2>6
<1>5. Numbered(z, t, lo, s)
  BY <1>3, <1>4 DEF Numbered, NumberedBy
<1>6. ASSUME IsData(c[1])
      PROVE  /\ lo <= x[1] /\ x[1] < s /\ c[1].num = (z + x[1]) % W /\ x[1] \in Nat
             /\ Numbered(z, t, x[1] + 1, s)
  <2>1. lo <= x[1] /\ x[1] < s /\ c[1].num = (z + x[1]) % W /\ x[1] \in Nat
    BY <1>1, <1>2, <1>6 DEF NumberedBy
  <2>2. Numbered(z, t, x[1] + 1, s)
    BY <1>3, <1>4, <1>6 DEF Numbered, NumberedBy
  <2> QED BY <2>1, <2>2
<1> QED BY <1>1, <1>5, <1>6 DEF t

LEMMA CountedTail ==
  ASSUME NEW z \in Nat, NEW c \in Seq(Frame), c # <<>>, NEW top \in Nat,
         NEW sd, NEW fd, NEW ld, NEW rc, NEW ms, Counted(z, c, top, sd, fd, ld, rc, ms)
  PROVE  Counted(z, Tail(c), top, sd, fd, ld, rc, ms)
<1>1. PICK s \in 0 .. top : \E lo \in 0 .. s :
        sd = (z + s) % W /\ Numbered(z, c, lo, s) /\ Summed(z, lo, fd, ld, rc, ms)
  BY DEF Counted
<1>2. PICK lo \in 0 .. s :
        sd = (z + s) % W /\ Numbered(z, c, lo, s) /\ Summed(z, lo, fd, ld, rc, ms)
  BY <1>1
<1>3. s \in Nat /\ lo \in Nat
  OBVIOUS
<1>4. Numbered(z, Tail(c), lo, s)
  BY <1>2, <1>3, FramesAfter
<1> QED BY <1>2, <1>4 DEF Counted

LEMMA CountedMore ==
  ASSUME NEW z, NEW c, NEW top \in Nat, NEW up \in Nat, top <= up,
         NEW sd, NEW fd, NEW ld, NEW rc, NEW ms, Counted(z, c, top, sd, fd, ld, rc, ms)
  PROVE  Counted(z, c, up, sd, fd, ld, rc, ms)
<1> 0 .. top \subseteq 0 .. up
  OBVIOUS
<1> QED BY DEF Counted

LEMMA CountedPlain ==
  ASSUME NEW z \in Nat, NEW c \in Seq(Frame), NEW top \in Nat, NEW f \in Frame, ~ IsData(f),
         NEW sd, NEW fd, NEW ld, NEW rc, NEW ms, Counted(z, c, top, sd, fd, ld, rc, ms)
  PROVE  Counted(z, Append(c, f), top, sd, fd, ld, rc, ms)
<1>1. PICK s \in 0 .. top : \E lo \in 0 .. s :
        sd = (z + s) % W /\ Numbered(z, c, lo, s) /\ Summed(z, lo, fd, ld, rc, ms)
  BY DEF Counted
<1>2. PICK lo \in 0 .. s :
        sd = (z + s) % W /\ Numbered(z, c, lo, s) /\ Summed(z, lo, fd, ld, rc, ms)
  BY <1>1
<1>3. PICK x \in [1 .. Len(c) -> Nat] : NumberedBy(z, c, x, lo, s)
  BY <1>2 DEF Numbered
<1> DEFINE e == Append(c, f)
           n == Len(c)
           y == [a \in 1 .. Len(e) |-> IF a = n + 1 THEN 0 ELSE x[a]]
<1>4. /\ Len(e) = n + 1 /\ n \in Nat /\ \A a \in 1 .. n : e[a] = c[a]
      /\ e[n + 1] = f
  BY AppendProperties, LenProperties
<1> HIDE DEF e, n
<1>5. \A a \in 1 .. Len(e) : a = n + 1 \/ a \in 1 .. n
  BY <1>4
<1>6. y \in [1 .. Len(e) -> Nat]
  BY <1>5 DEF n
<1>7. \A a \in 1 .. n : a \in 1 .. Len(e) /\ y[a] = x[a] /\ e[a] = c[a]
  BY <1>4
<1> HIDE DEF y
<1>8. \A a \in 1 .. Len(e) : IsData(e[a]) => a \in 1 .. n
  BY <1>4, <1>5
<1>9. NumberedBy(z, e, y, lo, s)
  BY <1>3, <1>7, <1>8 DEF NumberedBy, n
<1>10. Numbered(z, e, lo, s)
  BY <1>6, <1>9 DEF Numbered
<1> QED BY <1>2, <1>10 DEF Counted, e

LEMMA NextOfRest == \A x \in Nat : Next1(x % W) = (x + 1) % W
<1> TAKE x \in Nat
<1>1. ((x % W) + 1) % W = (x + 1) % W
  BY RestOfSum
<1> QED BY <1>1 DEF Next1

(* One frame with a number that was not yet received is received.           *)
LEMMA SummedNext ==
  ASSUME NEW z \in Nat, NEW lo \in Nat, NEW y \in Nat, lo <= y, y < W,
         NEW fd \in Number \cup {None}, NEW ld \in Number \cup {None},
         NEW rc \in Nat, NEW ms \in Nat, Summed(z, lo, fd, ld, rc, ms)
  PROVE  LET num == (z + y) % W
         IN  Summed(z, y + 1, IF fd = None THEN num ELSE fd, num, rc + 1,
                    IF ld = None \/ num = Next1(ld) THEN ms
                    ELSE ms + ((num + W - ld) % W))
<1> DEFINE num == (z + y) % W
           gap == (num + W - ld) % W
           more == IF ld = None \/ num = Next1(ld) THEN ms ELSE ms + gap
           first == IF fd = None THEN num ELSE fd
<1>1. num \in Number /\ None \notin Number /\ W \in Nat
  BY Wraps, NoneAssumption, WidthIsPositive
<1>2. CASE fd = None
  <2>1. ld = None /\ rc = 0 /\ ms = 0
    BY <1>2 DEF Summed
  <2>2. more = 0 /\ first = num
    BY <1>2, <2>1
  <2>3. num # None /\ (y + 1) - 1 = y
    BY <1>1
  <2> HIDE DEF more, first, num
  <2>4. /\ y < y + 1 /\ rc + 1 <= y + 1 - y /\ y + 1 - y - (rc + 1) <= 0
        /\ 0 <= 2 * (y + 1 - y - (rc + 1))
    BY <2>1
  <2>5. Summed(z, y + 1, num, num, rc + 1, 0)
    BY <2>3, <2>4 DEF Summed, num
  <2> QED BY <2>2, <2>5 DEF num, first, more
<1>3. CASE fd # None
  <2>1. PICK a \in Nat : /\ a < lo /\ fd = (z + a) % W /\ ld = (z + (lo - 1)) % W
                         /\ rc <= lo - a
                         /\ lo - a - rc <= ms /\ ms <= 2 * (lo - a - rc)
    BY <1>3 DEF Summed
  <2>2. z + (lo - 1) \in Nat /\ (z + (lo - 1)) + 1 = z + lo /\ lo - 1 \in Nat
    BY <2>1
  <2>3. ld # None
    BY <1>1, <2>1, <2>2, Wraps
  <2>4. Next1(ld) = (z + lo) % W
    BY <2>1, <2>2, NextOfRest
  <2>5. num = Next1(ld) <=> y = lo
    <3>1. ASSUME num = Next1(ld) PROVE y = lo
      <4>1. /\ z + y \in Nat /\ z + lo \in Nat /\ z + lo <= z + y
            /\ (z + y) - (z + lo) < W
        BY <1>1
      <4>2. z + y = z + lo
        BY <2>4, <3>1, <4>1, SameRest
      <4> QED BY <4>2
    <3> QED BY <2>4, <3>1
  <2>6. gap = y - (lo - 1)
    <3> DEFINE u == z + y
               v == z + (lo - 1)
    <3>1. u \in Nat /\ v \in Nat /\ v <= u /\ u - v < W /\ u - v = y - (lo - 1)
      BY <1>1, <2>1
    <3> HIDE DEF u, v
    <3>2. ((u % W) + W - (v % W)) % W = u - v
      BY <3>1, RestOfDifference
    <3> QED BY <2>1, <3>1, <3>2 DEF u, v
  <2>7. first = fd /\ (y = lo => more = ms) /\ (y # lo => more = ms + (y - (lo - 1)))
    BY <1>3, <2>3, <2>5, <2>6
  <2> HIDE DEF more, first, gap
  <2>8. /\ a < y + 1
        /\ rc + 1 <= y + 1 - a
        /\ y + 1 - a - (rc + 1) <= more /\ more <= 2 * (y + 1 - a - (rc + 1))
    <3>1. CASE y = lo
      BY <2>1, <2>7, <3>1
    <3>2. CASE y # lo
      <4>1. lo + 1 <= y /\ more = ms + (y - (lo - 1))
        BY <2>7, <3>2
      <4> QED BY <2>1, <4>1
    <3> QED BY <3>1, <3>2
  <2>9. num = (z + ((y + 1) - 1)) % W
    <3>1. (y + 1) - 1 = y
      OBVIOUS
    <3> QED BY <3>1
  <2> HIDE DEF num
  <2>10. Summed(z, y + 1, fd, num, rc + 1, more)
    BY <1>3, <2>1, <2>8, <2>9 DEF Summed
  <2> QED BY <2>7, <2>10 DEF num, first, more, gap
<1> QED BY <1>2, <1>3

LEMMA CountedTally ==
  ASSUME NEW z \in Nat, NEW c \in Seq(Frame), c # <<>>, IsData(Head(c)),
         NEW top \in Nat, top <= W, NEW sd,
         NEW fd \in Number \cup {None}, NEW ld \in Number \cup {None},
         NEW rc \in Nat, NEW ms \in Nat, Counted(z, c, top, sd, fd, ld, rc, ms)
  PROVE  LET num == Head(c).num
         IN  Counted(z, Tail(c), top, sd, IF fd = None THEN num ELSE fd, num, rc + 1,
                     IF ld = None \/ num = Next1(ld) THEN ms
                     ELSE ms + ((num + W - ld) % W))
<1>1. PICK s \in 0 .. top : \E lo \in 0 .. s :
        sd = (z + s) % W /\ Numbered(z, c, lo, s) /\ Summed(z, lo, fd, ld, rc, ms)
  BY DEF Counted
<1>2. PICK lo \in 0 .. s :
        sd = (z + s) % W /\ Numbered(z, c, lo, s) /\ Summed(z, lo, fd, ld, rc, ms)
  BY <1>1
<1>3. s \in Nat /\ lo \in Nat
  OBVIOUS
<1>4. PICK y \in Nat : /\ lo <= y /\ y < s /\ Head(c).num = (z + y) % W
                       /\ Numbered(z, Tail(c), y + 1, s)
  BY <1>2, <1>3, FramesAfter
<1>5. y < W /\ y + 1 \in 0 .. s
  BY <1>3, <1>4, WidthIsPositive
<1> DEFINE num == (z + y) % W
           more == IF ld = None \/ num = Next1(ld) THEN ms ELSE ms + ((num + W - ld) % W)
           first == IF fd = None THEN num ELSE fd
<1>6. Summed(z, y + 1, first, num, rc + 1, more)
  BY <1>2, <1>3, <1>4, <1>5, SummedNext
<1> HIDE DEF more, first
<1>7. Counted(z, Tail(c), top, sd, first, num, rc + 1, more)
  <2> HIDE DEF num
  <2> QED BY <1>2, <1>4, <1>5, <1>6 DEF Counted
<1>8. Head(c).num = num
  BY <1>4
<1> HIDE DEF num
<1> QED BY <1>7, <1>8 DEF more, first

(* What the tally promises of a link.                                       *)
LEMMA CountedBounds ==
  ASSUME NEW z \in Nat, NEW c, NEW top \in Nat, top <= W, NEW sd, NEW fd, NEW ld,
         NEW rc \in Nat, NEW ms \in Nat, Counted(z, c, top, sd, fd, ld, rc, ms), fd # None
  PROVE  LET gone == ((ld + W - fd) % W) + 1 - rc
         IN  gone <= ms /\ ms <= 2 * gone
<1>1. PICK s \in 0 .. top : \E lo \in 0 .. s :
        sd = (z + s) % W /\ Numbered(z, c, lo, s) /\ Summed(z, lo, fd, ld, rc, ms)
  BY DEF Counted
<1>2. PICK lo \in 0 .. s : Summed(z, lo, fd, ld, rc, ms)
  BY <1>1
<1>3. PICK a \in Nat : /\ a < lo /\ fd = (z + a) % W /\ ld = (z + (lo - 1)) % W
                       /\ rc <= lo - a
                       /\ lo - a - rc <= ms /\ ms <= 2 * (lo - a - rc)
  BY <1>2 DEF Summed
<1> DEFINE u == z + (lo - 1)
           v == z + a
<1>4. u \in Nat /\ v \in Nat /\ v <= u /\ u - v < W /\ u - v = lo - 1 - a
  BY <1>3, WidthIsPositive
<1> HIDE DEF u, v
<1>5. ((u % W) + W - (v % W)) % W = u - v
  BY <1>4, RestOfDifference
<1>6. (ld + W - fd) % W = lo - 1 - a
  BY <1>3, <1>4, <1>5 DEF u, v
<1>7. lo \in Nat
  OBVIOUS
<1> QED BY <1>3, <1>6, <1>7

(* One data frame, with the number the sender has come to, and a message.   *)
LEMMA CountedData ==
  ASSUME NEW z \in Nat, NEW c \in Seq(Frame), NEW top \in Nat,
         NEW f \in Frame, NEW sd, f.num = sd,
         NEW fd, NEW ld, NEW rc, NEW ms, Counted(z, c, top, sd, fd, ld, rc, ms)
  PROVE  Counted(z, Append(c, f), top + 1, Next1(sd), fd, ld, rc, ms)
<1>1. PICK s \in 0 .. top : \E lo \in 0 .. s :
        sd = (z + s) % W /\ Numbered(z, c, lo, s) /\ Summed(z, lo, fd, ld, rc, ms)
  BY DEF Counted
<1>2. PICK lo \in 0 .. s :
        sd = (z + s) % W /\ Numbered(z, c, lo, s) /\ Summed(z, lo, fd, ld, rc, ms)
  BY <1>1
<1>3. PICK x \in [1 .. Len(c) -> Nat] : NumberedBy(z, c, x, lo, s)
  BY <1>2 DEF Numbered
<1> DEFINE e == Append(c, f)
           n == Len(c)
           y == [a \in 1 .. Len(e) |-> IF a = n + 1 THEN s ELSE x[a]]
<1>4. /\ Len(e) = n + 1 /\ n \in Nat /\ \A a \in 1 .. n : e[a] = c[a]
      /\ e[n + 1] = f
  BY AppendProperties, LenProperties
<1>5. s \in Nat /\ lo \in Nat /\ lo <= s /\ s <= top
  OBVIOUS
<1> HIDE DEF e, n
<1>6. \A a \in 1 .. Len(e) : a = n + 1 \/ a \in 1 .. n
  BY <1>4
<1>7. y \in [1 .. Len(e) -> Nat]
  BY <1>5, <1>6 DEF n
<1>8. \A a \in 1 .. n : a \in 1 .. Len(e) /\ y[a] = x[a] /\ e[a] = c[a] /\ a # n + 1 /\ x[a] \in Nat
  BY <1>4 DEF n
<1>9. n + 1 \in 1 .. Len(e) /\ y[n + 1] = s
  BY <1>4
<1> HIDE DEF y
<1>10. ASSUME NEW a \in 1 .. Len(e), IsData(e[a])
       PROVE  /\ e[a].num = (z + y[a]) % W
              /\ lo <= y[a] /\ y[a] < s + 1
              /\ \A b \in 1 .. Len(e) : b < a /\ IsData(e[b]) => y[b] < y[a]
  <2>1. CASE a = n + 1
    <3>1. e[a].num = (z + y[a]) % W /\ y[a] = s
      BY <1>2, <1>4, <1>9, <2>1
    <3>2. ASSUME NEW b \in 1 .. Len(e), b < a, IsData(e[b]) PROVE y[b] < s
      <4>1. b \in 1 .. n
        BY <1>4, <2>1, <3>2
      <4>2. IsData(c[b]) /\ y[b] = x[b]
        BY <1>8, <3>2, <4>1
      <4> QED BY <1>3, <4>1, <4>2 DEF NumberedBy, n
    <3>3. lo <= s /\ s < s + 1
      BY <1>5
    <3> QED BY <3>1, <3>2, <3>3
  <2>2. CASE a \in 1 .. n
    <3>1. y[a] = x[a] /\ e[a] = c[a] /\ x[a] \in Nat
      BY <1>8, <2>2
    <3>2. /\ c[a].num = (z + x[a]) % W /\ lo <= x[a] /\ x[a] < s
          /\ \A b \in 1 .. n : b < a /\ IsData(c[b]) => x[b] < x[a]
      BY <1>3, <1>10, <2>2, <3>1 DEF NumberedBy, n
    <3>3. x[a] < s + 1
      BY <1>5, <3>1, <3>2
    <3>4. ASSUME NEW b \in 1 .. Len(e), b < a, IsData(e[b]) PROVE y[b] < y[a]
      <4>1. b \in 1 .. n
        BY <1>4, <2>2, <3>4
      <4>2. IsData(c[b]) /\ y[b] = x[b]
        BY <1>8, <3>4, <4>1
      <4> QED BY <3>1, <3>2, <3>4, <4>1, <4>2
    <3> QED BY <3>1, <3>2, <3>3, <3>4
  <2> QED BY <1>6, <2>1, <2>2
<1>11. NumberedBy(z, e, y, lo, s + 1)
  BY <1>10 DEF NumberedBy
<1>12. Numbered(z, e, lo, s + 1)
  BY <1>7, <1>11 DEF Numbered
<1>13. Next1(sd) = (z + (s + 1)) % W
  <2>1. z + s \in Nat /\ (z + s) + 1 = z + (s + 1)
    BY <1>5
  <2> QED BY <1>2, <2>1, NextOfRest
<1>14. s + 1 \in 0 .. top + 1 /\ lo \in 0 .. s + 1
  BY <1>5
<1>15. Counted(z, e, top + 1, Next1(sd), fd, ld, rc, ms)
  BY <1>2, <1>12, <1>13, <1>14 DEF Counted
<1> QED BY <1>15 DEF e

LEMMA CountedMessage ==
  ASSUME TypeOK, NEW l \in Links, NEW m \in Message,
         NEW z \in Nat, NEW c \in Seq(Frame), NEW top \in Nat,
         NEW fd, NEW ld, NEW rc, NEW ms, Counted(z, c, top, sendData[l], fd, ld, rc, ms)
  PROVE  Counted(z, c \o SendSeq(l, m) \o SendMessage(sendData[l], m), top + Length(m),
                 (sendData[l] + Length(m)) % W, fd, ld, rc, ms)
<1> DEFINE sd == sendData[l]
           q  == SendSeq(l, m)
           d  == SendMessage(sd, m)
           e  == c \o q
<1>1. q \in Seq(Frame) /\ d \in Seq(Frame) /\ sd \in Number
  BY SentFrames DEF TypeOK
<1>2. e \in Seq(Frame) /\ Counted(z, e, top, sd, fd, ld, rc, ms)
  <2>1. CASE flow
    <3> DEFINE f == [kind |-> "seq", num |-> sendSequence[l], len |-> Length(m)]
    <3>1. q = <<f>>
      BY <2>1 DEF SendSeq
    <3>2. f \in Frame /\ ~ IsData(f)
      BY DEF TypeOK, Frame, IsData, Length
    <3> HIDE DEF f, q
    <3>3. e = Append(c, f)
      BY <3>1, <3>2, AppendIsConcat
    <3> QED BY <3>2, <3>3, CountedPlain, AppendProperties
  <2>2. CASE ~ flow
    <3>1. q = <<>>
      BY <2>2 DEF SendSeq
    <3>2. e = c
      BY <3>1
    <3> QED BY <3>2
  <2> QED BY <2>1, <2>2
<1> HIDE DEF e, q
<1>3. CASE IsLong(m)
  <2> DEFINE f == [kind |-> "data", m |-> m, k |-> 1, n |-> 2, num |-> sd]
             g == [kind |-> "data", m |-> m, k |-> 2, n |-> 2, num |-> Next1(sd)]
             x == Append(e, f)
  <2>1. d = <<f, g>> /\ f.num = sd /\ g.num = Next1(sd)
    BY <1>3 DEF SendMessage
  <2>2. f \in Frame /\ g \in Frame
    BY <1>1, NextIsNumber DEF Frame
  <2> HIDE DEF f, g, d
  <2>3. Counted(z, x, top + 1, Next1(sd), fd, ld, rc, ms)
    BY <1>2, <2>1, <2>2, CountedData
  <2>4. x \in Seq(Frame)
    BY <1>2, <2>2, AppendProperties
  <2>5. e \o d = Append(x, g)
    BY <1>2, <2>1, <2>2
  <2> HIDE DEF x
  <2>6. top + 1 \in Nat /\ (top + 1) + 1 = top + 2
    OBVIOUS
  <2>7. Counted(z, Append(x, g), (top + 1) + 1, Next1(Next1(sd)), fd, ld, rc, ms)
    BY <2>1, <2>2, <2>3, <2>4, <2>6, CountedData
  <2>8. Length(m) = 2
    BY <1>3 DEF Length
  <2>9. Next1(Next1(sd)) = (sd + 2) % W
    <3>1. sd \in Nat /\ sd + 1 \in Nat /\ (sd + 1) + 1 = sd + 2
      BY <1>1, NumberIsNatural
    <3>2. Next1((sd + 1) % W) = ((sd + 1) + 1) % W
      BY <3>1, NextOfRest
    <3> QED BY <3>1, <3>2 DEF Next1
  <2>10. Counted(z, e \o d, top + Length(m), (sd + Length(m)) % W, fd, ld, rc, ms)
    <3> HIDE DEF sd
    <3> QED BY <2>5, <2>6, <2>7, <2>8, <2>9
  <2> QED BY <2>10 DEF e, q, d
<1>4. CASE ~ IsLong(m)
  <2> DEFINE f == [kind |-> "data", m |-> m, k |-> 1, n |-> 1, num |-> sd]
  <2>1. d = <<f>> /\ f.num = sd
    BY <1>4 DEF SendMessage
  <2>2. f \in Frame
    BY <1>1 DEF Frame
  <2> HIDE DEF f, d
  <2>3. Counted(z, Append(e, f), top + 1, Next1(sd), fd, ld, rc, ms)
    BY <1>2, <2>1, <2>2, CountedData
  <2>4. e \o d = Append(e, f)
    BY <1>2, <2>1, <2>2, AppendIsConcat
  <2>5. Length(m) = 1
    BY <1>4 DEF Length
  <2>6. Counted(z, e \o d, top + Length(m), (sd + Length(m)) % W, fd, ld, rc, ms)
    <3> HIDE DEF sd
    <3> QED BY <2>3, <2>4, <2>5 DEF Next1
  <2> QED BY <2>6 DEF e, q, d
<1> QED BY <1>3, <1>4

-----------------------------------------------------------------------------
(* The packets that the clients of a scenario send, and the frames that     *)
(* carry packets: a long one takes two.                                     *)
Listed(x)   == {p \in Packet : \E j \in Box : \E k \in 1 .. Len(x.todo[j]) : x.todo[j][k] = p}
Pieces(ps)  == {f \in ps \X {1, 2} : f[2] = 2 => f[1] \in LongPacket}
Few(x)      == IsFiniteSet(Pieces(Listed(x))) /\ Cardinality(Pieces(Listed(x))) <= W

(* The packets sent over link l, and their frames.                          *)
SentOver(w, l) == {p \in Passed(w, l[1], seen[l[1]], todo[l[1]]) : w.src[p] \in w.side[l]}
Volume(w, l)   == Cardinality(Pieces(SentOver(w, l)))

LEMMA PiecesMore ==
  ASSUME NEW s, NEW t, s \subseteq t, IsFiniteSet(Pieces(t))
  PROVE  /\ IsFiniteSet(Pieces(s)) /\ Cardinality(Pieces(s)) \in Nat
         /\ Cardinality(Pieces(t)) \in Nat /\ Cardinality(Pieces(s)) <= Cardinality(Pieces(t))
<1>1. Pieces(s) \subseteq Pieces(t)
  BY DEF Pieces
<1>2. IsFiniteSet(Pieces(s)) /\ Cardinality(Pieces(s)) <= Cardinality(Pieces(t))
  BY <1>1, FS_Subset
<1> QED BY <1>2, FS_CardinalityType

LEMMA PiecesOfOne ==
  ASSUME NEW s, NEW t, s \subseteq t, IsFiniteSet(Pieces(t)),
         NEW m \in Message, m.head \in t, m.head \notin s
  PROVE  Cardinality(Pieces(s)) + Length(m) <= Cardinality(Pieces(t))
<1> DEFINE p == m.head
           a == Pieces(s)
           b == Pieces(t)
           f == <<p, 1>>
           g == <<p, 2>>
<1>1. a \subseteq b /\ IsFiniteSet(a) /\ Cardinality(a) \in Nat /\ Cardinality(b) \in Nat
  BY PiecesMore DEF Pieces
<1>2. f \in b /\ f \notin a /\ g \notin a /\ f # g /\ (IsLong(m) => g \in b)
  BY DEF Pieces, IsLong
<1> HIDE DEF a, b, f, g
<1> DEFINE c == a \cup {f}
           d == c \cup {g}
<1>3. IsFiniteSet(c) /\ Cardinality(c) = Cardinality(a) + 1 /\ c \subseteq b
  BY <1>1, <1>2, FS_AddElement
<1>4. g \notin c
  BY <1>2
<1> HIDE DEF c
<1>5. IsFiniteSet(d) /\ Cardinality(d) = Cardinality(c) + 1
  BY <1>3, <1>4, FS_AddElement
<1>6. Cardinality(c) <= Cardinality(b)
  BY <1>3, FS_Subset DEF b
<1>7. CASE IsLong(m)
  <2>1. d \subseteq b
    BY <1>2, <1>3, <1>7
  <2> HIDE DEF d
  <2>2. Cardinality(d) <= Cardinality(b)
    BY <2>1, FS_Subset DEF b
  <2>3. Length(m) = 2
    BY <1>7 DEF Length
  <2>4. Cardinality(d) = Cardinality(a) + 2
    BY <1>1, <1>3, <1>5
  <2> QED BY <2>2, <2>3, <2>4 DEF a, b
<1>8. CASE ~ IsLong(m)
  <2>1. Length(m) = 1
    BY <1>8 DEF Length
  <2> QED BY <1>3, <1>6, <2>1 DEF a, b
<1> QED BY <1>7, <1>8

(* Packets that no scenario sends come after all others; the boxes have     *)
(* seen only packets that were sent.                                        *)
OthersLast(w) == \A p \in Packet \ Listed(scenario) : w.pos[p] > Len(scenario.todo[w.src[p]])
ShownListed   == \A i \in Box : Shown(seen[i]) \subseteq Listed(scenario)

LEMMA PassedListed ==
  ASSUME NEW w, NEW c, NEW h, NEW sn, NEW td, InOrder(w, c, h, sn, td), OthersLast(w),
         NEW u \in Box, Shown(sn[u]) \subseteq Listed(scenario)
  PROVE  Passed(w, u, sn[u], td[u]) \subseteq Listed(scenario)
<1> SUFFICES ASSUME NEW p \in Packet, p \in Passed(w, u, sn[u], td[u]), p \notin Listed(scenario)
             PROVE  FALSE
  BY DEF Passed
<1>1. w \in Way /\ scenario \in Scenario /\ td \in [Box -> Seq(Packet)]
  BY DEF InOrder, Shape
<1>2. td[u] \in Seq(Packet) /\ scenario.todo[u] \in Seq(Packet)
  BY <1>1 DEF Scenario
<1>3. Len(td[u]) \in Nat /\ Len(scenario.todo[u]) \in Nat /\ w.pos[p] \in Nat
  BY <1>1, <1>2, LenProperties DEF Way
<1>4. CASE w.src[p] = u
  <2>1. w.pos[p] <= Len(scenario.todo[u]) - Len(td[u])
    BY <1>4 DEF Passed
  <2>2. w.pos[p] > Len(scenario.todo[u])
    BY <1>4 DEF OthersLast
  <2> DEFINE x == w.pos[p]
             y == Len(scenario.todo[u])
             z == Len(td[u])
  <2>3. x \in Nat /\ y \in Nat /\ z \in Nat /\ x <= y - z /\ x > y
    BY <1>3, <2>1, <2>2
  <2> HIDE DEF x, y, z
  <2> QED BY <2>3
<1>5. CASE w.src[p] # u
  BY <1>5 DEF Passed
<1> QED BY <1>4, <1>5

(* The next packet of the clients of a box is one it has not passed on.     *)
LEMMA NextIsNew ==
  ASSUME NEW w, InOrder(w, chan, held, seen, todo), NEW i \in Box, todo[i] # <<>>
  PROVE  /\ Head(todo[i]) \in Packet /\ Head(todo[i]) \notin Passed(w, i, seen[i], todo[i])
         /\ w.src[Head(todo[i])] = i
<1> DEFINE p == Head(todo[i])
           all == scenario.todo[i]
           n == Len(todo[i])
<1>1. w \in Way /\ scenario \in Scenario /\ todo \in [Box -> Seq(Packet)] /\ OnTree(scenario, w)
  BY DEF InOrder, Shape
<1>2. todo[i] \in Seq(Packet) /\ all \in Seq(Packet)
  BY <1>1 DEF Scenario
<1>3. n \in Nat /\ n > 0 /\ p = todo[i][1] /\ p \in Packet /\ Len(all) \in Nat
  <2>1. n \in Nat \ {0} /\ p = todo[i][1]
    BY <1>2, EmptySeq
  <2> QED BY <1>2, <2>1, HeadTailProperties, LenProperties
<1>4. Remaining(i, todo[i])
  BY DEF InOrder
<1>5. n <= Len(all) /\ \A k \in 1 .. n : todo[i][k] = all[Len(all) - n + k]
  BY <1>4 DEF Remaining
<1>6. \A k \in 1 .. Len(all) : w.src[all[k]] = i /\ w.pos[all[k]] = k
  BY <1>1 DEF OnTree
<1> HIDE DEF p, n, all
<1>7. w.src[p] = i /\ w.pos[p] = Len(all) - n + 1
  <2>1. Len(all) - n + 1 \in 1 .. Len(all) /\ 1 \in 1 .. n
    BY <1>3, <1>5
  <2>2. p = all[Len(all) - n + 1]
    BY <1>3, <1>5, <2>1
  <2> QED BY <1>6, <2>1, <2>2
<1>8. ~ (w.pos[p] <= Len(all) - n)
  BY <1>3, <1>7
<1>9. p \notin Passed(w, i, seen[i], todo[i])
  BY <1>7, <1>8 DEF Passed, all, n
<1> QED BY <1>3, <1>7, <1>9 DEF p

LEMMA VolumeBounds ==
  ASSUME NEW w, InOrder(w, chan, held, seen, todo), OthersLast(w), ShownListed, Few(scenario),
         NEW l \in Links
  PROVE  Volume(w, l) \in Nat /\ Volume(w, l) <= W
<1>1. l[1] \in Box
  BY DEF Links
<1>2. SentOver(w, l) \subseteq Listed(scenario)
  BY <1>1, PassedListed DEF SentOver, ShownListed
<1>3. /\ Volume(w, l) \in Nat /\ Cardinality(Pieces(Listed(scenario))) \in Nat
      /\ Volume(w, l) <= Cardinality(Pieces(Listed(scenario)))
  BY <1>2, PiecesMore DEF Volume, Few
<1> QED BY <1>3, WidthIsPositive DEF Few

(* The numbers of all links are counted.                                    *)
LinkCounted(w, l, c) ==
  Counted(scenario.num, c, Volume(w, l), sendData[l], firstData[l], lastData[l],
          received[l], missed[l])
AllCounted(w) ==
  /\ OthersLast(w) /\ ShownListed /\ Few(scenario)
  /\ \A l \in Links : LinkCounted(w, l, chan[l])

LEMMA CountedTypes ==
  ASSUME Kept
  PROVE  /\ scenario.num \in Nat /\ scenario.num \in Number
         /\ \A l \in Links : /\ chan[l] \in Seq(Frame)
                             /\ sendData[l] \in Number
                             /\ firstData[l] \in Number \cup {None}
                             /\ lastData[l] \in Number \cup {None}
                             /\ received[l] \in Nat /\ missed[l] \in Nat
<1>1. TypeOK
  BY DEF Kept
<1>2. scenario.num \in Number
  BY <1>1 DEF TypeOK, Scenario
<1> QED BY <1>1, <1>2, NumberIsNatural DEF TypeOK

(* A step that passes nothing on.                                           *)
LEMMA NothingPassed ==
  ASSUME NEW w, AllCounted(w), UNCHANGED <<scenario, seen, todo>>,
         \A l \in Links :
           Counted(scenario.num, chan'[l], Volume(w, l), sendData'[l], firstData'[l],
                   lastData'[l], received'[l], missed'[l])
  PROVE  AllCounted(w)'
<1>1. OthersLast(w)' /\ ShownListed' /\ Few(scenario)'
  BY DEF AllCounted, OthersLast, ShownListed
<1>2. ASSUME NEW l \in Links PROVE Volume(w, l)' = Volume(w, l)
  BY DEF Volume, SentOver, Passed
<1>3. ASSUME NEW l \in Links PROVE LinkCounted(w, l, chan[l])'
  BY <1>2 DEF LinkCounted
<1> QED BY <1>1, <1>3 DEF AllCounted

LEMMA DropCounted ==
  ASSUME Kept, NEW w, AllCounted(w), NEW k \in Links, chan[k] # <<>>,
         chan' = [chan EXCEPT ![k] = Tail(@)],
         UNCHANGED <<scenario, seen, todo, sendData, tallyVars>>,
         \A l \in Links : Volume(w, l) \in Nat
  PROVE  AllCounted(w)'
<1>1. ASSUME NEW l \in Links
      PROVE  Counted(scenario.num, chan'[l], Volume(w, l), sendData[l], firstData[l],
                     lastData[l], received[l], missed[l])
  <2>1. LinkCounted(w, l, chan[l])
    BY DEF AllCounted
  <2>2. LinkCounted(w, k, Tail(chan[k]))
    <3>1. LinkCounted(w, k, chan[k])
      BY DEF AllCounted
    <3> QED BY <3>1, CountedTypes, CountedTail DEF LinkCounted
  <2>3. chan \in [Links -> Seq(Frame)]
    BY DEF Kept, TypeOK
  <2>4. l = k => chan'[l] = Tail(chan[k])
    BY <2>3
  <2>5. l # k => chan'[l] = chan[l]
    BY <2>3
  <2> QED BY <2>1, <2>2, <2>4, <2>5 DEF LinkCounted
<1> QED BY <1>1, NothingPassed DEF tallyVars

LEMMA TimeoutCounted ==
  ASSUME Kept, NEW w, AllCounted(w), NEW i \in Box, Timeout(i),
         \A l \in Links : Volume(w, l) \in Nat
  PROVE  AllCounted(w)'
<1> DEFINE again(l) == [kind |-> "seq", num |-> sendSequence[l], len |-> messageLen[l]]
<1>1. ASSUME NEW l \in Links
      PROVE  Counted(scenario.num, chan'[l], Volume(w, l), sendData[l], firstData[l],
                     lastData[l], received[l], missed[l])
  <2>1. LinkCounted(w, l, chan[l])
    BY DEF AllCounted
  <2>2. again(l) \in Frame /\ ~ IsData(again(l))
    BY DEF Kept, TypeOK, Frame, IsData
  <2>3. chan'[l] = chan[l] \/ chan'[l] = Append(chan[l], again(l))
    BY DEF Timeout
  <2> HIDE DEF again
  <2>4. LinkCounted(w, l, Append(chan[l], again(l)))
    BY <2>1, <2>2, CountedTypes, CountedPlain DEF LinkCounted
  <2> QED BY <2>1, <2>3, <2>4 DEF LinkCounted
<1> QED BY <1>1, NothingPassed DEF Timeout, tallyVars

(* A step that passes packet m on to the neighbors it is to go to.          *)
LEMMA PassedOn ==
  ASSUME Kept, NEW w, NEW i \in Box, NEW from \in Box \cup {Client}, NEW m \in Message,
         NEW sent \in [Links -> Seq(Frame)], scenario' = scenario, Forward(i, from, m, sent),
         \A l \in Links :
           /\ Volume(w, l) \in Nat /\ Volume(w, l)' \in Nat /\ Volume(w, l) <= Volume(w, l)'
           /\ l \in Outgoing(i, from) => Volume(w, l) + Length(m) <= Volume(w, l)'
           /\ Counted(scenario.num, sent[l], Volume(w, l), sendData[l], firstData'[l],
                      lastData'[l], received'[l], missed'[l])
  PROVE  \A l \in Links : LinkCounted(w, l, chan[l])'
<1> SUFFICES ASSUME NEW l \in Links PROVE LinkCounted(w, l, chan[l])'
  OBVIOUS
<1> DEFINE z == scenario.num
           top == Volume(w, l)
           up == Volume(w, l)'
           c == sent[l]
           sd == sendData[l]
           n == Length(m)
           c2 == c \o SendSeq(l, m) \o SendMessage(sd, m)
           sd2 == (sd + n) % W
<1>1. z \in Nat /\ top \in Nat /\ up \in Nat /\ top <= up /\ c \in Seq(Frame) /\ n \in Nat
  BY CountedTypes DEF Length
<1>2. Counted(z, c, top, sd, firstData'[l], lastData'[l], received'[l], missed'[l])
  OBVIOUS
<1>3. CASE l \in Outgoing(i, from)
  <2>1. chan'[l] = c2 /\ sendData'[l] = sd2
    BY <1>3 DEF Forward, Outgoing
  <2>2. Counted(z, c2, top + n, sd2, firstData'[l], lastData'[l], received'[l], missed'[l])
    <3>1. TypeOK
      BY DEF Kept
    <3> HIDE DEF top, z, c
    <3> QED BY <1>1, <1>2, <3>1, CountedMessage
  <2>3. top + n <= up
    BY <1>3
  <2>4. Counted(z, c2, up, sd2, firstData'[l], lastData'[l], received'[l], missed'[l])
    <3> HIDE DEF top, up, z, c, n, c2, sd2
    <3>1. top + n \in Nat
      BY <1>1
    <3> QED BY <1>1, <2>2, <2>3, <3>1, CountedMore
  <2> QED BY <2>1, <2>4 DEF LinkCounted
<1>4. CASE l \notin Outgoing(i, from)
  <2>1. chan'[l] = c /\ sendData'[l] = sd
    BY <1>4 DEF Forward, Outgoing
  <2>2. Counted(z, c, up, sd, firstData'[l], lastData'[l], received'[l], missed'[l])
    <3> HIDE DEF top, up, z, c, sd
    <3> QED BY <1>1, <1>2, CountedMore
  <2> QED BY <2>1, <2>2 DEF LinkCounted
<1> QED BY <1>3, <1>4

LEMMA OrderBefore ==
  ASSUME NEW w, AllInOrder(w)', scenario' = scenario
  PROVE  InOrder(w, chan', held', seen', todo')
<1>1. nbr' = nbr
  BY DEF nbr
<1> QED BY <1>1 DEF AllInOrder, InOrder, Shape, Forwarded, Passed, Remaining

(* What box i passes on adds to what was sent over its links.               *)
LEMMA VolumeGrows ==
  ASSUME NEW w, AllInOrder(w), AllCounted(w), AllInOrder(w)',
         OthersLast(w)', ShownListed', Few(scenario)', scenario' = scenario,
         NEW i \in Box, NEW from, NEW m \in Message,
         m.head \notin Passed(w, i, seen[i], todo[i]),
         m.head \in Passed(w, i, seen[i], todo[i])',
         \A l \in Outgoing(i, from) : w.src[m.head] \in w.side[l],
         \A u \in Box : Passed(w, u, seen[u], todo[u]) \subseteq Passed(w, u, seen[u], todo[u])'
  PROVE  \A l \in Links :
           /\ Volume(w, l) \in Nat /\ Volume(w, l)' \in Nat /\ Volume(w, l) <= Volume(w, l)'
           /\ l \in Outgoing(i, from) => Volume(w, l) + Length(m) <= Volume(w, l)'
<1> SUFFICES ASSUME NEW l \in Links
             PROVE  /\ Volume(w, l) \in Nat /\ Volume(w, l)' \in Nat
                    /\ Volume(w, l) <= Volume(w, l)'
                    /\ l \in Outgoing(i, from) => Volume(w, l) + Length(m) <= Volume(w, l)'
  OBVIOUS
<1> DEFINE s == SentOver(w, l)
           t == SentOver(w, l)'
<1>1. l[1] \in Box
  BY DEF Links
<1>2. s \subseteq t
  BY <1>1 DEF SentOver
<1>3. t \subseteq Listed(scenario)
  <2>1. (Passed(w, l[1], seen[l[1]], todo[l[1]]) \subseteq Listed(scenario))'
    <3>1. InOrder(w, chan', held', seen', todo')
      BY OrderBefore
    <3>2. Shown(seen'[l[1]]) \subseteq Listed(scenario) /\ OthersLast(w)
      BY <1>1 DEF ShownListed, OthersLast, AllCounted
    <3>3. Passed(w, l[1], seen'[l[1]], todo'[l[1]]) \subseteq Listed(scenario)
      BY <1>1, <3>1, <3>2, PassedListed
    <3> QED BY <3>3 DEF Passed
  <2> QED BY <2>1 DEF SentOver
<1>4. IsFiniteSet(Pieces(t))
  <2>1. IsFiniteSet(Pieces(Listed(scenario)))
    BY DEF AllCounted, Few
  <2> QED BY <1>3, <2>1, PiecesMore
<1>5. l \in Outgoing(i, from) => m.head \in t /\ m.head \notin s
  BY DEF SentOver, Outgoing
<1>6. Volume(w, l) = Cardinality(Pieces(s)) /\ Volume(w, l)' = Cardinality(Pieces(t))
  BY DEF Volume, Pieces
<1> HIDE DEF s, t
<1>7. /\ Cardinality(Pieces(s)) \in Nat /\ Cardinality(Pieces(t)) \in Nat
      /\ Cardinality(Pieces(s)) <= Cardinality(Pieces(t))
  BY <1>2, <1>4, PiecesMore
<1>8. l \in Outgoing(i, from) => Cardinality(Pieces(s)) + Length(m) <= Cardinality(Pieces(t))
  BY <1>2, <1>4, <1>5, PiecesOfOne
<1> QED BY <1>6, <1>7, <1>8

LEMMA FromClientCounted ==
  ASSUME Kept, NEW w, AllInOrder(w), AllCounted(w), NEW i \in Box, FromClient(i)
  PROVE  AllCounted(w)'
<1> DEFINE p  == Head(todo[i])
           m  == Whole(p)
           t2 == [todo EXCEPT ![i] = Tail(@)]
<1>1. /\ TypeOK /\ InOrder(w, chan, held, seen, todo) /\ todo \in [Box -> Seq(Packet)]
      /\ scenario \in Scenario /\ OnTree(scenario, w)
  BY DEF AllInOrder, Kept, TypeOK, InOrder, Shape
<1>2. todo[i] # <<>> /\ todo[i] \in Seq(Packet)
  BY <1>1 DEF FromClient, Read, HasInput
<1>3. p \in Packet /\ p \notin Passed(w, i, seen[i], todo[i]) /\ w.src[p] = i
  BY <1>1, <1>2, NextIsNew
<1>4. m \in Message /\ m.head = p
  BY <1>3 DEF Whole, Message
<1>5. p \in Passed(w, i, seen[i], t2[i])
  BY <1>1, <1>2, TodoTail
<1>6. /\ Forward(i, Client, m, chan) /\ todo' = t2
      /\ UNCHANGED <<scenario, tallyVars>> /\ seen' = seen
  BY DEF FromClient, Forward
<1>7. t2[i] = Tail(todo[i]) /\ (\A u \in Box : u # i => t2[u] = todo[u])
  BY <1>1
<1> HIDE DEF m, t2, p
<1>8. OthersLast(w)' /\ ShownListed' /\ Few(scenario)'
  BY <1>6 DEF AllCounted, OthersLast, ShownListed
<1>9. AllInOrder(w)'
  BY FromClientInOrder
<1>10. \A l \in Outgoing(i, Client) : w.src[m.head] \in w.side[l]
  <2> SUFFICES ASSUME NEW l \in Outgoing(i, Client) PROVE i \in w.side[l]
    BY <1>3, <1>4
  <2>1. l \in Links /\ l[1] = i /\ l[2] \in nbr[i]
    BY DEF Outgoing, Receivers
  <2>2. l = <<i, l[2]>>
    BY <2>1 DEF Links
  <2> QED BY <1>1, <2>1, <2>2 DEF OnTree, nbr
<1>11. nbr' = nbr
  BY <1>6 DEF nbr
<1>12. \A u \in Box : Passed(w, u, seen[u], todo[u]) \subseteq Passed(w, u, seen[u], todo[u])'
  <2>1. \A u \in Box : u # i => Passed(w, u, seen[u], todo[u])' = Passed(w, u, seen[u], todo[u])
    BY <1>6, <1>7 DEF Passed
  <2>2. Passed(w, i, seen[i], todo[i]) \subseteq Passed(w, i, seen[i], todo[i])'
    <3>1. /\ Len(todo[i]) \in Nat /\ Len(Tail(todo[i])) = Len(todo[i]) - 1
          /\ scenario.todo[i] \in Seq(Packet)
      <4>1. Len(todo[i]) \in Nat \ {0}
        BY <1>2, EmptySeq
      <4> QED BY <1>1, <1>2, <4>1, HeadTailProperties DEF Scenario
    <3>2. \A q \in Packet : w.pos[q] \in Nat
      BY <1>1 DEF InOrder, Shape, Way
    <3> DEFINE a == Len(scenario.todo[i])
               b == Len(todo[i])
    <3>3. a \in Nat /\ b \in Nat
      BY <3>1, LenProperties
    <3>4. \A x \in Nat : x <= a - b => x <= a - (b - 1)
      <4> HIDE DEF a, b
      <4> QED BY <3>3
    <3>5. Len(t2[i]) = b - 1
      BY <1>7, <3>1
    <3> HIDE DEF a, b
    <3> QED BY <1>6, <3>2, <3>4, <3>5 DEF Passed, a, b
  <2> QED BY <2>1, <2>2
<1>13. p \in Passed(w, i, seen[i], todo[i])'
  BY <1>5, <1>6 DEF Passed
<1>14. \A l \in Links :
         /\ Volume(w, l) \in Nat /\ Volume(w, l)' \in Nat /\ Volume(w, l) <= Volume(w, l)'
         /\ l \in Outgoing(i, Client) => Volume(w, l) + Length(m) <= Volume(w, l)'
  BY <1>3, <1>4, <1>6, <1>8, <1>9, <1>10, <1>12, <1>13, VolumeGrows
<1>15. \A l \in Links :
         Counted(scenario.num, chan[l], Volume(w, l), sendData[l], firstData'[l],
                 lastData'[l], received'[l], missed'[l])
  BY <1>6 DEF AllCounted, LinkCounted, tallyVars
<1>16. \A l \in Links : LinkCounted(w, l, chan[l])'
  <2>1. chan \in [Links -> Seq(Frame)]
    BY <1>1 DEF TypeOK
  <2> QED BY <1>4, <1>6, <1>14, <1>15, <2>1, PassedOn
<1> QED BY <1>8, <1>16 DEF AllCounted

(* A data frame is read, and perhaps acknowledged.                          *)
LEMMA TallyCounted ==
  ASSUME Kept, NEW w, AllInOrder(w), AllCounted(w), NEW i \in Box, NEW j \in nbr[i],
         FromData(i, j), NEW sent,
         LET l    == <<j, i>>
             rest == [chan EXCEPT ![l] = Tail(@)]
             ack  == [kind |-> "ack", num |-> recvSequence[l]]
         IN  sent = rest \/ sent = [rest EXCEPT ![<<i, j>>] = Append(@, ack)]
  PROVE  /\ sent \in [Links -> Seq(Frame)]
         /\ \A k \in Links :
              Counted(scenario.num, sent[k], Volume(w, k), sendData[k], firstData'[k],
                      lastData'[k], received'[k], missed'[k])
<1> DEFINE l    == <<j, i>>
           f    == Head(chan[l])
           rest == [chan EXCEPT ![l] = Tail(@)]
           ack  == [kind |-> "ack", num |-> recvSequence[l]]
<1>1. /\ TypeOK /\ InOrder(w, chan, held, seen, todo)
      /\ scenario \in Scenario /\ chan \in [Links -> Seq(Frame)]
      /\ j \in Box /\ i \in nbr[j] /\ l \in Links /\ <<i, j>> \in Links /\ j # i
  BY OnNeighbors DEF AllInOrder, InOrder, Shape, Kept
<1>2. chan[l] # <<>> /\ IsData(f)
  BY <1>1, ConstAssumption DEF FromData, Read, HasInput, IsData
<1>3. /\ rest \in [Links -> Seq(Frame)] /\ rest[l] = Tail(chan[l])
      /\ \A k \in Links : k # l => rest[k] = chan[k]
  BY <1>1, <1>2, HeadAndTail
<1>4. ack \in Frame /\ ~ IsData(ack)
  BY <1>1 DEF TypeOK, Frame, IsData
<1>5. sent = rest \/ sent = [rest EXCEPT ![<<i, j>>] = Append(@, ack)]
  OBVIOUS
<1>6. Tally(l, f.num)
  BY DEF FromData
<1>7. \A k \in Links : Volume(w, k) \in Nat /\ Volume(w, k) <= W
  BY <1>1, VolumeBounds DEF AllCounted
<1>8. \A k \in Links : LinkCounted(w, k, chan[k])
  BY DEF AllCounted
<1> HIDE DEF rest, ack
<1>9. Append(rest[<<i, j>>], ack) \in Seq(Frame)
  BY <1>1, <1>3, <1>4, AppendProperties
<1>10. /\ sent \in [Links -> Seq(Frame)]
       /\ \A k \in Links : k # <<i, j>> => sent[k] = rest[k]
       /\ sent[<<i, j>>] = rest[<<i, j>>] \/ sent[<<i, j>>] = Append(rest[<<i, j>>], ack)
  BY <1>1, <1>3, <1>5, <1>9
<1>11. l # <<i, j>>
  BY <1>1
<1>12. /\ firstData' = [firstData EXCEPT ![l] = IF @ = None THEN f.num ELSE @]
       /\ lastData' = [lastData EXCEPT ![l] = f.num]
       /\ received' = [received EXCEPT ![l] = @ + 1]
       /\ missed' = [missed EXCEPT ![l] =
                       IF lastData[l] = None \/ f.num = Next1(lastData[l]) THEN @
                       ELSE @ + ((f.num + W - lastData[l]) % W)]
  BY <1>6 DEF Tally
<1>13. /\ firstData'[l] = IF firstData[l] = None THEN f.num ELSE firstData[l]
       /\ lastData'[l] = f.num /\ received'[l] = received[l] + 1
       /\ missed'[l] = IF lastData[l] = None \/ f.num = Next1(lastData[l]) THEN missed[l]
                       ELSE missed[l] + ((f.num + W - lastData[l]) % W)
       /\ \A k \in Links : k # l => /\ firstData'[k] = firstData[k] /\ lastData'[k] = lastData[k]
                                    /\ received'[k] = received[k] /\ missed'[k] = missed[k]
  BY <1>1, <1>12 DEF TypeOK
<1>14. Counted(scenario.num, Tail(chan[l]), Volume(w, l), sendData[l], firstData'[l],
               lastData'[l], received'[l], missed'[l])
  <2>1. Counted(scenario.num, chan[l], Volume(w, l), sendData[l], firstData[l], lastData[l],
                received[l], missed[l])
    BY <1>1, <1>8 DEF LinkCounted
  <2>2. /\ scenario.num \in Nat /\ chan[l] \in Seq(Frame)
        /\ Volume(w, l) \in Nat /\ Volume(w, l) <= W
        /\ firstData[l] \in Number \cup {None} /\ lastData[l] \in Number \cup {None}
        /\ received[l] \in Nat /\ missed[l] \in Nat
    BY <1>1, <1>7, CountedTypes
  <2>3. Counted(scenario.num, Tail(chan[l]), Volume(w, l), sendData[l],
                IF firstData[l] = None THEN f.num ELSE firstData[l], f.num, received[l] + 1,
                IF lastData[l] = None \/ f.num = Next1(lastData[l]) THEN missed[l]
                ELSE missed[l] + ((f.num + W - lastData[l]) % W))
    BY <1>2, <2>1, <2>2, CountedTally
  <2> QED BY <1>13, <2>3
<1>15. ASSUME NEW k \in Links
       PROVE  Counted(scenario.num, sent[k], Volume(w, k), sendData[k], firstData'[k],
                      lastData'[k], received'[k], missed'[k])
  <2>1. CASE k = l
    BY <1>3, <1>10, <1>11, <1>14, <2>1
  <2>2. CASE k # l
    <3>1. Counted(scenario.num, chan[k], Volume(w, k), sendData[k], firstData'[k],
                  lastData'[k], received'[k], missed'[k])
      BY <1>8, <1>13, <2>2 DEF LinkCounted
    <3>2. sent[k] = chan[k] \/ sent[k] = Append(chan[k], ack)
      BY <1>3, <1>10, <2>2
    <3>3. scenario.num \in Nat /\ chan[k] \in Seq(Frame) /\ Volume(w, k) \in Nat
      BY <1>7, CountedTypes
    <3>4. Counted(scenario.num, Append(chan[k], ack), Volume(w, k), sendData[k], firstData'[k],
                  lastData'[k], received'[k], missed'[k])
      BY <1>4, <3>1, <3>3, CountedPlain
    <3> QED BY <3>1, <3>2, <3>4
  <2> QED BY <2>1, <2>2
<1> QED BY <1>10, <1>15

LEMMA FromDataCounted ==
  ASSUME Kept, NEW w, AllInOrder(w), AllCounted(w), NEW i \in Box, NEW j \in nbr[i],
         FromData(i, j)
  PROVE  AllCounted(w)'
<1> DEFINE l    == <<j, i>>
           f    == Head(chan[l])
           rest == [chan EXCEPT ![l] = Tail(@)]
           done == Completed(held[l], f)
           ackd == \E m \in done : Acked(l, m)
           ack  == [kind |-> "ack", num |-> recvSequence[l]]
           sent == IF ackd THEN [rest EXCEPT ![<<i, j>>] = Append(@, ack)] ELSE rest
           h2   == [held EXCEPT ![l] = HeldAfter(@, f)]
<1>1. /\ TypeOK /\ InOrder(w, chan, held, seen, todo)
      /\ scenario \in Scenario /\ chan \in [Links -> Seq(Frame)]
      /\ OnTree(scenario, w) /\ seen \in [Box -> Seq(Message)]
      /\ j \in Box /\ i \in nbr[j] /\ l \in Links /\ <<i, j>> \in Links /\ j # i
  BY OnNeighbors DEF AllInOrder, InOrder, Shape, Kept
<1>2. chan[l] # <<>> /\ IsData(f)
  BY <1>1, ConstAssumption DEF FromData, Read, HasInput, IsData
<1>3. \A m \in done : m \in Message /\ Arrived(w, rest, h2, seen, todo, i, j, m.head)
  BY <1>1, <1>2, ReadInOrder
<1>4. /\ sent \in [Links -> Seq(Frame)]
      /\ \A k \in Links :
           Counted(scenario.num, sent[k], Volume(w, k), sendData[k], firstData'[k],
                   lastData'[k], received'[k], missed'[k])
  BY TallyCounted
<1>5. /\ scenario' = scenario /\ todo' = todo
      /\ IF \E m \in done : MessageOk(l, m)
         THEN \E m \in done : Forward(i, j, m, sent)
         ELSE chan' = sent /\ seen' = seen /\ sendData' = sendData
  BY DEF FromData
<1>6. AllInOrder(w)'
  BY FromDataInOrder
<1> HIDE DEF ack, ackd, rest, f, h2, done, sent
<1>7. CASE \E m \in done : MessageOk(l, m)
  <2>1. PICK m \in done : Forward(i, j, m, sent)
    BY <1>5, <1>7
  <2> DEFINE p  == m.head
             s2 == [seen EXCEPT ![i] = Append(@, m)]
  <2>2. m \in Message /\ Arrived(w, rest, h2, seen, todo, i, j, p)
    BY <1>3
  <2>3. /\ p \in Packet /\ w.src[p] \in w.side[l] /\ w.src[p] # i
        /\ \A q \in Shown(seen[i]) : Before(w, q, p)
        /\ p \in Passed(w, j, seen[j], todo[j])
    <3>1. i \notin w.side[l]
      BY <1>1 DEF OnTree, nbr
    <3> QED BY <2>2, <3>1 DEF Arrived
  <2>4. seen' = s2 /\ j # Client
    <3>1. j # Client
      BY <1>1, ConstAssumption
    <3> QED BY <2>1, <3>1 DEF Forward
  <2>5. s2[i] = Append(seen[i], m) /\ \A v \in Box : v # i => s2[v] = seen[v]
    BY <1>1
  <2>6. Shown(s2[i]) = Shown(seen[i]) \cup {p}
    <3>1. seen[i] \in Seq(Message)
      BY <1>1
    <3> QED BY <2>2, <2>5, <3>1, ShownAfter
  <2> HIDE DEF s2
  <2>7. p \notin Passed(w, i, seen[i], todo[i])
    <3>1. w.pos[p] \in Nat
      BY <1>1, <2>3 DEF InOrder, Shape, Way
    <3>2. ~ Before(w, p, p)
      BY <3>1 DEF Before
    <3> QED BY <2>3, <3>2 DEF Passed
  <2>8. p \in Passed(w, i, seen[i], todo[i])'
    BY <1>5, <2>3, <2>4, <2>6 DEF Passed
  <2>9. OthersLast(w)' /\ Few(scenario)'
    BY <1>5 DEF AllCounted, OthersLast
  <2>10. p \in Listed(scenario)
    <3>1. OthersLast(w) /\ Shown(seen[j]) \subseteq Listed(scenario)
      BY <1>1 DEF AllCounted, ShownListed
    <3> QED BY <1>1, <2>3, <3>1, PassedListed
  <2>11. ShownListed'
    <3> SUFFICES ASSUME NEW v \in Box PROVE Shown(seen'[v]) \subseteq Listed(scenario)
      BY <1>5 DEF ShownListed
    <3>1. Shown(seen[v]) \subseteq Listed(scenario)
      BY DEF AllCounted, ShownListed
    <3>2. CASE v = i
      BY <2>4, <2>6, <2>10, <3>1, <3>2
    <3>3. CASE v # i
      <4>1. seen'[v] = seen[v]
        BY <2>4, <2>5, <3>3
      <4> QED BY <3>1, <4>1
    <3> QED BY <3>2, <3>3
  <2>12. \A k \in Outgoing(i, j) : w.src[m.head] \in w.side[k]
    <3> SUFFICES ASSUME NEW k \in Outgoing(i, j) PROVE w.src[p] \in w.side[k]
      OBVIOUS
    <3>1. k \in Links /\ k[1] = i /\ k[2] \in nbr[i] /\ k[2] # j
      BY DEF Outgoing, Receivers
    <3>2. k = <<i, k[2]>>
      BY <3>1 DEF Links
    <3>3. w.side[l] \subseteq w.side[<<i, k[2]>>]
      <4>1. \A x, y \in scenario.nbr[i] : x # y => w.side[<<y, i>>] \subseteq w.side[<<i, x>>]
        BY <1>1 DEF OnTree
      <4> QED BY <3>1, <4>1 DEF nbr
    <3> QED BY <2>3, <3>2, <3>3
  <2>13. \A u \in Box : Passed(w, u, seen[u], todo[u]) \subseteq Passed(w, u, seen[u], todo[u])'
    <3>1. \A u \in Box : Shown(seen[u]) \subseteq Shown(seen'[u])
      BY <2>4, <2>5, <2>6
    <3> QED BY <1>5, <3>1 DEF Passed
  <2>14. \A k \in Links :
           /\ Volume(w, k) \in Nat /\ Volume(w, k)' \in Nat /\ Volume(w, k) <= Volume(w, k)'
           /\ k \in Outgoing(i, j) => Volume(w, k) + Length(m) <= Volume(w, k)'
    BY <1>5, <1>6, <2>2, <2>7, <2>8, <2>9, <2>11, <2>12, <2>13, VolumeGrows
  <2>15. \A k \in Links : LinkCounted(w, k, chan[k])'
    BY <1>1, <1>4, <1>5, <2>1, <2>2, <2>14, PassedOn
  <2> QED BY <2>9, <2>11, <2>15 DEF AllCounted
<1>8. CASE ~ \E m \in done : MessageOk(l, m)
  <2>1. chan' = sent /\ seen' = seen /\ sendData' = sendData
    BY <1>5, <1>8
  <2> QED BY <1>4, <1>5, <2>1, NothingPassed
<1> QED BY <1>7, <1>8

LEMMA NextCounted ==
  ASSUME Kept, NEW w, AllInOrder(w), AllCounted(w), [Next]_vars
  PROVE  AllCounted(w)'
<1>1. \A l \in Links : Volume(w, l) \in Nat
  BY VolumeBounds DEF AllInOrder, AllCounted
<1>2. scenario \in Scenario
  BY DEF AllInOrder, InOrder, Shape
<1>3. ASSUME NEW i \in Box, Round(i) PROVE AllCounted(w)'
  <2>1. CASE Select(i)
    <3>1. UNCHANGED <<scenario, seen, todo, chan, sendData, tallyVars>>
      BY <2>1 DEF Select
    <3> QED BY <3>1, NothingPassed DEF AllCounted, LinkCounted, tallyVars
  <2>2. CASE FromClient(i)
    BY <2>2, FromClientCounted
  <2>3. ASSUME NEW j \in nbr[i], FromSeq(i, j) \/ FromAck(i, j) PROVE AllCounted(w)'
    <3>1. j \in Box /\ i \in nbr[j] /\ <<j, i>> \in Links
      BY <1>2, OnNeighbors
    <3>2. chan[<<j, i>>] # <<>>
      BY <2>3, <3>1, ConstAssumption DEF FromSeq, FromAck, Read, HasInput
    <3>3. /\ chan' = [chan EXCEPT ![<<j, i>>] = Tail(@)]
          /\ UNCHANGED <<scenario, seen, todo, sendData, tallyVars>>
      BY <2>3 DEF FromSeq, FromAck
    <3> QED BY <1>1, <3>1, <3>2, <3>3, DropCounted
  <2>4. ASSUME NEW j \in nbr[i], FromData(i, j) PROVE AllCounted(w)'
    BY <2>4, FromDataCounted
  <2>5. CASE Timeout(i)
    BY <1>1, <2>5, TimeoutCounted
  <2> QED BY <1>3, <2>1, <2>2, <2>3, <2>4, <2>5 DEF Round
<1>4. ASSUME NEW i \in Box, NEW j \in Box, j \in nbr[i], Lose(i, j) PROVE AllCounted(w)'
  <2>1. /\ chan[<<i, j>>] # <<>> /\ chan' = [chan EXCEPT ![<<i, j>>] = Tail(@)]
        /\ UNCHANGED <<scenario, seen, todo, sendData, tallyVars>>
    BY <1>4 DEF Lose
  <2>2. <<i, j>> \in Links
    BY <1>2, <1>4, OnNeighbors
  <2> QED BY <1>1, <2>1, <2>2, DropCounted
<1>5. CASE UNCHANGED vars
  <2>1. UNCHANGED <<scenario, seen, todo, chan, sendData, tallyVars>>
    BY <1>5 DEF vars
  <2> QED BY <2>1, NothingPassed DEF AllCounted, LinkCounted, tallyVars
<1> QED BY <1>3, <1>4, <1>5 DEF Next

(* A way on which the packets nobody sends come last.                       *)
LEMMA OthersBehind ==
  ASSUME NEW w \in Way, scenario \in Scenario, OnTree(scenario, w)
  PROVE  \E v \in Way : OnTree(scenario, v) /\ OthersLast(v) /\ v.side = w.side
<1> DEFINE pos == [p \in Packet |-> IF p \in Listed(scenario) THEN w.pos[p]
                                    ELSE Len(scenario.todo[w.src[p]]) + 1]
           v == [side |-> w.side, src |-> w.src, pos |-> pos]
<1>1. /\ w.side \in [Links -> SUBSET Box] /\ w.src \in [Packet -> Box]
      /\ w.pos \in [Packet -> Nat]
  BY DEF Way
<1>2. \A j \in Box : scenario.todo[j] \in Seq(Packet) /\ Len(scenario.todo[j]) \in Nat
  <2>1. \A j \in Box : scenario.todo[j] \in Seq(Packet)
    BY DEF Scenario
  <2> QED BY <2>1, LenProperties
<1>3. pos \in [Packet -> Nat]
  <2> SUFFICES ASSUME NEW p \in Packet
               PROVE  (IF p \in Listed(scenario) THEN w.pos[p]
                       ELSE Len(scenario.todo[w.src[p]]) + 1) \in Nat
    OBVIOUS
  <2>1. w.src[p] \in Box /\ w.pos[p] \in Nat
    BY <1>1
  <2>2. Len(scenario.todo[w.src[p]]) \in Nat
    BY <1>2, <2>1
  <2> QED BY <2>1, <2>2
<1>4. v \in Way
  BY <1>1, <1>3 DEF Way
<1>5. \A j \in Box : \A k \in 1 .. Len(scenario.todo[j]) :
        pos[scenario.todo[j][k]] = w.pos[scenario.todo[j][k]]
  <2> SUFFICES ASSUME NEW j \in Box, NEW k \in 1 .. Len(scenario.todo[j])
               PROVE  scenario.todo[j][k] \in Packet /\ scenario.todo[j][k] \in Listed(scenario)
    OBVIOUS
  <2>1. scenario.todo[j][k] \in Packet
    <3>1. scenario.todo[j] \in Seq(Packet)
      BY <1>2
    <3> QED BY <3>1, ElementOfSeq
  <2> QED BY <2>1 DEF Listed
<1>6. \A p \in Packet \ Listed(scenario) : pos[p] > Len(scenario.todo[w.src[p]])
  <2> SUFFICES ASSUME NEW p \in Packet \ Listed(scenario)
               PROVE  Len(scenario.todo[w.src[p]]) + 1 > Len(scenario.todo[w.src[p]])
    OBVIOUS
  <2>1. w.src[p] \in Box
    BY <1>1
  <2>2. Len(scenario.todo[w.src[p]]) \in Nat
    BY <1>2, <2>1
  <2>3. \A x \in Nat : x + 1 > x
    OBVIOUS
  <2> QED BY <2>2, <2>3, Zenon
<1>7. v.side = w.side /\ v.src = w.src /\ v.pos = pos
  OBVIOUS
<1> HIDE DEF pos, v
<1>8. OnTree(scenario, v)
  BY <1>5, <1>7 DEF OnTree
<1>9. OthersLast(v)
  BY <1>6, <1>7 DEF OthersLast
<1> QED BY <1>4, <1>7, <1>8, <1>9

LEMMA InitCounted ==
  ASSUME Init, NEW w, AllInOrder(w), OthersLast(w), Few(scenario)
  PROVE  AllCounted(w)
<1>1. ShownListed
  <2>1. \A i \in Box : seen[i] = <<>>
    BY DEF Init
  <2>2. Len(<<>>) = 0
    OBVIOUS
  <2> QED BY <2>1, <2>2 DEF ShownListed, Shown
<1>2. ASSUME NEW l \in Links PROVE LinkCounted(w, l, chan[l])
  <2> DEFINE z == scenario.num
             x == [a \in 1 .. 0 |-> 0]
  <2>1. /\ chan[l] = <<>> /\ sendData[l] = z /\ firstData[l] = None /\ lastData[l] = None
        /\ received[l] = 0 /\ missed[l] = 0
    BY DEF Init
  <2>2. z \in Number
    <3>1. TypeOK
      BY InitOK
    <3> QED BY <3>1 DEF TypeOK, Scenario
  <2>3. Volume(w, l) \in Nat
    BY <1>1, VolumeBounds DEF AllInOrder
  <2>4. z = (z + 0) % W
    <3>1. z \in 0 .. W - 1 /\ W \in Nat
      BY <2>2, WidthIsPositive DEF Number
    <3>2. z + 0 \in Nat /\ z + 0 = W * 0 + z
      BY <3>1
    <3> QED BY <3>1, <3>2, RestIs
  <2>5. Len(<<>>) = 0 /\ x \in [1 .. 0 -> Nat]
    OBVIOUS
  <2>6. NumberedBy(z, <<>>, x, 0, 0)
    BY <2>5 DEF NumberedBy
  <2>7. Numbered(z, <<>>, 0, 0)
    BY <2>5, <2>6 DEF Numbered
  <2>8. Summed(z, 0, None, None, 0, 0)
    BY DEF Summed
  <2>9. 0 \in 0 .. Volume(w, l) /\ 0 \in 0 .. 0
    BY <2>3
  <2>10. Counted(z, <<>>, Volume(w, l), z, None, None, 0, 0)
    BY <2>4, <2>7, <2>8, <2>9 DEF Counted
  <2> QED BY <2>1, <2>10 DEF LinkCounted
<1> QED BY <1>1, <1>2 DEF AllCounted

LEMMA TallyFromCounts ==
  ASSUME Kept, NEW w, AllInOrder(w), AllCounted(w)
  PROVE  TallyBounds
<1> SUFFICES ASSUME NEW l \in Links, firstData[l] # None
             PROVE  LET gone == ((lastData[l] + W - firstData[l]) % W) + 1 - received[l]
                    IN  gone <= missed[l] /\ missed[l] <= 2 * gone
  BY DEF TallyBounds
<1>1. Volume(w, l) \in Nat /\ Volume(w, l) <= W
  BY VolumeBounds DEF AllInOrder, AllCounted
<1>2. LinkCounted(w, l, chan[l])
  BY DEF AllCounted
<1> QED BY <1>1, <1>2, CountedTypes, CountedBounds DEF LinkCounted

(* In no scenario do the packets take more frames than there are numbers.   *)
FewFrames == \A x \in Scenarios : Few(x)

(* On every tree, whatever is lost or late: of the frames that a link lost  *)
(* between two that it received, at least as many are counted and at most   *)
(* twice as many, unless the numbers came round to where they began.        *)
THEOREM TallyOnEveryTree == ASSUME Trees, FewFrames PROVE Spec => []TallyBounds
<1> DEFINE Good == \E w : AllInOrder(w) /\ AllCounted(w)
<1>1. Init => Kept /\ Good
  <2> SUFFICES ASSUME Init PROVE Kept /\ Good
    OBVIOUS
  <2>1. scenario \in Scenarios /\ scenario \in Scenario
    BY ScenarioAssumption DEF Init
  <2>2. PICK u \in Way : OnTree(scenario, u)
    BY <2>1 DEF Trees
  <2>3. PICK w \in Way : OnTree(scenario, w) /\ OthersLast(w)
    BY <2>1, <2>2, OthersBehind
  <2>4. AllInOrder(w)
    BY <2>3, InitInOrder
  <2>5. AllCounted(w)
    BY <2>1, <2>3, <2>4, InitCounted DEF FewFrames
  <2> QED BY <2>4, <2>5, InitOK DEF Kept
<1>2. Kept /\ Good /\ [Next]_vars => Kept' /\ Good'
  <2> SUFFICES ASSUME Kept, Good, [Next]_vars PROVE Kept' /\ Good'
    OBVIOUS
  <2>1. PICK w : AllInOrder(w) /\ AllCounted(w)
    OBVIOUS
  <2>2. AllInOrder(w)' /\ AllCounted(w)'
    BY <2>1, NextInOrder, NextCounted
  <2>3. Good'
    BY <2>2
  <2> QED BY <2>3, NextKeeps
<1>3. Kept /\ Good => TallyBounds
  BY TallyFromCounts
<1> HIDE DEF Good
<1> QED BY <1>1, <1>2, <1>3, PTL DEF Spec

-----------------------------------------------------------------------------
(* Nothing is missing.  Frames of a link and acknowledgements of the other  *)
(* direction share a channel: the k frames of the link follow n of these.   *)
IsAck(f)      == f.kind = "ack"
NoAck(c)      == \A a \in 1 .. Len(c) : ~ IsAck(c[a])
OneAck(c)     == \E a \in 1 .. Len(c) : IsAck(c[a]) /\ \A b \in 1 .. Len(c) : IsAck(c[b]) => b = a
OnlyAcks(c)   == \A a \in 1 .. Len(c) : IsAck(c[a])
SameAcks(c, d) == (NoAck(c) => NoAck(d)) /\ (OneAck(c) => OneAck(d))
Span(c, n, k) == /\ n + k <= Len(c)
                 /\ \A a \in 1 .. Len(c) : IsAck(c[a]) <=> (a <= n \/ a > n + k)

IsPiece(f, m, k) == IsData(f) /\ f.m = m /\ f.k = k /\ f.n = Length(m)
IsCall(f, m, ss) == f.kind = "seq" /\ f.num = ss /\ f.len = Length(m)

(* Packet m is announced and sent; k of its pieces have been read.          *)
Announced(c, m, ss) ==
  \E n \in Nat : /\ Span(c, n, 1 + Length(m)) /\ IsCall(c[n + 1], m, ss)
                 /\ \A q \in 1 .. Length(m) : IsPiece(c[n + 1 + q], m, q)
Underway(c, m, k) ==
  \E n \in Nat : /\ Span(c, n, Length(m) - k)
                 /\ \A q \in 1 .. Length(m) - k : IsPiece(c[n + q], m, k + q)

LEMMA LengthIs == \A m : Length(m) = 1 \/ Length(m) = 2
BY DEF Length

(* What is left of a span when the first frame of the channel is read.      *)
LEMMA SpanTail ==
  ASSUME NEW c \in Seq(Frame), c # <<>>, NEW n \in Nat, NEW k \in Nat, k > 0, Span(c, n, k)
  PROVE  /\ IsAck(Head(c)) => n >= 1 /\ Span(Tail(c), n - 1, k)
         /\ ~ IsAck(Head(c)) => n = 0 /\ Span(Tail(c), 0, k - 1)
         /\ Head(c) = c[1]
         /\ \A a \in Nat : a >= 1 /\ a < n + k => Tail(c)[a] = c[a + 1]
<1> DEFINE t == Tail(c)
<1>1. /\ Head(c) = c[1] /\ 1 \in 1 .. Len(c) /\ Len(c) \in Nat /\ Len(t) = Len(c) - 1
      /\ \A a \in 1 .. Len(t) : a + 1 \in 1 .. Len(c) /\ a \in Nat /\ t[a] = c[a + 1]
  BY TailFrames
<1>2. /\ n + k <= Len(c)
      /\ \A a \in 1 .. Len(c) : IsAck(c[a]) <=> (a <= n \/ a > n + k)
  BY DEF Span
<1> HIDE DEF t
<1> DEFINE N == Len(c)
           T == Len(t)
<1>3. N \in Nat /\ T = N - 1 /\ n + k <= N /\ 1 \in 1 .. N
  BY <1>1, <1>2
<1>4. \A a \in 1 .. T : IsAck(t[a]) <=> (a + 1 <= n \/ a + 1 > n + k)
  BY <1>1, <1>2
<1> HIDE DEF N, T
<1>5. IsAck(c[1]) => n >= 1
  <2>1. 1 <= n \/ 1 > n + k \/ ~ IsAck(c[1])
    BY <1>2, <1>3 DEF N
  <2> QED BY <2>1
<1>6. ~ IsAck(c[1]) => n = 0
  <2>1. ~ (1 <= n) \/ IsAck(c[1])
    BY <1>2, <1>3 DEF N
  <2> QED BY <2>1
<1>7. ASSUME n >= 1 PROVE Span(t, n - 1, k)
  <2>1. (n - 1) + k <= T
    BY <1>3
  <2>2. \A a \in 1 .. T : (a + 1 <= n \/ a + 1 > n + k) <=> (a <= n - 1 \/ a > (n - 1) + k)
    BY <1>3
  <2> QED BY <1>4, <2>1, <2>2 DEF Span, T
<1>8. ASSUME n = 0 PROVE Span(t, 0, k - 1)
  <2>1. 0 + (k - 1) <= T
    BY <1>3, <1>8
  <2>2. \A a \in 1 .. T : (a + 1 <= n \/ a + 1 > n + k) <=> (a <= 0 \/ a > 0 + (k - 1))
    BY <1>3, <1>8
  <2> QED BY <1>4, <2>1, <2>2 DEF Span, T
<1>9. \A a \in Nat : a >= 1 /\ a < n + k => t[a] = c[a + 1]
  <2>1. \A a \in Nat : a >= 1 /\ a < n + k => a \in 1 .. T
    BY <1>3
  <2> QED BY <1>1, <2>1 DEF T
<1> QED BY <1>1, <1>5, <1>6, <1>7, <1>8, <1>9 DEF t

LEMMA SpanAppend ==
  ASSUME NEW c \in Seq(Frame), NEW n \in Nat, NEW k \in Nat, Span(c, n, k),
         NEW f \in Frame, IsAck(f)
  PROVE  /\ Span(Append(c, f), n, k)
         /\ \A a \in 1 .. n + k : Append(c, f)[a] = c[a]
<1> DEFINE e == Append(c, f)
<1>1. /\ Len(e) = Len(c) + 1 /\ Len(c) \in Nat /\ \A a \in 1 .. Len(c) : e[a] = c[a]
      /\ e[Len(c) + 1] = f
  BY AppendProperties, LenProperties
<1>2. /\ n + k <= Len(c)
      /\ \A a \in 1 .. Len(c) : IsAck(c[a]) <=> (a <= n \/ a > n + k)
  BY DEF Span
<1> HIDE DEF e
<1>3. \A a \in 1 .. Len(e) : a \in 1 .. Len(c) \/ a = Len(c) + 1
  BY <1>1
<1>4. Len(c) + 1 > n + k /\ n + k <= Len(e)
  BY <1>1, <1>2
<1>5. \A a \in 1 .. n + k : a \in 1 .. Len(c)
  BY <1>1, <1>2
<1>6. Span(e, n, k)
  BY <1>1, <1>2, <1>3, <1>4 DEF Span
<1> QED BY <1>1, <1>5, <1>6 DEF e

(* Acknowledgements of a channel, when other frames are read or sent.       *)
LEMMA AcksOfTail ==
  ASSUME NEW c \in Seq(Frame), c # <<>>
  PROVE  /\ ~ IsAck(Head(c)) => SameAcks(c, Tail(c))
         /\ IsAck(Head(c)) /\ OneAck(c) => NoAck(Tail(c))
         /\ OnlyAcks(c) => OnlyAcks(Tail(c)) /\ IsAck(Head(c))
         /\ NoAck(c) => ~ IsAck(Head(c))
<1> DEFINE t == Tail(c)
<1>1. /\ Head(c) = c[1] /\ 1 \in 1 .. Len(c) /\ Len(c) \in Nat /\ Len(t) = Len(c) - 1
      /\ \A a \in 1 .. Len(t) : a + 1 \in 1 .. Len(c) /\ a \in Nat /\ t[a] = c[a + 1]
  BY TailFrames
<1> HIDE DEF t
<1>2. NoAck(c) => NoAck(t)
  BY <1>1 DEF NoAck
<1>3. ASSUME ~ IsAck(c[1]), OneAck(c) PROVE OneAck(t)
  <2>1. PICK a \in 1 .. Len(c) : IsAck(c[a]) /\ \A b \in 1 .. Len(c) : IsAck(c[b]) => b = a
    BY <1>3 DEF OneAck
  <2>2. a # 1
    BY <1>3, <2>1
  <2>3. a - 1 \in 1 .. Len(t) /\ (a - 1) + 1 = a
    BY <1>1, <2>2
  <2>4. t[a - 1] = c[a]
    BY <1>1, <2>3
  <2>5. \A b \in 1 .. Len(t) : IsAck(t[b]) => b + 1 = a
    BY <1>1, <2>1
  <2>6. \A b \in 1 .. Len(t) : b + 1 = a => b = a - 1
    BY <1>1
  <2> QED BY <2>1, <2>3, <2>4, <2>5, <2>6 DEF OneAck
<1>4. ASSUME IsAck(c[1]), OneAck(c) PROVE NoAck(t)
  <2>1. PICK a \in 1 .. Len(c) : IsAck(c[a]) /\ \A b \in 1 .. Len(c) : IsAck(c[b]) => b = a
    BY <1>4 DEF OneAck
  <2>2. a = 1
    BY <1>1, <1>4, <2>1
  <2>3. \A b \in 1 .. Len(t) : b + 1 # 1
    BY <1>1
  <2> QED BY <1>1, <2>1, <2>2, <2>3 DEF NoAck
<1>5. OnlyAcks(c) => OnlyAcks(t)
  BY <1>1 DEF OnlyAcks
<1> QED BY <1>1, <1>2, <1>3, <1>4, <1>5 DEF t, SameAcks, OnlyAcks, NoAck

LEMMA AcksOfJoin ==
  ASSUME NEW c \in Seq(Frame), NEW d \in Seq(Frame), NoAck(d)
  PROVE  SameAcks(c, c \o d)
<1> DEFINE e == c \o d
<1>1. /\ Len(c) \in Nat /\ Len(d) \in Nat /\ Len(e) = Len(c) + Len(d)
      /\ \A a \in 1 .. Len(c) : e[a] = c[a]
      /\ \A a \in 1 .. Len(d) : e[Len(c) + a] = d[a]
      /\ \A a \in 1 .. Len(e) :
           a \in 1 .. Len(c) \/ (a - Len(c) \in 1 .. Len(d) /\ a = Len(c) + (a - Len(c)))
  BY JoinedFrames
<1> HIDE DEF e
<1>2. \A a \in 1 .. Len(e) : IsAck(e[a]) => a \in 1 .. Len(c) /\ IsAck(c[a])
  BY <1>1 DEF NoAck
<1>3. \A a \in 1 .. Len(c) : a \in 1 .. Len(e)
  BY <1>1
<1>4. NoAck(c) => NoAck(e)
  BY <1>2 DEF NoAck
<1>5. OneAck(c) => OneAck(e)
  BY <1>1, <1>2, <1>3 DEF OneAck
<1> QED BY <1>4, <1>5 DEF SameAcks, e

LEMMA AcksOfAppend ==
  ASSUME NEW c \in Seq(Frame), NEW f \in Frame, IsAck(f)
  PROVE  /\ NoAck(c) => OneAck(Append(c, f))
         /\ OnlyAcks(c) => OnlyAcks(Append(c, f))
<1> DEFINE e == Append(c, f)
<1>1. /\ Len(e) = Len(c) + 1 /\ Len(c) \in Nat /\ \A a \in 1 .. Len(c) : e[a] = c[a]
      /\ e[Len(c) + 1] = f
  BY AppendProperties, LenProperties
<1> HIDE DEF e
<1>2. \A a \in 1 .. Len(e) : a \in 1 .. Len(c) \/ a = Len(c) + 1
  BY <1>1
<1>3. Len(c) + 1 \in 1 .. Len(e)
  BY <1>1
<1>4. NoAck(c) => OneAck(e)
  BY <1>1, <1>2, <1>3 DEF NoAck, OneAck
<1>5. OnlyAcks(c) => OnlyAcks(e)
  BY <1>1, <1>2 DEF OnlyAcks
<1> QED BY <1>4, <1>5 DEF e

(* A link with flow control when nothing was lost or late and no packet     *)
(* was announced before the one before it was acknowledged.  c and r are    *)
(* the channels of the link and of the other direction, over the packets    *)
(* sent, shown those that the far end has given to its clients.             *)
Idle(c, r, h, aw, dup, ex, ss, rs) ==
  ~ aw /\ OnlyAcks(c) /\ NoAck(r) /\ h = None /\ ~ dup /\ ex /\ rs = ss
Called(c, r, h, aw, dup, ex, ss, rs, m) ==
  aw /\ Announced(c, m, ss) /\ NoAck(r) /\ h = None /\ ~ dup /\ ex /\ rs = ss
Reading(c, r, h, aw, dup, ex, len, ss, rs, m, k) ==
  /\ aw /\ Underway(c, m, k) /\ NoAck(r) /\ k < Length(m)
  /\ h = (IF k = 0 THEN None ELSE m) /\ ~ dup /\ ~ ex /\ len = Length(m) /\ rs = ss
Answered(c, r, h, aw, dup, ex, ss, rs) ==
  aw /\ OnlyAcks(c) /\ OneAck(r) /\ h = None /\ ~ dup /\ ex /\ rs = Next1(ss)

FlowLink(c, r, h, aw, dup, ex, len, ss, rs, over, shown) ==
  \/ Idle(c, r, h, aw, dup, ex, ss, rs) /\ over \subseteq shown
  \/ \E m \in Message :
       /\ over \subseteq shown \cup {m.head}
       /\ \/ Called(c, r, h, aw, dup, ex, ss, rs, m)
          \/ \E k \in 0 .. 1 : Reading(c, r, h, aw, dup, ex, len, ss, rs, m, k)
  \/ Answered(c, r, h, aw, dup, ex, ss, rs) /\ over \subseteq shown

(* The other direction, and what the far end has shown besides.             *)
LEMMA FlowAside ==
  ASSUME NEW c, NEW r, NEW h, NEW aw, NEW dup, NEW ex, NEW len, NEW ss, NEW rs, NEW over, NEW shown,
         FlowLink(c, r, h, aw, dup, ex, len, ss, rs, over, shown),
         NEW r2, SameAcks(r, r2), NEW shown2, shown \subseteq shown2
  PROVE  FlowLink(c, r2, h, aw, dup, ex, len, ss, rs, over, shown2)
<1>1. ASSUME Idle(c, r, h, aw, dup, ex, ss, rs), over \subseteq shown
      PROVE  Idle(c, r2, h, aw, dup, ex, ss, rs) /\ over \subseteq shown2
  BY <1>1 DEF Idle, SameAcks
<1>2. ASSUME NEW m \in Message, over \subseteq shown \cup {m.head},
             Called(c, r, h, aw, dup, ex, ss, rs, m)
      PROVE  over \subseteq shown2 \cup {m.head} /\ Called(c, r2, h, aw, dup, ex, ss, rs, m)
  BY <1>2 DEF Called, SameAcks
<1>3. ASSUME NEW m \in Message, over \subseteq shown \cup {m.head},
             NEW k \in 0 .. 1, Reading(c, r, h, aw, dup, ex, len, ss, rs, m, k)
      PROVE  over \subseteq shown2 \cup {m.head} /\ Reading(c, r2, h, aw, dup, ex, len, ss, rs, m, k)
  BY <1>3 DEF Reading, SameAcks
<1>4. ASSUME Answered(c, r, h, aw, dup, ex, ss, rs), over \subseteq shown
      PROVE  Answered(c, r2, h, aw, dup, ex, ss, rs) /\ over \subseteq shown2
  BY <1>4 DEF Answered, SameAcks
<1> QED BY <1>1, <1>2, <1>3, <1>4 DEF FlowLink

(* An acknowledgement of the other direction is read or sent on the link.   *)
LEMMA FlowAckRead ==
  ASSUME NEW c \in Seq(Frame), c # <<>>, IsAck(Head(c)),
         NEW r, NEW h, NEW aw, NEW dup, NEW ex, NEW len, NEW ss, NEW rs, NEW over, NEW shown,
         FlowLink(c, r, h, aw, dup, ex, len, ss, rs, over, shown)
  PROVE  FlowLink(Tail(c), r, h, aw, dup, ex, len, ss, rs, over, shown)
<1>1. ASSUME Idle(c, r, h, aw, dup, ex, ss, rs)
      PROVE  Idle(Tail(c), r, h, aw, dup, ex, ss, rs)
  BY <1>1, AcksOfTail DEF Idle
<1>2. ASSUME Answered(c, r, h, aw, dup, ex, ss, rs)
      PROVE  Answered(Tail(c), r, h, aw, dup, ex, ss, rs)
  BY <1>2, AcksOfTail DEF Answered
<1>3. ASSUME NEW m \in Message, Announced(c, m, ss) PROVE Announced(Tail(c), m, ss)
  <2>1. PICK n \in Nat : /\ Span(c, n, 1 + Length(m)) /\ IsCall(c[n + 1], m, ss)
                         /\ \A q \in 1 .. Length(m) : IsPiece(c[n + 1 + q], m, q)
    BY <1>3 DEF Announced
  <2>2. 1 + Length(m) \in Nat /\ 1 + Length(m) > 0 /\ Length(m) \in Nat
    BY LengthIs
  <2>3. /\ n >= 1 /\ Span(Tail(c), n - 1, 1 + Length(m))
        /\ \A a \in Nat : a >= 1 /\ a < n + (1 + Length(m)) => Tail(c)[a] = c[a + 1]
    BY <2>1, <2>2, SpanTail
  <2>4. n - 1 \in Nat /\ (n - 1) + 1 = n /\ n < n + (1 + Length(m))
    BY <2>2, <2>3
  <2>5. Tail(c)[n] = c[n + 1]
    BY <2>3, <2>4
  <2>6. ASSUME NEW q \in 1 .. Length(m)
        PROVE  Tail(c)[(n - 1) + 1 + q] = c[n + 1 + q]
    <3>1. /\ n + q \in Nat /\ n + q >= 1 /\ n + q < n + (1 + Length(m))
          /\ (n - 1) + 1 + q = n + q /\ (n + q) + 1 = n + 1 + q
      BY <2>2
    <3>2. Tail(c)[n + q] = c[(n + q) + 1]
      BY <2>3, <3>1
    <3> QED BY <3>1, <3>2
  <2> QED BY <2>1, <2>3, <2>4, <2>5, <2>6 DEF Announced
<1>4. ASSUME NEW m \in Message, NEW k \in 0 .. 1, k < Length(m), Underway(c, m, k)
      PROVE  Underway(Tail(c), m, k)
  <2>1. PICK n \in Nat : /\ Span(c, n, Length(m) - k)
                         /\ \A q \in 1 .. Length(m) - k : IsPiece(c[n + q], m, k + q)
    BY <1>4 DEF Underway
  <2> DEFINE j == Length(m) - k
  <2>2. j \in Nat /\ j > 0
    BY <1>4, LengthIs
  <2> HIDE DEF j
  <2>3. /\ n >= 1 /\ Span(Tail(c), n - 1, j)
        /\ \A a \in Nat : a >= 1 /\ a < n + j => Tail(c)[a] = c[a + 1]
    BY <2>1, <2>2, SpanTail DEF j
  <2>4. n - 1 \in Nat
    BY <2>3
  <2>5. ASSUME NEW q \in 1 .. j
        PROVE  Tail(c)[(n - 1) + q] = c[n + q]
    <3>1. /\ (n - 1) + q \in Nat /\ (n - 1) + q >= 1 /\ (n - 1) + q < n + j
          /\ ((n - 1) + q) + 1 = n + q
      BY <2>2, <2>3
    <3> QED BY <2>3, <3>1
  <2> QED BY <2>1, <2>3, <2>4, <2>5 DEF Underway, j
<1>5. ASSUME NEW m, Called(c, r, h, aw, dup, ex, ss, rs, m), m \in Message
      PROVE  Called(Tail(c), r, h, aw, dup, ex, ss, rs, m)
  BY <1>3, <1>5 DEF Called
<1>6. ASSUME NEW m, m \in Message, NEW k \in 0 .. 1,
             Reading(c, r, h, aw, dup, ex, len, ss, rs, m, k)
      PROVE  Reading(Tail(c), r, h, aw, dup, ex, len, ss, rs, m, k)
  BY <1>4, <1>6 DEF Reading
<1> QED BY <1>1, <1>2, <1>5, <1>6 DEF FlowLink

LEMMA FlowAckSent ==
  ASSUME NEW c \in Seq(Frame), NEW f \in Frame, IsAck(f),
         NEW r, NEW h, NEW aw, NEW dup, NEW ex, NEW len, NEW ss, NEW rs, NEW over, NEW shown,
         FlowLink(c, r, h, aw, dup, ex, len, ss, rs, over, shown)
  PROVE  FlowLink(Append(c, f), r, h, aw, dup, ex, len, ss, rs, over, shown)
<1> DEFINE e == Append(c, f)
<1>1. OnlyAcks(c) => OnlyAcks(e)
  BY AcksOfAppend
<1>2. ASSUME NEW m \in Message, Announced(c, m, ss) PROVE Announced(e, m, ss)
  <2>1. PICK n \in Nat : /\ Span(c, n, 1 + Length(m)) /\ IsCall(c[n + 1], m, ss)
                         /\ \A q \in 1 .. Length(m) : IsPiece(c[n + 1 + q], m, q)
    BY <1>2 DEF Announced
  <2>2. 1 + Length(m) \in Nat /\ Length(m) \in Nat
    BY LengthIs
  <2>3. Span(e, n, 1 + Length(m)) /\ \A a \in 1 .. n + (1 + Length(m)) : e[a] = c[a]
    BY <2>1, <2>2, SpanAppend
  <2> HIDE DEF e
  <2>4. n + 1 \in 1 .. n + (1 + Length(m))
        /\ \A q \in 1 .. Length(m) : n + 1 + q \in 1 .. n + (1 + Length(m))
    BY <2>2
  <2> QED BY <2>1, <2>3, <2>4 DEF Announced
<1>3. ASSUME NEW m \in Message, NEW k \in 0 .. 1, k < Length(m), Underway(c, m, k)
      PROVE  Underway(e, m, k)
  <2>1. PICK n \in Nat : /\ Span(c, n, Length(m) - k)
                         /\ \A q \in 1 .. Length(m) - k : IsPiece(c[n + q], m, k + q)
    BY <1>3 DEF Underway
  <2> DEFINE j == Length(m) - k
  <2>2. j \in Nat
    BY <1>3, LengthIs
  <2> HIDE DEF j
  <2>3. Span(e, n, j) /\ \A a \in 1 .. n + j : e[a] = c[a]
    BY <2>1, <2>2, SpanAppend DEF j
  <2> HIDE DEF e
  <2>4. \A q \in 1 .. j : n + q \in 1 .. n + j
    BY <2>2
  <2> QED BY <2>1, <2>3, <2>4 DEF Underway, j
<1> HIDE DEF e
<1>4. ASSUME NEW m \in Message, Called(c, r, h, aw, dup, ex, ss, rs, m)
      PROVE  Called(e, r, h, aw, dup, ex, ss, rs, m)
  BY <1>2, <1>4 DEF Called
<1>5. ASSUME NEW m \in Message, NEW k \in 0 .. 1,
             Reading(c, r, h, aw, dup, ex, len, ss, rs, m, k)
      PROVE  Reading(e, r, h, aw, dup, ex, len, ss, rs, m, k)
  BY <1>3, <1>5 DEF Reading
<1>6. FlowLink(e, r, h, aw, dup, ex, len, ss, rs, over, shown)
  BY <1>1, <1>4, <1>5 DEF FlowLink, Idle, Answered
<1> QED BY <1>6 DEF e

(* The acknowledgement of the packet is read.                               *)
LEMMA FlowAcked ==
  ASSUME NEW r \in Seq(Frame), r # <<>>, IsAck(Head(r)),
         NEW c, NEW h, NEW aw, NEW dup, NEW ex, NEW len, NEW ss, NEW rs, NEW over, NEW shown,
         FlowLink(c, r, h, aw, dup, ex, len, ss, rs, over, shown)
  PROVE  aw /\ FlowLink(c, Tail(r), h, FALSE, dup, ex, len, Next1(ss), rs, over, shown)
<1>1. ~ NoAck(r)
  BY AcksOfTail
<1>2. Answered(c, r, h, aw, dup, ex, ss, rs) /\ over \subseteq shown
  BY <1>1 DEF FlowLink, Idle, Called, Reading
<1>3. NoAck(Tail(r))
  BY <1>2, AcksOfTail DEF Answered
<1> QED BY <1>2, <1>3 DEF FlowLink, Idle, Answered

(* A packet is announced and sent on a link that awaits nothing.            *)
LEMMA FlowSend ==
  ASSUME TypeOK, flow, NEW l \in Links, NEW m \in Message, NEW c \in Seq(Frame),
         NEW r, NEW h, NEW dup, NEW ex, NEW len, NEW rs, NEW over, NEW shown,
         FlowLink(c, r, h, FALSE, dup, ex, len, sendSequence[l], rs, over, shown),
         NEW more, more \subseteq over \cup {m.head}
  PROVE  FlowLink(c \o SendSeq(l, m) \o SendMessage(sendData[l], m), r, h, TRUE, dup, ex, len,
                  sendSequence[l], rs, more, shown)
<1> DEFINE ss == sendSequence[l]
           s == SendSeq(l, m)
           d == SendMessage(sendData[l], m)
           b == s \o d
           e == c \o b
           n == Len(c)
<1>1. Idle(c, r, h, FALSE, dup, ex, ss, rs) /\ over \subseteq shown
  BY DEF FlowLink, Called, Reading, Answered
<1>2. s \in Seq(Frame) /\ d \in Seq(Frame)
  BY SentFrames
<1>3. /\ Len(s) = 1 /\ IsCall(s[1], m, ss) /\ ~ IsAck(s[1])
      /\ Len(d) = Length(m) /\ \A q \in 1 .. Length(m) : IsPiece(d[q], m, q) /\ ~ IsAck(d[q])
  <2>1. s = <<[kind |-> "seq", num |-> ss, len |-> Length(m)]>>
    BY DEF SendSeq
  <2>2. CASE IsLong(m)
    BY <2>1, <2>2 DEF SendMessage, Length, IsPiece, IsCall, IsAck, IsData
  <2>3. CASE ~ IsLong(m)
    BY <2>1, <2>3 DEF SendMessage, Length, IsPiece, IsCall, IsAck, IsData
  <2> QED BY <2>2, <2>3
<1>4. (c \o s) \o d = e
  <2> HIDE DEF s, d
  <2> QED BY <1>2, JoinIsAssociative
<1> DEFINE j == Length(m)
<1>5. j \in Nat /\ n \in Nat
  BY LengthIs, LenProperties
<1> HIDE DEF s, d, j
<1>6. /\ b \in Seq(Frame) /\ Len(b) = 1 + j /\ b[1] = s[1]
      /\ \A q \in 1 .. j : b[1 + q] = d[q]
  <2>1. /\ b \in Seq(Frame) /\ Len(b) = Len(s) + Len(d)
        /\ \A q \in 1 .. Len(s) : b[q] = s[q]
        /\ \A q \in 1 .. Len(d) : b[Len(s) + q] = d[q]
    <3>1. b \in Seq(Frame)
      BY <1>2, ConcatProperties
    <3> QED BY <1>2, <3>1, JoinedFrames
  <2>2. Len(s) = 1 /\ Len(d) = j
    BY <1>3 DEF j
  <2> HIDE DEF b
  <2>3. Len(b) = 1 + j /\ \A q \in 1 .. j : b[1 + q] = d[q]
    BY <2>1, <2>2
  <2>4. b[1] = s[1]
    <3>1. 1 \in 1 .. Len(s)
      BY <2>2
    <3> QED BY <2>1, <3>1
  <2> QED BY <2>1, <2>3, <2>4
<1> HIDE DEF b
<1>7. /\ Len(e) = n + (1 + j)
      /\ \A a \in 1 .. n : e[a] = c[a]
      /\ \A a \in 1 .. 1 + j : e[n + a] = b[a]
      /\ \A a \in 1 .. Len(e) : a \in 1 .. n \/ (a - n \in 1 .. 1 + j /\ a = n + (a - n))
  <2>1. /\ Len(e) = n + Len(b)
        /\ \A a \in 1 .. n : e[a] = c[a]
        /\ \A a \in 1 .. Len(b) : e[n + a] = b[a]
        /\ \A a \in 1 .. Len(e) : a \in 1 .. n \/ (a - n \in 1 .. Len(b) /\ a = n + (a - n))
    BY <1>6, JoinedFrames
  <2> HIDE DEF e, n
  <2> QED BY <1>6, <2>1
<1> HIDE DEF e, n
<1>8. \A a \in 1 .. 1 + j : ~ IsAck(b[a])
  <2>1. \A a \in 1 .. 1 + j : a = 1 \/ (a - 1 \in 1 .. j /\ a = 1 + (a - 1))
    BY <1>5
  <2> QED BY <1>3, <1>6, <2>1 DEF j
<1>9. Span(e, n, 1 + j)
  <2> SUFFICES ASSUME NEW a \in 1 .. Len(e)
               PROVE  IsAck(e[a]) <=> (a <= n \/ a > n + (1 + j))
    BY <1>5, <1>7 DEF Span
  <2>1. CASE a \in 1 .. n
    <3>1. IsAck(e[a])
      BY <1>1, <1>7, <2>1 DEF Idle, OnlyAcks, n
    <3> QED BY <2>1, <3>1
  <2>2. CASE a - n \in 1 .. 1 + j /\ a = n + (a - n)
    <3>1. ~ IsAck(e[a])
      BY <1>7, <1>8, <2>2
    <3>2. ~ (a <= n) /\ ~ (a > n + (1 + j))
      BY <1>5, <2>2
    <3> QED BY <3>1, <3>2
  <2> QED BY <1>7, <2>1, <2>2
<1>10. e[n + 1] = s[1] /\ \A q \in 1 .. j : e[n + 1 + q] = d[q]
  <2>1. 1 \in 1 .. 1 + j /\ \A q \in 1 .. j : 1 + q \in 1 .. 1 + j /\ n + 1 + q = n + (1 + q)
    BY <1>5
  <2> QED BY <1>6, <1>7, <2>1
<1>11. Announced(e, m, ss)
  BY <1>3, <1>5, <1>9, <1>10 DEF Announced, j
<1>12. Called(e, r, h, TRUE, dup, ex, ss, rs, m)
  BY <1>1, <1>11 DEF Called, Idle
<1>13. FlowLink(e, r, h, TRUE, dup, ex, len, ss, rs, more, shown)
  <2>1. more \subseteq shown \cup {m.head}
    BY <1>1
  <2> QED BY <1>12, <2>1 DEF FlowLink
<1> QED BY <1>4, <1>13 DEF s, d

(* The announcement is read.                                                *)
LEMMA FlowCall ==
  ASSUME NEW c \in Seq(Frame), c # <<>>, Head(c).kind = "seq",
         NEW r, NEW h, NEW aw, NEW dup, NEW ex, NEW len, NEW ss, NEW rs, NEW over, NEW shown,
         FlowLink(c, r, h, aw, dup, ex, len, ss, rs, over, shown)
  PROVE  /\ ex /\ ~ dup /\ rs = Head(c).num
         /\ FlowLink(Tail(c), r, h, aw, dup, FALSE, Head(c).len, ss, rs, over, shown)
<1>1. ~ IsAck(Head(c)) /\ ~ IsData(Head(c)) /\ ~ OnlyAcks(c)
  BY AcksOfTail DEF IsAck, IsData
<1>2. PICK m \in Message :
        /\ over \subseteq shown \cup {m.head}
        /\ \/ Called(c, r, h, aw, dup, ex, ss, rs, m)
           \/ \E k \in 0 .. 1 : Reading(c, r, h, aw, dup, ex, len, ss, rs, m, k)
  BY <1>1 DEF FlowLink, Idle, Answered
<1>3. ASSUME NEW k \in 0 .. 1, Reading(c, r, h, aw, dup, ex, len, ss, rs, m, k) PROVE FALSE
  <2>1. Underway(c, m, k) /\ k < Length(m)
    BY <1>3 DEF Reading
  <2>2. PICK n \in Nat : /\ Span(c, n, Length(m) - k)
                         /\ \A q \in 1 .. Length(m) - k : IsPiece(c[n + q], m, k + q)
    BY <2>1 DEF Underway
  <2>3. Length(m) - k \in Nat /\ Length(m) - k > 0 /\ 1 \in 1 .. Length(m) - k
    BY <2>1, LengthIs
  <2>4. n = 0 /\ Head(c) = c[1]
    BY <1>1, <2>2, <2>3, SpanTail
  <2>5. IsPiece(c[0 + 1], m, k + 1)
    BY <2>2, <2>3, <2>4
  <2> QED BY <1>1, <2>4, <2>5 DEF IsPiece
<1>4. Called(c, r, h, aw, dup, ex, ss, rs, m)
  BY <1>2, <1>3
<1>5. PICK n \in Nat : /\ Span(c, n, 1 + Length(m)) /\ IsCall(c[n + 1], m, ss)
                       /\ \A q \in 1 .. Length(m) : IsPiece(c[n + 1 + q], m, q)
  BY <1>4 DEF Called, Announced
<1> DEFINE j == Length(m)
<1>6. j \in Nat /\ j > 0 /\ 1 + j \in Nat /\ 1 + j > 0 /\ (1 + j) - 1 = j /\ j - 0 = j
  BY LengthIs
<1>7. /\ n = 0 /\ Head(c) = c[1] /\ Span(Tail(c), 0, (1 + j) - 1)
      /\ \A a \in Nat : a >= 1 /\ a < n + (1 + j) => Tail(c)[a] = c[a + 1]
  BY <1>1, <1>5, <1>6, SpanTail
<1>8. IsCall(Head(c), m, ss)
  BY <1>5, <1>7
<1>9. ASSUME NEW q \in 1 .. j PROVE IsPiece(Tail(c)[0 + q], m, 0 + q)
  <2>1. /\ q \in Nat /\ q >= 1 /\ q < n + (1 + j) /\ n + 1 + q = q + 1 /\ 0 + q = q
    BY <1>6, <1>7
  <2>2. Tail(c)[q] = c[q + 1]
    BY <1>7, <2>1
  <2>3. IsPiece(c[n + 1 + q], m, q)
    BY <1>5
  <2> QED BY <2>1, <2>2, <2>3
<1>10. Underway(Tail(c), m, 0)
  <2>1. Span(Tail(c), 0, Length(m) - 0)
    BY <1>6, <1>7
  <2>2. \A q \in 1 .. Length(m) - 0 : IsPiece(Tail(c)[0 + q], m, 0 + q)
    BY <1>6, <1>9
  <2> QED BY <2>1, <2>2 DEF Underway
<1>11. Reading(Tail(c), r, h, aw, dup, FALSE, Head(c).len, ss, rs, m, 0)
  BY <1>4, <1>6, <1>8, <1>10 DEF Reading, Called, IsCall
<1>12. FlowLink(Tail(c), r, h, aw, dup, FALSE, Head(c).len, ss, rs, over, shown)
  <2> DEFINE t  == Tail(c)
             n2 == Head(c).len
  <2>1. Reading(t, r, h, aw, dup, FALSE, n2, ss, rs, m, 0)
    BY <1>11
  <2> HIDE DEF t, n2
  <2>2. \E k \in 0 .. 1 : Reading(t, r, h, aw, dup, FALSE, n2, ss, rs, m, k)
    <3>1. 0 \in 0 .. 1
      OBVIOUS
    <3> QED BY <2>1, <3>1
  <2>3. FlowLink(t, r, h, aw, dup, FALSE, n2, ss, rs, over, shown)
    BY <1>2, <2>2 DEF FlowLink
  <2> QED BY <2>3 DEF t, n2
<1> QED BY <1>4, <1>8, <1>12 DEF Called, IsCall

(* A piece is read: either it is held, or the packet is complete, and is    *)
(* acknowledged.                                                            *)
PieceRead(c, r, r2, h, aw, dup, ex, len, ss, rs, over, shown) ==
  LET f == Head(c) IN
  /\ aw /\ ~ ex /\ ~ dup /\ NoAck(r)
  /\ \/ /\ Completed(h, f) = {}
        /\ FlowLink(Tail(c), r, HeldAfter(h, f), aw, dup, ex, len, ss, rs, over, shown)
     \/ \E m \in Message :
          /\ Completed(h, f) = {m} /\ len = Length(m)
          /\ OneAck(r2) => FlowLink(Tail(c), r2, HeldAfter(h, f), aw, FALSE, TRUE, len, ss,
                                    Next1(rs), over, shown \cup {m.head})

LEMMA FlowRead ==
  ASSUME NEW c \in Seq(Frame), c # <<>>, IsData(Head(c)),
         NEW r \in Seq(Frame), NEW h, NEW aw, NEW dup, NEW ex, NEW len, NEW ss, NEW rs,
         NEW over, NEW shown, FlowLink(c, r, h, aw, dup, ex, len, ss, rs, over, shown),
         NEW r2
  PROVE  PieceRead(c, r, r2, h, aw, dup, ex, len, ss, rs, over, shown)
<1> DEFINE f == Head(c)
<1>1. ~ IsAck(f) /\ ~ OnlyAcks(c) /\ f.kind # "seq"
  BY AcksOfTail DEF IsAck, IsData
<1>2. PICK m \in Message :
        /\ over \subseteq shown \cup {m.head}
        /\ \/ Called(c, r, h, aw, dup, ex, ss, rs, m)
           \/ \E k \in 0 .. 1 : Reading(c, r, h, aw, dup, ex, len, ss, rs, m, k)
  BY <1>1 DEF FlowLink, Idle, Answered
<1>3. ASSUME Called(c, r, h, aw, dup, ex, ss, rs, m) PROVE FALSE
  <2>1. PICK n \in Nat : Span(c, n, 1 + Length(m)) /\ IsCall(c[n + 1], m, ss)
    BY <1>3 DEF Called, Announced
  <2>2. 1 + Length(m) \in Nat /\ 1 + Length(m) > 0
    BY LengthIs
  <2>3. n = 0 /\ Head(c) = c[1]
    BY <1>1, <2>1, <2>2, SpanTail
  <2> QED BY <1>1, <2>1, <2>3 DEF IsCall
<1>4. PICK k \in 0 .. 1 : Reading(c, r, h, aw, dup, ex, len, ss, rs, m, k)
  BY <1>2, <1>3
<1>5. /\ Underway(c, m, k) /\ k < Length(m) /\ h = (IF k = 0 THEN None ELSE m)
      /\ aw /\ ~ ex /\ ~ dup /\ NoAck(r) /\ len = Length(m) /\ rs = ss
  BY <1>4 DEF Reading
<1>6. PICK n \in Nat : /\ Span(c, n, Length(m) - k)
                       /\ \A q \in 1 .. Length(m) - k : IsPiece(c[n + q], m, k + q)
  BY <1>5 DEF Underway
<1> DEFINE j == Length(m) - k
<1>7. j \in Nat /\ j > 0 /\ 1 \in 1 .. j /\ k \in {0, 1} /\ Length(m) \in {1, 2} /\ j = Length(m) - k
  BY <1>5, LengthIs
<1> HIDE DEF j
<1>8. /\ n = 0 /\ f = c[1] /\ Span(Tail(c), 0, j - 1)
      /\ \A a \in Nat : a >= 1 /\ a < n + j => Tail(c)[a] = c[a + 1]
  BY <1>1, <1>6, <1>7, SpanTail DEF j
<1>9. IsPiece(f, m, k + 1)
  <2>1. IsPiece(c[n + 1], m, k + 1)
    BY <1>6, <1>7 DEF j
  <2> QED BY <1>8, <2>1
<1>10. f.m = m /\ f.k = k + 1 /\ f.n = Length(m)
  BY <1>9 DEF IsPiece
<1>11. None # m /\ [head |-> m.head, tail |-> m.tail] = m
  BY NoneAssumption DEF Message
<1> HIDE DEF f
<1>12. CASE j = 1
  <2>1. Completed(h, f) = {m} /\ HeldAfter(h, f) = None
    <3>1. CASE k = 0
      <4>1. h = None /\ f.n = 1 /\ f.k = 1
        BY <1>5, <1>7, <1>10, <1>12, <3>1
      <4> QED BY <1>10, <4>1 DEF Completed, HeldAfter
    <3>2. CASE k = 1
      <4>1. h = m /\ f.n = 2 /\ f.k = 2 /\ h # None
        BY <1>5, <1>7, <1>10, <1>11, <1>12, <3>2
      <4> QED BY <1>10, <1>11, <4>1 DEF Completed, HeldAfter
    <3> QED BY <1>7, <3>1, <3>2
  <2>2. OnlyAcks(Tail(c))
    <3>1. Span(Tail(c), 0, 0)
      BY <1>8, <1>12
    <3>2. \A a \in 1 .. Len(Tail(c)) : a > 0 + 0
      OBVIOUS
    <3> QED BY <3>1, <3>2 DEF Span, OnlyAcks
  <2>3. ASSUME OneAck(r2)
        PROVE  FlowLink(Tail(c), r2, HeldAfter(h, f), aw, FALSE, TRUE, len, ss, Next1(rs),
                        over, shown \cup {m.head})
    BY <1>2, <1>5, <2>1, <2>2, <2>3 DEF FlowLink, Answered
  <2> QED BY <1>5, <2>1, <2>3 DEF f, PieceRead
<1>13. CASE j # 1
  <2>1. k = 0 /\ Length(m) = 2 /\ j = 2 /\ h = None
    BY <1>5, <1>7, <1>13
  <2>2. Completed(h, f) = {} /\ HeldAfter(h, f) = m
    BY <1>10, <2>1 DEF Completed, HeldAfter
  <2>3. Underway(Tail(c), m, 1)
    <3>1. Length(m) - 1 = 1 /\ 0 \in Nat
      BY <2>1
    <3>2. Span(Tail(c), 0, 1)
      BY <1>8, <2>1
    <3>3. IsPiece(c[2], m, 2)
      <4>1. 2 \in 1 .. Length(m) - k /\ n + 2 = 2 /\ k + 2 = 2
        BY <1>8, <2>1
      <4> QED BY <1>6, <4>1
    <3>4. Tail(c)[1] = c[2]
      <4>1. 1 \in Nat /\ 1 >= 1 /\ 1 < n + j /\ 1 + 1 = 2
        BY <1>8, <2>1
      <4> QED BY <1>8, <4>1
    <3>5. \A q \in 1 .. 1 : q = 1 /\ 0 + q = 1 /\ 1 + q = 2
      OBVIOUS
    <3> QED BY <3>1, <3>2, <3>3, <3>4, <3>5 DEF Underway
  <2>4. Reading(Tail(c), r, HeldAfter(h, f), aw, dup, ex, len, ss, rs, m, 1)
    BY <1>5, <2>1, <2>2, <2>3 DEF Reading
  <2>5. FlowLink(Tail(c), r, HeldAfter(h, f), aw, dup, ex, len, ss, rs, over, shown)
    BY <1>2, <2>4 DEF FlowLink
  <2> QED BY <1>5, <2>2, <2>5 DEF f, PieceRead
<1> QED BY <1>12, <1>13

(* A link without flow control that has lost nothing.                       *)
PlainLink(c, h, aw, over, shown) ==
  /\ ~ aw /\ (LastAtHead(c) => h # None)
  /\ over \subseteq Begun(c, h) \cup shown

LEMMA BegunTail ==
  ASSUME NEW c \in Seq(Frame), c # <<>>, NEW h
  PROVE  Begun(c, h) = Begun(Tail(c), h) \cup (IF IsData(Head(c)) THEN {Head(c).m.head} ELSE {})
                         \/ (IsData(Head(c)) /\ Head(c).m.head \notin Packet)
<1> DEFINE t == Tail(c)
<1>1. /\ Head(c) = c[1] /\ 1 \in 1 .. Len(c) /\ Len(c) \in Nat /\ Len(t) = Len(c) - 1
      /\ \A a \in 1 .. Len(t) : a + 1 \in 1 .. Len(c) /\ a \in Nat /\ t[a] = c[a + 1]
  BY TailFrames
<1> HIDE DEF t
<1>2. \A a \in 1 .. Len(c) : a = 1 \/ (a - 1 \in 1 .. Len(t) /\ (a - 1) + 1 = a)
  BY <1>1
<1>3. \A a \in 1 .. Len(c) : a = 1 \/ (a - 1 \in 1 .. Len(t) /\ t[a - 1] = c[a])
  BY <1>1, <1>2
<1>4. Begun(t, h) \subseteq Begun(c, h)
  BY <1>1 DEF Begun
<1>5. ASSUME NEW p \in Begun(c, h) PROVE p \in Begun(t, h) \/ (IsData(c[1]) /\ c[1].m.head = p)
  BY <1>3 DEF Begun
<1>6. IsData(c[1]) /\ c[1].m.head \in Packet => c[1].m.head \in Begun(c, h)
  BY <1>1 DEF Begun
<1>7. CASE IsData(c[1])
  BY <1>1, <1>4, <1>5, <1>6, <1>7 DEF t
<1>8. CASE ~ IsData(c[1])
  BY <1>1, <1>4, <1>5, <1>8 DEF t
<1> QED BY <1>7, <1>8

LEMMA PlainOther ==
  ASSUME NEW c \in Seq(Frame), c # <<>>, ~ IsData(Head(c)), Wire(c),
         NEW h, NEW aw, NEW over, NEW shown, PlainLink(c, h, aw, over, shown)
  PROVE  PlainLink(Tail(c), h, aw, over, shown)
<1>1. Begun(c, h) = Begun(Tail(c), h)
  BY BegunTail
<1>2. ~ LastAtHead(Tail(c))
  BY HeadOfTail
<1> QED BY <1>1, <1>2 DEF PlainLink

LEMMA PlainRead ==
  ASSUME NEW c \in Seq(Frame), c # <<>>, IsData(Head(c)),
         NEW h \in Message \cup {None}, Sound(c, h, 0),
         NEW aw, NEW over, NEW shown, PlainLink(c, h, aw, over, shown)
  PROVE  LET f == Head(c) IN
         \/ /\ Completed(h, f) = {}
            /\ PlainLink(Tail(c), HeldAfter(h, f), aw, over, shown)
         \/ \E m \in Message :
              /\ Completed(h, f) = {m}
              /\ PlainLink(Tail(c), HeldAfter(h, f), aw, over, shown \cup {m.head})
<1> DEFINE f == Head(c)
           t == Tail(c)
<1>1. /\ f \in Frame /\ f = c[1] /\ 1 \in 1 .. Len(c)
  BY TailFrames
<1>2. f.m \in Message /\ f.k \in 1 .. 2 /\ f.n \in 1 .. 2
  BY <1>1 DEF Frame, IsData
<1>3. Wire(c) /\ (h # None => LastAtHead(c) /\ Head(c).m = h)
  BY DEF Sound, Waiting
<1>4. f.k = 2 => f.n = 2
  BY <1>1, <1>3 DEF Wire, FirstOk
<1>5. LastAtHead(t) => f.k = 1 /\ f.n = 2
  BY <1>3, HeadOfTail
<1>6. f.k = 2 => h # None
  BY DEF PlainLink, LastAtHead
<1>7. h # None => f.k = 2 /\ f.m = h
  BY <1>3 DEF LastAtHead
<1>8. over \subseteq Begun(c, h) \cup shown /\ ~ aw
  BY DEF PlainLink
<1>9. f.m.head \in Packet /\ f.m # None
  BY <1>2, NoneAssumption DEF Message
<1>10. Begun(c, h) = Begun(t, h) \cup {f.m.head}
  BY <1>9, BegunTail
<1>11. \A g : Begun(t, None) \subseteq Begun(t, g) /\ Begun(t, h) \subseteq Begun(t, None) \cup HeldHead(h)
  BY DEF Begun, HeldHead
<1> HIDE DEF f, t
<1>12. CASE h = None
  <2>1. f.k = 1 /\ HeldHead(h) = {}
    BY <1>2, <1>6, <1>12 DEF HeldHead
  <2>2. CASE f.n = 1
    <3>1. Completed(h, f) = {f.m} /\ HeldAfter(h, f) = None
      BY <1>12, <2>2 DEF Completed, HeldAfter
    <3>2. PlainLink(t, None, aw, over, shown \cup {f.m.head})
      BY <1>5, <1>8, <1>10, <1>12, <2>2 DEF PlainLink
    <3> QED BY <1>2, <3>1, <3>2 DEF f, t
  <2>3. CASE f.n = 2
    <3>1. Completed(h, f) = {} /\ HeldAfter(h, f) = f.m
      BY <1>12, <2>1, <2>3 DEF Completed, HeldAfter
    <3>2. f.m.head \in Begun(t, f.m)
      BY <1>9 DEF Begun
    <3>3. PlainLink(t, f.m, aw, over, shown)
      BY <1>8, <1>9, <1>10, <1>11, <1>12, <3>2 DEF PlainLink
    <3> QED BY <3>1, <3>3 DEF f, t
  <2>4. f.n = 1 \/ f.n = 2
    BY <1>2
  <2> QED BY <2>2, <2>3, <2>4
<1>13. CASE h # None
  <2>1. f.k = 2 /\ f.n = 2 /\ f.m = h /\ HeldHead(h) = {f.m.head}
    BY <1>4, <1>7, <1>13 DEF HeldHead
  <2>2. [head |-> f.m.head, tail |-> f.m.tail] = f.m
    BY <1>2 DEF Message
  <2>3. Completed(h, f) = {f.m} /\ HeldAfter(h, f) = None
    BY <1>13, <2>1, <2>2 DEF Completed, HeldAfter
  <2>4. ~ LastAtHead(t)
    BY <1>5, <2>1
  <2>5. PlainLink(t, None, aw, over, shown \cup {f.m.head})
    BY <1>8, <1>10, <1>11, <2>1, <2>4 DEF PlainLink
  <2> QED BY <1>2, <2>3, <2>5 DEF f, t
<1> QED BY <1>12, <1>13

LEMMA PlainSend ==
  ASSUME TypeOK, NEW l \in Links, NEW m \in Message, NEW c \in Seq(Frame),
         NEW h, NEW aw, NEW over, NEW shown, PlainLink(c, h, aw, over, shown),
         NEW more, more \subseteq over \cup {m.head}
  PROVE  PlainLink(c \o SendSeq(l, m) \o SendMessage(sendData[l], m), h, aw, more, shown)
<1> DEFINE d == Burst(l, m)
           y == SendSeq(l, m)
           z == SendMessage(sendData[l], m)
           e == c \o d
<1>1. /\ d \in Seq(Frame) /\ (d # <<>> => ~ (IsData(d[1]) /\ d[1].k = 2))
  BY BurstFrames
<1>2. y \in Seq(Frame) /\ z \in Seq(Frame) /\ d = y \o z
  BY SentFrames DEF Burst
<1>3. Len(y) \in Nat /\ Len(z) \in Nat /\ \E a \in 1 .. Len(z) : IsData(z[a]) /\ z[a].m = m
  <2>1. Len(z) >= 1 /\ Len(z) \in Nat /\ z[1].kind = "data" /\ z[1].m = m
    BY DEF SendMessage
  <2> HIDE DEF z
  <2>2. 1 \in 1 .. Len(z)
    BY <2>1
  <2> QED BY <1>2, <2>1, <2>2, LenProperties DEF IsData
<1> HIDE DEF d, y, z
<1>4. (c \o y) \o z = e
  BY <1>2, JoinIsAssociative
<1>5. \E a \in 1 .. Len(d) : IsData(d[a]) /\ d[a].m = m
  <2>1. PICK a \in 1 .. Len(z) : IsData(z[a]) /\ z[a].m = m
    BY <1>3
  <2>2. /\ Len(d) = Len(y) + Len(z) /\ \A b \in 1 .. Len(z) : d[Len(y) + b] = z[b]
    BY <1>2, JoinedFrames
  <2>3. Len(y) + a \in 1 .. Len(d)
    BY <1>3, <2>2
  <2> QED BY <2>1, <2>2, <2>3
<1>6. /\ Len(c) \in Nat /\ Len(d) \in Nat /\ Len(e) = Len(c) + Len(d) /\ e \in Seq(Frame)
      /\ \A a \in 1 .. Len(c) : e[a] = c[a]
      /\ \A a \in 1 .. Len(d) : e[Len(c) + a] = d[a]
  BY <1>1, JoinedFrames
<1> HIDE DEF e
<1>7. \A a \in 1 .. Len(c) : a \in 1 .. Len(e)
  BY <1>6
<1>8. \A a \in 1 .. Len(d) : Len(c) + a \in 1 .. Len(e)
  BY <1>6
<1>9. Begun(c, h) \cup {m.head} \subseteq Begun(e, h)
  <2>1. Begun(c, h) \subseteq Begun(e, h)
    BY <1>6, <1>7 DEF Begun
  <2>2. \E a \in 1 .. Len(e) : IsData(e[a]) /\ e[a].m = m
    BY <1>5, <1>6, <1>8
  <2>3. m.head \in Packet
    BY DEF Message
  <2> QED BY <2>1, <2>2, <2>3 DEF Begun
<1>10. LastAtHead(e) => LastAtHead(c)
  <2> SUFFICES ASSUME e # <<>>, IsData(Head(e)), Head(e).k = 2 PROVE LastAtHead(c)
    BY DEF LastAtHead
  <2>1. Head(e) = e[1] /\ 1 \in 1 .. Len(e)
    BY <1>6, TailFrames
  <2>2. CASE c = <<>>
    <3>1. e = d /\ d # <<>>
      BY <1>1, <2>2, EmptySeq, ConcatEmptySeq DEF e
    <3> QED BY <1>1, <2>1, <3>1
  <2>3. CASE c # <<>>
    <3>1. Head(c) = c[1] /\ 1 \in 1 .. Len(c)
      BY <2>3, TailFrames
    <3>2. e[1] = c[1]
      BY <1>6, <3>1
    <3> QED BY <2>1, <2>3, <3>1, <3>2 DEF LastAtHead
  <2> QED BY <2>2, <2>3
<1>11. PlainLink(e, h, aw, more, shown)
  BY <1>9, <1>10 DEF PlainLink
<1> QED BY <1>4, <1>11 DEF y, z

(* The two sides of a link have no box in common.                           *)
Sides(x, w) == \A u \in Box : \A v \in x.nbr[u] : w.side[<<u, v>>] \cap w.side[<<v, u>>] = {}

(* Nothing was lost, no timeout was early, no packet overtook another; then *)
(* all that was sent over a link has arrived or is on its way.  Whatever a  *)
(* box has shown came over a link from behind it.                           *)
Smooth == Undisturbed /\ ~ overlap
LinkWell(w, u, v) ==
  LET l == <<u, v>> IN
  IF flow THEN FlowLink(chan[l], chan[<<v, u>>], held[l], awaitingAck[l], receivedDuplicate[l],
                        expectSeq[l], recvMessageLen[l], sendSequence[l], recvSequence[l],
                        SentOver(w, l), Shown(seen[v]))
          ELSE PlainLink(chan[l], held[l], awaitingAck[l], SentOver(w, l), Shown(seen[v]))
CameBy(w) == \A u \in Box : \A p \in Shown(seen[u]) : \E t \in nbr[u] : w.src[p] \in w.side[<<t, u>>]
Arrivals(w) ==
  /\ OthersLast(w) /\ Sides(scenario, w) /\ CameBy(w)
  /\ losses <= scenario.losses /\ late <= scenario.late
  /\ Smooth => /\ \A l \in Links : lost[l] = 0
               /\ \A u \in Box : \A v \in nbr[u] : LinkWell(w, u, v)

(* A link of which nothing changes but the acknowledgements of the other    *)
(* direction and what the far end has shown.                                *)
LEMMA LinkStill ==
  ASSUME NEW w, NEW u, NEW v, LinkWell(w, u, v), scenario' = scenario,
         chan'[<<u, v>>] = chan[<<u, v>>], SameAcks(chan[<<v, u>>], chan'[<<v, u>>]),
         held'[<<u, v>>] = held[<<u, v>>], awaitingAck'[<<u, v>>] = awaitingAck[<<u, v>>],
         receivedDuplicate'[<<u, v>>] = receivedDuplicate[<<u, v>>],
         expectSeq'[<<u, v>>] = expectSeq[<<u, v>>],
         recvMessageLen'[<<u, v>>] = recvMessageLen[<<u, v>>],
         sendSequence'[<<u, v>>] = sendSequence[<<u, v>>],
         recvSequence'[<<u, v>>] = recvSequence[<<u, v>>],
         SentOver(w, <<u, v>>)' = SentOver(w, <<u, v>>),
         Shown(seen[v]) \subseteq Shown(seen'[v])
  PROVE  LinkWell(w, u, v)'
<1> DEFINE l == <<u, v>>
<1>1. flow' = flow
  BY DEF flow
<1>2. CASE flow
  <2>1. FlowLink(chan[l], chan[<<v, u>>], held[l], awaitingAck[l], receivedDuplicate[l],
                 expectSeq[l], recvMessageLen[l], sendSequence[l], recvSequence[l],
                 SentOver(w, l), Shown(seen[v]))
    BY <1>2 DEF LinkWell
  <2>2. FlowLink(chan[l], chan'[<<v, u>>], held[l], awaitingAck[l], receivedDuplicate[l],
                 expectSeq[l], recvMessageLen[l], sendSequence[l], recvSequence[l],
                 SentOver(w, l), Shown(seen'[v]))
    BY <2>1, FlowAside
  <2> QED BY <1>1, <1>2, <2>2 DEF LinkWell
<1>3. CASE ~ flow
  <2>1. PlainLink(chan[l], held[l], awaitingAck[l], SentOver(w, l), Shown(seen[v]))
    BY <1>3 DEF LinkWell
  <2>2. PlainLink(chan[l], held[l], awaitingAck[l], SentOver(w, l), Shown(seen'[v]))
    BY <2>1 DEF PlainLink
  <2> QED BY <1>1, <1>3, <2>2 DEF LinkWell
<1> QED BY <1>2, <1>3

LEMMA SentOverStill ==
  ASSUME NEW w, NEW l, UNCHANGED <<scenario, seen, todo>>
  PROVE  SentOver(w, l)' = SentOver(w, l)
BY DEF SentOver, Passed

(* A step in which nothing is lost or late.                                 *)
LEMMA ArrivalsAfter ==
  ASSUME NEW w, Arrivals(w), UNCHANGED <<scenario, losses, late, lost>>,
         overlap => overlap', CameBy(w)',
         Smooth /\ Smooth' => \A u \in Box : \A v \in nbr[u] : LinkWell(w, u, v)'
  PROVE  Arrivals(w)'
<1>1. nbr' = nbr /\ (Smooth' => Smooth)
  BY DEF nbr, Smooth, Undisturbed
<1>2. (OthersLast(w) /\ Sides(scenario, w))'
  BY DEF Arrivals, OthersLast, Sides
<1>3. Smooth' => (\A l \in Links : lost'[l] = 0)
  BY <1>1 DEF Arrivals
<1> QED BY <1>1, <1>2, <1>3 DEF Arrivals

LEMMA CameByStill ==
  ASSUME NEW w, Arrivals(w), UNCHANGED <<scenario, seen>> PROVE CameBy(w)'
BY DEF Arrivals, CameBy, nbr

LEMMA SelectArrives ==
  ASSUME NEW w, Arrivals(w), NEW i \in Box,
         UNCHANGED <<scenario, todo, chan, flowVars, held, sendData, tallyVars,
                     seen, losses, late, lost, overlap>>
  PROVE  Arrivals(w)'
<1>1. CameBy(w)'
  BY CameByStill
<1>2. ASSUME NEW u, NEW v, LinkWell(w, u, v) PROVE LinkWell(w, u, v)'
  <2>1. SentOver(w, <<u, v>>)' = SentOver(w, <<u, v>>)
    BY SentOverStill
  <2>2. flow' = flow
    BY DEF flow
  <2> QED BY <1>2, <2>1, <2>2 DEF LinkWell, flowVars
<1> QED BY <1>1, <1>2, ArrivalsAfter DEF Arrivals

LEMMA LoseArrives ==
  ASSUME Kept, NEW w, Arrivals(w), NEW i \in Box, NEW j \in Box, Lose(i, j)
  PROVE  Arrivals(w)'
<1>1. /\ scenario' = scenario /\ late' = late /\ losses' = losses - 1
      /\ UNCHANGED <<scenario, seen>>
  BY DEF Lose
<1>2. losses \in Nat /\ scenario.losses \in Nat /\ losses <= scenario.losses
  BY DEF Kept, TypeOK, Scenario, Arrivals
<1>3. losses' <= scenario.losses /\ losses' # scenario.losses
  BY <1>1, <1>2
<1>4. ~ Smooth'
  BY <1>1, <1>3 DEF Smooth, Undisturbed
<1>5. (OthersLast(w) /\ Sides(scenario, w) /\ CameBy(w))'
  BY <1>1, CameByStill DEF Arrivals, OthersLast, Sides
<1> QED BY <1>1, <1>3, <1>4, <1>5 DEF Arrivals

(* When nothing is lost or late, a link that awaits an acknowledgement has  *)
(* frames under way.                                                        *)
LEMMA AwaitedUnderWay ==
  ASSUME NEW c, NEW r, NEW h, NEW dup, NEW ex, NEW len, NEW ss, NEW rs, NEW over, NEW shown,
         c \in Seq(Frame), r \in Seq(Frame),
         FlowLink(c, r, h, TRUE, dup, ex, len, ss, rs, over, shown)
  PROVE  c # <<>> \/ r # <<>>
<1>1. Len(<<>>) = 0
  OBVIOUS
<1>2. ASSUME NEW n \in Nat, NEW k \in Nat, k > 0, Span(c, n, k) PROVE c # <<>>
  <2>1. n + k <= Len(c) /\ n + k > 0
    BY <1>2 DEF Span
  <2> QED BY <1>1, <2>1
<1>3. ASSUME NEW m, Called(c, r, h, TRUE, dup, ex, ss, rs, m) PROVE c # <<>>
  <2>1. PICK n \in Nat : Span(c, n, 1 + Length(m))
    BY <1>3 DEF Called, Announced
  <2>2. 1 + Length(m) \in Nat /\ 1 + Length(m) > 0
    BY LengthIs
  <2> QED BY <1>2, <2>1, <2>2
<1>4. ASSUME NEW m, NEW k \in 0 .. 1, Reading(c, r, h, TRUE, dup, ex, len, ss, rs, m, k)
      PROVE  c # <<>>
  <2>1. k < Length(m)
    BY <1>4 DEF Reading
  <2>2. PICK n \in Nat : Span(c, n, Length(m) - k)
    BY <1>4 DEF Reading, Underway
  <2>3. Length(m) - k \in Nat /\ Length(m) - k > 0
    BY <2>1, LengthIs
  <2> QED BY <1>2, <2>2, <2>3
<1>5. Answered(c, r, h, TRUE, dup, ex, ss, rs) => r # <<>>
  <2>1. OneAck(r) => Len(r) # 0
    BY DEF OneAck
  <2> QED BY <1>1, <2>1 DEF Answered
<1> QED BY <1>3, <1>4, <1>5 DEF FlowLink, Idle

LEMMA TimeoutArrives ==
  ASSUME Kept, NEW w, Arrivals(w), NEW i \in Box, Timeout(i)
  PROVE  Arrivals(w)'
<1>1. /\ TypeOK /\ scenario' = scenario
      /\ UNCHANGED <<scenario, todo, flowVars, held, sendData, tallyVars,
                     seen, losses, lost, overlap>>
  BY DEF Timeout, Kept
<1>2. late \in Nat /\ scenario.late \in Nat /\ late <= scenario.late /\ losses <= scenario.losses
  BY <1>1 DEF TypeOK, Scenario, Arrivals
<1>3. CASE late' = late - 1 /\ late > 0
  <2>1. late' <= scenario.late /\ late' # scenario.late
    BY <1>2, <1>3
  <2>2. ~ Smooth'
    BY <1>1, <2>1 DEF Smooth, Undisturbed
  <2>3. (OthersLast(w) /\ Sides(scenario, w) /\ CameBy(w))'
    BY <1>1, CameByStill DEF Arrivals, OthersLast, Sides
  <2> QED BY <1>1, <1>2, <2>1, <2>2, <2>3 DEF Arrivals
<1>4. CASE Overdue(i)
  <2>1. late' = late
    BY <1>4 DEF Timeout
  <2>2. ASSUME Smooth PROVE \A j \in nbr[i] : ~ awaitingAck[<<i, j>>]
    <3> SUFFICES ASSUME NEW j \in nbr[i], awaitingAck[<<i, j>>] PROVE FALSE
      OBVIOUS
    <3>1. /\ <<i, j>> \in Links /\ <<j, i>> \in Links /\ LinkWell(w, i, j)
      BY <1>1, <2>2, OnNeighbors DEF TypeOK, Arrivals
    <3>2. flow
      BY <3>1 DEF LinkWell, PlainLink
    <3>3. /\ chan[<<i, j>>] \in Seq(Frame) /\ chan[<<j, i>>] \in Seq(Frame)
          /\ awaitingAck[<<i, j>>] = TRUE
      BY <1>1, <3>1 DEF TypeOK
    <3>4. chan[<<i, j>>] # <<>> \/ chan[<<j, i>>] # <<>>
      BY <3>1, <3>2, <3>3, AwaitedUnderWay DEF LinkWell
    <3> QED BY <1>4, <3>4 DEF Overdue
  <2>3. ASSUME Smooth PROVE chan' = chan
    <3>1. \A l \in Links : l[1] = i /\ l[2] \in nbr[i] => ~ awaitingAck[l]
      BY <2>2, <2>3 DEF Links
    <3>2. chan \in [Links -> Seq(Frame)]
      BY <1>1 DEF TypeOK
    <3> QED BY <3>1, <3>2 DEF Timeout
  <2>4. ASSUME Smooth PROVE Arrivals(w)'
    BY <1>1, <2>1, <2>3, <2>4, SelectArrives
  <2>5. ASSUME ~ Smooth PROVE Arrivals(w)'
    <3>1. CameBy(w)'
      BY <1>1, CameByStill
    <3> QED BY <1>1, <2>1, <2>5, <3>1, ArrivalsAfter
  <2> QED BY <2>4, <2>5
<1> QED BY <1>3, <1>4 DEF Timeout

LEMMA SameAcksStill == ASSUME NEW c PROVE SameAcks(c, c)
BY DEF SameAcks

LEMMA NextIsOther == ASSUME W > 1, NEW x \in Number PROVE Next1(x) # x
<1>1. W \in Nat /\ W > 1 /\ x \in 0 .. W - 1
  BY WidthIsPositive DEF Number
<1>2. CASE x + 1 < W
  <2>1. x + 1 \in Nat /\ x + 1 = W * 0 + (x + 1) /\ x + 1 \in 0 .. W - 1
    BY <1>1, <1>2
  <2>2. (x + 1) % W = x + 1
    BY <2>1, RestIs
  <2> QED BY <1>1, <2>2 DEF Next1
<1>3. CASE x + 1 = W
  <2>1. x + 1 \in Nat /\ x + 1 = W * 1 + 0 /\ 0 \in 0 .. W - 1
    BY <1>1, <1>3
  <2>2. (x + 1) % W = 0
    BY <2>1, RestIs
  <2> QED BY <1>1, <1>3, <2>2 DEF Next1
<1> QED BY <1>1, <1>2, <1>3

LEMMA FromSeqArrives ==
  ASSUME W > 1, Kept, NEW w, AllInOrder(w), Arrivals(w),
         NEW i \in Box, NEW j \in nbr[i], FromSeq(i, j)
  PROVE  Arrivals(w)'
<1> DEFINE l == <<j, i>>
           r == <<i, j>>
           f == Head(chan[l])
<1>1. /\ TypeOK /\ j \in Box /\ i \in nbr[j] /\ l \in Links /\ r \in Links /\ j # i /\ l # r
      /\ Wire(chan[l]) /\ chan \in [Links -> Seq(Frame)]
  BY OnNeighbors DEF Kept, TypeOK, AllInOrder, InOrder
<1>2. chan[l] # <<>> /\ f.kind = "seq" /\ chan' = [chan EXCEPT ![l] = Tail(@)]
  BY <1>1, ConstAssumption DEF FromSeq, Read, HasInput
<1>3. UNCHANGED <<scenario, todo, sendSequence, awaitingAck, held, seen, losses, late, lost, overlap>>
  BY DEF FromSeq
<1>4. chan'[l] = Tail(chan[l]) /\ \A k \in Links : k # l => chan'[k] = chan[k]
  BY <1>1, <1>2
<1>5. \A k \in Links : k # l =>
         /\ receivedDuplicate'[k] = receivedDuplicate[k] /\ expectSeq'[k] = expectSeq[k]
         /\ recvMessageLen'[k] = recvMessageLen[k] /\ recvSequence'[k] = recvSequence[k]
  <2>1. \/ receivedDuplicate' = receivedDuplicate
        \/ \E x : receivedDuplicate' = [receivedDuplicate EXCEPT ![l] = x]
    BY DEF FromSeq
  <2>2. expectSeq' = expectSeq \/ \E x : expectSeq' = [expectSeq EXCEPT ![l] = x]
    BY DEF FromSeq
  <2>3. \/ recvMessageLen' = recvMessageLen
        \/ \E x : recvMessageLen' = [recvMessageLen EXCEPT ![l] = x]
    BY DEF FromSeq
  <2>4. recvSequence' = recvSequence \/ \E x : recvSequence' = [recvSequence EXCEPT ![l] = x]
    BY DEF FromSeq
  <2>5. /\ receivedDuplicate \in [Links -> BOOLEAN] /\ expectSeq \in [Links -> BOOLEAN]
        /\ recvMessageLen \in [Links -> 0 .. 2] /\ recvSequence \in [Links -> Number]
    BY <1>1 DEF TypeOK
  <2> HIDE DEF l
  <2> QED BY <2>1, <2>2, <2>3, <2>4, <2>5
<1>6. \A k : SentOver(w, k)' = SentOver(w, k)
  BY <1>3, SentOverStill
<1>7. ASSUME NEW u \in Box, NEW v \in nbr[u], <<u, v>> # l, LinkWell(w, u, v)
      PROVE  LinkWell(w, u, v)'
  <2>1. <<u, v>> \in Links /\ <<v, u>> \in Links
    BY <1>1, OnNeighbors DEF TypeOK
  <2>2. SameAcks(chan[<<v, u>>], chan'[<<v, u>>])
    <3>1. CASE <<v, u>> = l
      <4>1. ~ IsAck(f)
        BY <1>2 DEF IsAck
      <4>2. SameAcks(chan[l], Tail(chan[l]))
        BY <1>1, <1>2, <4>1, AcksOfTail
      <4> QED BY <1>4, <3>1, <4>2
    <3>2. CASE <<v, u>> # l
      BY <1>4, <2>1, <3>2, SameAcksStill
    <3> QED BY <3>1, <3>2
  <2> QED BY <1>3, <1>4, <1>5, <1>6, <1>7, <2>1, <2>2, LinkStill
<1>8. ASSUME LinkWell(w, j, i) PROVE LinkWell(w, j, i)'
  <2>1. flow' = flow
    BY <1>3 DEF flow
  <2>2. CASE ~ flow
    <3>1. PlainLink(chan[l], held[l], awaitingAck[l], SentOver(w, l), Shown(seen[i]))
      BY <1>8, <2>2 DEF LinkWell
    <3>2. ~ IsData(f)
      BY <1>2 DEF IsData
    <3>3. PlainLink(Tail(chan[l]), held[l], awaitingAck[l], SentOver(w, l), Shown(seen[i]))
      BY <1>1, <1>2, <3>1, <3>2, PlainOther
    <3> QED BY <1>3, <1>4, <1>6, <2>1, <2>2, <3>3 DEF LinkWell
  <2>3. CASE flow
    <3>1. FlowLink(chan[l], chan[r], held[l], awaitingAck[l], receivedDuplicate[l],
                   expectSeq[l], recvMessageLen[l], sendSequence[l], recvSequence[l],
                   SentOver(w, l), Shown(seen[i]))
      BY <1>8, <2>3 DEF LinkWell
    <3>2. /\ expectSeq[l] /\ ~ receivedDuplicate[l] /\ recvSequence[l] = f.num
          /\ FlowLink(Tail(chan[l]), chan[r], held[l], awaitingAck[l], receivedDuplicate[l],
                      FALSE, f.len, sendSequence[l], recvSequence[l],
                      SentOver(w, l), Shown(seen[i]))
      BY <1>1, <1>2, <3>1, FlowCall
    <3>3. recvSequence[l] # Next1(f.num)
      <4>1. recvSequence[l] \in Number
        BY <1>1 DEF TypeOK
      <4> QED BY <3>2, <4>1, NextIsOther
    <3>4. /\ receivedDuplicate'[l] = receivedDuplicate[l] /\ recvSequence'[l] = recvSequence[l]
          /\ expectSeq'[l] = FALSE /\ recvMessageLen'[l] = f.len
      <4> HIDE DEF f, l
      <4>1. l \in Links /\ ~ Refused(l, FALSE)
        BY <1>1 DEF Refused
      <4>2. /\ receivedDuplicate \in [Links -> BOOLEAN] /\ recvSequence \in [Links -> Number]
            /\ expectSeq \in [Links -> BOOLEAN] /\ recvMessageLen \in [Links -> 0 .. 2]
        BY <1>1 DEF TypeOK
      <4>3. ~ (~ (recvSequence[l] = Next1(f.num)) /\ recvSequence[l] # f.num)
        BY <3>2
      <4>4. /\ receivedDuplicate' =
                 [receivedDuplicate EXCEPT ![l] = @ \/ recvSequence[l] = Next1(f.num)]
            /\ recvSequence' = recvSequence \/ recvSequence' = [recvSequence EXCEPT ![l] = @]
            /\ expectSeq' = [expectSeq EXCEPT ![l] = FALSE]
            /\ recvMessageLen' = [recvMessageLen EXCEPT ![l] = f.len]
        BY <3>2, <3>3, <4>1, <4>3 DEF FromSeq, Refused, l, f
      <4> QED BY <3>2, <3>3, <4>1, <4>2, <4>4
    <3>5. chan'[r] = chan[r]
      BY <1>1, <1>4
    <3> QED BY <1>3, <1>4, <1>6, <2>1, <2>3, <3>2, <3>4, <3>5 DEF LinkWell
  <2> QED BY <2>2, <2>3
<1>9. ASSUME NEW u \in Box, NEW v \in nbr[u], LinkWell(w, u, v) PROVE LinkWell(w, u, v)'
  BY <1>7, <1>8, <1>9
<1>10. CameBy(w)'
  BY <1>3, CameByStill
<1> QED BY <1>3, <1>9, <1>10, ArrivalsAfter DEF Arrivals

LEMMA FromAckArrives ==
  ASSUME Kept, NEW w, AllInOrder(w), Arrivals(w), NEW i \in Box, NEW j \in nbr[i], FromAck(i, j)
  PROVE  Arrivals(w)'
<1> DEFINE l == <<i, j>>
           r == <<j, i>>
           f == Head(chan[r])
<1>1. /\ TypeOK /\ j \in Box /\ i \in nbr[j] /\ l \in Links /\ r \in Links /\ j # i /\ l # r
      /\ Wire(chan[r]) /\ chan \in [Links -> Seq(Frame)]
  BY OnNeighbors DEF Kept, TypeOK, AllInOrder, InOrder
<1>2. chan[r] # <<>> /\ f.kind = "ack" /\ chan' = [chan EXCEPT ![r] = Tail(@)]
  BY <1>1, ConstAssumption DEF FromAck, Read, HasInput
<1>3. UNCHANGED <<scenario, todo, held, seen, losses, late, lost, overlap,
                  recvSequence, receivedDuplicate, expectSeq, recvMessageLen>>
  BY DEF FromAck
<1>4. chan'[r] = Tail(chan[r]) /\ \A k \in Links : k # r => chan'[k] = chan[k]
  BY <1>1, <1>2
<1>5. /\ \A k \in Links : k # l => /\ awaitingAck'[k] = awaitingAck[k]
                                   /\ sendSequence'[k] = sendSequence[k]
      /\ awaitingAck'[l] = FALSE
      /\ awaitingAck[l] => sendSequence'[l] = Next1(sendSequence[l])
  BY <1>1 DEF FromAck, TypeOK
<1>6. \A k : SentOver(w, k)' = SentOver(w, k)
  BY <1>3, SentOverStill
<1>7. ASSUME NEW u \in Box, NEW v \in nbr[u], <<u, v>> # l, <<u, v>> # r, LinkWell(w, u, v)
      PROVE  LinkWell(w, u, v)'
  <2>1. <<u, v>> \in Links /\ <<v, u>> \in Links /\ <<v, u>> # r
    BY <1>1, <1>7, OnNeighbors DEF TypeOK
  <2>2. SameAcks(chan[<<v, u>>], chan'[<<v, u>>])
    BY <1>4, <2>1, SameAcksStill
  <2> QED BY <1>3, <1>4, <1>5, <1>6, <1>7, <2>1, <2>2, LinkStill
<1>8. flow' = flow
  BY <1>3 DEF flow
<1>9. ASSUME LinkWell(w, j, i) PROVE LinkWell(w, j, i)'
  <2>1. CASE ~ flow
    <3>1. PlainLink(chan[r], held[r], awaitingAck[r], SentOver(w, r), Shown(seen[i]))
      BY <1>9, <2>1 DEF LinkWell
    <3>2. ~ IsData(f)
      BY <1>2 DEF IsData
    <3>3. PlainLink(Tail(chan[r]), held[r], awaitingAck[r], SentOver(w, r), Shown(seen[i]))
      BY <1>1, <1>2, <3>1, <3>2, PlainOther
    <3> QED BY <1>1, <1>3, <1>4, <1>5, <1>6, <1>8, <2>1, <3>3 DEF LinkWell
  <2>2. CASE flow
    <3>1. FlowLink(chan[r], chan[l], held[r], awaitingAck[r], receivedDuplicate[r],
                   expectSeq[r], recvMessageLen[r], sendSequence[r], recvSequence[r],
                   SentOver(w, r), Shown(seen[i]))
      BY <1>9, <2>2 DEF LinkWell
    <3>2. IsAck(f)
      BY <1>2 DEF IsAck
    <3>3. FlowLink(Tail(chan[r]), chan[l], held[r], awaitingAck[r], receivedDuplicate[r],
                   expectSeq[r], recvMessageLen[r], sendSequence[r], recvSequence[r],
                   SentOver(w, r), Shown(seen[i]))
      BY <1>1, <1>2, <3>1, <3>2, FlowAckRead
    <3> QED BY <1>1, <1>3, <1>4, <1>5, <1>6, <1>8, <2>2, <3>3 DEF LinkWell
  <2> QED BY <2>1, <2>2
<1>10. ASSUME LinkWell(w, i, j) PROVE LinkWell(w, i, j)'
  <2>1. CASE ~ flow
    <3>1. PlainLink(chan[l], held[l], awaitingAck[l], SentOver(w, l), Shown(seen[j]))
      BY <1>10, <2>1 DEF LinkWell
    <3>2. awaitingAck'[l] = awaitingAck[l]
      <4>1. awaitingAck[l] = FALSE
        BY <1>1, <3>1 DEF PlainLink, TypeOK
      <4> QED BY <1>5, <4>1
    <3> QED BY <1>1, <1>3, <1>4, <1>6, <1>8, <2>1, <3>1, <3>2 DEF LinkWell
  <2>2. CASE flow
    <3>1. FlowLink(chan[l], chan[r], held[l], awaitingAck[l], receivedDuplicate[l],
                   expectSeq[l], recvMessageLen[l], sendSequence[l], recvSequence[l],
                   SentOver(w, l), Shown(seen[j]))
      BY <1>10, <2>2 DEF LinkWell
    <3>2. IsAck(f)
      BY <1>2 DEF IsAck
    <3>3. /\ awaitingAck[l]
          /\ FlowLink(chan[l], Tail(chan[r]), held[l], FALSE, receivedDuplicate[l],
                      expectSeq[l], recvMessageLen[l], Next1(sendSequence[l]), recvSequence[l],
                      SentOver(w, l), Shown(seen[j]))
      BY <1>1, <1>2, <3>1, <3>2, FlowAcked
    <3> QED BY <1>1, <1>3, <1>4, <1>5, <1>6, <1>8, <2>2, <3>3 DEF LinkWell
  <2> QED BY <2>1, <2>2
<1>11. ASSUME NEW u \in Box, NEW v \in nbr[u], LinkWell(w, u, v) PROVE LinkWell(w, u, v)'
  BY <1>7, <1>9, <1>10, <1>11
<1>12. CameBy(w)'
  BY <1>3, CameByStill
<1> QED BY <1>3, <1>11, <1>12, ArrivalsAfter DEF Arrivals

LEMMA BurstNoAck == ASSUME TypeOK, NEW l \in Links, NEW m \in Message PROVE NoAck(Burst(l, m))
<1> DEFINE y == SendSeq(l, m)
           z == SendMessage(sendData[l], m)
           b == y \o z
<1>1. y \in Seq(Frame) /\ z \in Seq(Frame)
  BY SentFrames
<1>2. NoAck(y)
  BY DEF SendSeq, NoAck, IsAck
<1>3. NoAck(z)
  BY DEF SendMessage, NoAck, IsAck
<1> HIDE DEF y, z
<1>4. NoAck(y \o z)
  BY <1>1, <1>2, <1>3, AcksOfJoin DEF SameAcks
<1> QED BY <1>4 DEF Burst, y, z

(* What a step that sends m on leaves of the channels and of the senders.   *)
SentOn(i, from, m, sent) ==
  \A l \in Links :
    /\ l \in Outgoing(i, from) =>
         /\ chan'[l] = sent[l] \o SendSeq(l, m) \o SendMessage(sendData[l], m)
         /\ SameAcks(sent[l], chan'[l])
         /\ awaitingAck'[l] = (awaitingAck[l] \/ flow)
         /\ ~ overlap' => awaitingAck[l] = FALSE
    /\ l \notin Outgoing(i, from) => chan'[l] = sent[l] /\ awaitingAck'[l] = awaitingAck[l]

LEMMA ForwardLinks ==
  ASSUME Kept, NEW i \in Box, NEW from \in Box \cup {Client}, NEW m \in Message,
         NEW sent \in [Links -> Seq(Frame)], scenario' = scenario, Forward(i, from, m, sent)
  PROVE  /\ SentOn(i, from, m, sent)
         /\ overlap => overlap'
         /\ seen' = IF from = Client THEN seen ELSE [seen EXCEPT ![i] = Append(@, m)]
<1>1. TypeOK
  BY DEF Kept
<1>2. awaitingAck \in [Links -> BOOLEAN]
  BY <1>1 DEF TypeOK
<1>3. /\ overlap' = (overlap \/ \E l \in Outgoing(i, from) : awaitingAck[l])
      /\ seen' = IF from = Client THEN seen ELSE [seen EXCEPT ![i] = Append(@, m)]
      /\ chan' = [l \in Links |->
                   IF l \in Outgoing(i, from)
                   THEN sent[l] \o SendSeq(l, m) \o SendMessage(sendData[l], m) ELSE sent[l]]
      /\ awaitingAck' = [l \in Links |-> awaitingAck[l] \/ (flow /\ l \in Outgoing(i, from))]
  BY DEF Forward, Outgoing
<1>4. ASSUME NEW l \in Links
      PROVE  SameAcks(sent[l], sent[l] \o SendSeq(l, m) \o SendMessage(sendData[l], m))
  <2> DEFINE x == sent[l]
             y == SendSeq(l, m)
             z == SendMessage(sendData[l], m)
             b == Burst(l, m)
  <2>1. x \in Seq(Frame) /\ y \in Seq(Frame) /\ z \in Seq(Frame) /\ b = y \o z
    BY <1>1, SentFrames DEF Burst
  <2>2. b \in Seq(Frame) /\ NoAck(b)
    BY <1>1, BurstFrames, BurstNoAck
  <2> HIDE DEF x, y, z, b
  <2>3. (x \o y) \o z = x \o b
    <3> x \in Seq(Frame) /\ y \in Seq(Frame) /\ z \in Seq(Frame)
      BY <2>1
    <3>1. (x \o y) \o z = x \o (y \o z)
      BY JoinIsAssociative
    <3> QED BY <2>1, <3>1
  <2>4. SameAcks(x, x \o b)
    BY <2>1, <2>2, AcksOfJoin
  <2> QED BY <2>3, <2>4 DEF x, y, z
<1>5. \A l \in Links : l \notin Outgoing(i, from) => awaitingAck'[l] = awaitingAck[l]
  BY <1>2, <1>3
<1>6. \A l \in Links : l \in Outgoing(i, from) => awaitingAck'[l] = (awaitingAck[l] \/ flow)
  BY <1>2, <1>3
<1>7. \A l \in Links : l \in Outgoing(i, from) => (~ overlap' => awaitingAck[l] = FALSE)
  BY <1>2, <1>3
<1>8. \A l \in Links :
        /\ l \in Outgoing(i, from) =>
             /\ chan'[l] = sent[l] \o SendSeq(l, m) \o SendMessage(sendData[l], m)
             /\ SameAcks(sent[l], chan'[l])
        /\ l \notin Outgoing(i, from) => chan'[l] = sent[l]
  BY <1>3, <1>4
<1> QED BY <1>3, <1>5, <1>6, <1>7, <1>8 DEF SentOn

(* A link on which m is sent on.                                            *)
LEMMA ForwardOut ==
  ASSUME Kept, NEW w, NEW i \in Box, NEW from \in Box \cup {Client}, NEW m \in Message,
         NEW sent \in [Links -> Seq(Frame)], scenario' = scenario, Forward(i, from, m, sent),
         NEW v \in Receivers(i, from), LinkWell(w, i, v), ~ overlap',
         sent[<<i, v>>] = chan[<<i, v>>], chan'[<<v, i>>] = chan[<<v, i>>],
         held'[<<i, v>>] = held[<<i, v>>],
         receivedDuplicate'[<<i, v>>] = receivedDuplicate[<<i, v>>],
         expectSeq'[<<i, v>>] = expectSeq[<<i, v>>],
         recvMessageLen'[<<i, v>>] = recvMessageLen[<<i, v>>],
         sendSequence'[<<i, v>>] = sendSequence[<<i, v>>],
         recvSequence'[<<i, v>>] = recvSequence[<<i, v>>],
         SentOver(w, <<i, v>>)' \subseteq SentOver(w, <<i, v>>) \cup {m.head},
         seen'[v] = seen[v]
  PROVE  LinkWell(w, i, v)'
<1> DEFINE l == <<i, v>>
<1>1. /\ TypeOK /\ v \in nbr[i] /\ l \in Links /\ l \in Outgoing(i, from)
      /\ chan[l] \in Seq(Frame)
  <2>1. TypeOK /\ v \in nbr[i]
    BY DEF Kept, Receivers
  <2>2. l \in Links
    BY <2>1, OnNeighbors DEF TypeOK
  <2> QED BY <2>1, <2>2 DEF Outgoing, TypeOK
<1>2. /\ chan'[l] = chan[l] \o SendSeq(l, m) \o SendMessage(sendData[l], m)
      /\ awaitingAck'[l] = (awaitingAck[l] \/ flow) /\ awaitingAck[l] = FALSE
  <2>1. \A k \in Links : k \in Outgoing(i, from) =>
          /\ chan'[k] = sent[k] \o SendSeq(k, m) \o SendMessage(sendData[k], m)
          /\ awaitingAck'[k] = (awaitingAck[k] \/ flow) /\ awaitingAck[k] = FALSE
    <3>1. SentOn(i, from, m, sent)
      BY ForwardLinks
    <3> QED BY <3>1 DEF SentOn
  <2> QED BY <1>1, <2>1
<1>3. flow' = flow
  BY DEF flow
<1>4. CASE flow
  <2>1. FlowLink(chan[l], chan[<<v, i>>], held[l], FALSE, receivedDuplicate[l],
                 expectSeq[l], recvMessageLen[l], sendSequence[l], recvSequence[l],
                 SentOver(w, l), Shown(seen[v]))
    BY <1>2, <1>4 DEF LinkWell
  <2>2. FlowLink(chan[l] \o SendSeq(l, m) \o SendMessage(sendData[l], m), chan[<<v, i>>],
                 held[l], TRUE, receivedDuplicate[l],
                 expectSeq[l], recvMessageLen[l], sendSequence[l], recvSequence[l],
                 SentOver(w, l)', Shown(seen[v]))
    BY <1>1, <1>4, <2>1, FlowSend
  <2>3. awaitingAck'[l] = TRUE
    BY <1>2, <1>4
  <2> QED BY <1>2, <1>3, <1>4, <2>2, <2>3 DEF LinkWell
<1>5. CASE ~ flow
  <2>1. PlainLink(chan[l], held[l], FALSE, SentOver(w, l), Shown(seen[v]))
    BY <1>2, <1>5 DEF LinkWell
  <2>2. PlainLink(chan[l] \o SendSeq(l, m) \o SendMessage(sendData[l], m), held[l], FALSE,
                  SentOver(w, l)', Shown(seen[v]))
    BY <1>1, <2>1, PlainSend
  <2>3. awaitingAck'[l] = FALSE
    BY <1>2, <1>5
  <2> QED BY <1>2, <1>3, <1>5, <2>2, <2>3 DEF LinkWell
<1> QED BY <1>4, <1>5

(* The clients of a box send a packet.                                      *)
LEMMA PassedFromClient ==
  ASSUME NEW w, AllInOrder(w), OthersLast(w), NEW i \in Box, todo[i] # <<>>,
         todo' = [todo EXCEPT ![i] = Tail(@)], UNCHANGED <<scenario, seen>>
  PROVE  /\ \A u \in Box : u # i => Passed(w, u, seen[u], todo[u])' = Passed(w, u, seen[u], todo[u])
         /\ Passed(w, i, seen[i], todo[i])' \subseteq
              Passed(w, i, seen[i], todo[i]) \cup {Head(todo[i])}
<1> DEFINE all == scenario.todo[i]
           n == Len(todo[i])
           p == Head(todo[i])
<1>1. /\ w \in Way /\ scenario \in Scenario /\ OnTree(scenario, w)
      /\ todo \in [Box -> Seq(Packet)] /\ Remaining(i, todo[i])
  BY DEF AllInOrder, InOrder, Shape
<1>2. todo[i] \in Seq(Packet) /\ all \in Seq(Packet) /\ w.pos \in [Packet -> Nat]
  BY <1>1 DEF Scenario, Way
<1>3. n \in Nat /\ n > 0 /\ p = todo[i][1] /\ Len(all) \in Nat /\ Len(Tail(todo[i])) = n - 1
  <2>1. n \in Nat \ {0}
    BY <1>2, EmptySeq
  <2> QED BY <1>2, <2>1, HeadTailProperties, LenProperties
<1>4. todo'[i] = Tail(todo[i]) /\ \A u \in Box : u # i => todo'[u] = todo[u]
  BY <1>1
<1>5. n <= Len(all) /\ \A k \in 1 .. n : todo[i][k] = all[Len(all) - n + k]
  BY <1>1 DEF Remaining
<1> DEFINE A == Len(all)
<1>6. /\ A \in Nat /\ n \in Nat /\ n > 0 /\ n <= A
  BY <1>3, <1>5
<1>7. p = all[A - n + 1]
  <2>1. 1 \in 1 .. n
    BY <1>6
  <2> QED BY <1>3, <1>5, <2>1
<1>8. ASSUME NEW q \in Packet, w.src[q] = i, w.pos[q] <= A - Len(todo'[i]),
             ~ (w.pos[q] <= A - n)
      PROVE  q = p
  <2>1. Len(todo'[i]) = n - 1 /\ w.pos[q] \in Nat
    BY <1>2, <1>3, <1>4
  <2> DEFINE x == w.pos[q]
             z == Len(todo'[i])
  <2> HIDE DEF A, n, p
  <2>2. x = A - n + 1 /\ x <= A
    <3>1. z = n - 1 /\ x \in Nat /\ x <= A - z /\ ~ (x <= A - n)
      BY <1>8, <2>1
    <3> HIDE DEF x, z
    <3> QED BY <1>6, <3>1
  <2>3. q \in Listed(scenario)
    <3>1. q \notin Listed(scenario) => w.pos[q] > A
      BY <1>8 DEF OthersLast, A
    <3>2. ~ (x > A)
      <4> HIDE DEF x
      <4> QED BY <1>6, <2>1, <2>2 DEF x
    <3> QED BY <3>1, <3>2
  <2>4. PICK j \in Box : \E k \in 1 .. Len(scenario.todo[j]) : scenario.todo[j][k] = q
    BY <2>3 DEF Listed
  <2>5. PICK k \in 1 .. Len(scenario.todo[j]) : scenario.todo[j][k] = q
    BY <2>4
  <2>6. w.src[q] = j /\ w.pos[q] = k
    BY <1>1, <2>5 DEF OnTree
  <2>7. q = all[x]
    BY <1>8, <2>5, <2>6
  <2> QED BY <1>7, <2>2, <2>7
<1> HIDE DEF A, n, p
<1>9. \A u \in Box : u # i => Passed(w, u, seen[u], todo[u])' = Passed(w, u, seen[u], todo[u])
  BY <1>4 DEF Passed
<1>10. ASSUME NEW q \in Passed(w, i, seen[i], todo[i])', q \notin Passed(w, i, seen[i], todo[i])
       PROVE  q = p
  <2>1. q \in Packet
    BY <1>10 DEF Passed
  <2>2. w.src[q] = i
    BY <1>10 DEF Passed
  <2>3. w.pos[q] <= A - Len(todo'[i]) /\ ~ (w.pos[q] <= A - n)
    BY <1>10, <2>1, <2>2 DEF Passed, A, n
  <2> QED BY <1>8, <2>1, <2>2, <2>3
<1> QED BY <1>9, <1>10 DEF p

LEMMA FromClientArrives ==
  ASSUME Kept, NEW w, AllInOrder(w), Arrivals(w), NEW i \in Box, FromClient(i)
  PROVE  Arrivals(w)'
<1> DEFINE m == Whole(Head(todo[i]))
<1>1. TypeOK /\ scenario \in Scenario /\ chan \in [Links -> Seq(Frame)]
      /\ todo \in [Box -> Seq(Packet)]
  BY DEF Kept, TypeOK
<1>2. todo[i] # <<>> /\ todo[i] \in Seq(Packet)
  BY <1>1 DEF FromClient, Read, HasInput
<1>3. m \in Message /\ m.head = Head(todo[i])
  BY <1>2, HeadTailProperties DEF Whole, Message
<1>4. /\ Forward(i, Client, m, chan) /\ todo' = [todo EXCEPT ![i] = Tail(@)]
      /\ UNCHANGED <<scenario, sendSequence, recvSequence, receivedDuplicate, expectSeq,
                     recvMessageLen, held, losses, late, lost>>
  BY DEF FromClient
<1> HIDE DEF m
<1>5. /\ \A l \in Links :
              /\ l \in Outgoing(i, Client) => SameAcks(chan[l], chan'[l])
              /\ l \notin Outgoing(i, Client) => chan'[l] = chan[l] /\ awaitingAck'[l] = awaitingAck[l]
      /\ overlap => overlap'
      /\ seen' = seen
  <2>1. /\ SentOn(i, Client, m, chan)
        /\ overlap => overlap'
        /\ seen' = IF Client = Client THEN seen ELSE [seen EXCEPT ![i] = Append(@, m)]
    BY <1>1, <1>3, <1>4, ForwardLinks
  <2> QED BY <2>1 DEF SentOn
<1>6. /\ \A u \in Box : u # i => Passed(w, u, seen[u], todo[u])' = Passed(w, u, seen[u], todo[u])
      /\ Passed(w, i, seen[i], todo[i])' \subseteq Passed(w, i, seen[i], todo[i]) \cup {m.head}
  BY <1>2, <1>3, <1>4, <1>5, PassedFromClient DEF Arrivals
<1>7. CameBy(w)'
  BY <1>4, <1>5, CameByStill
<1>8. ASSUME NEW u \in Box, NEW v \in nbr[u], LinkWell(w, u, v), ~ overlap'
      PROVE  LinkWell(w, u, v)'
  <2>1. <<u, v>> \in Links /\ <<v, u>> \in Links /\ v \in Box /\ u # v
    BY <1>1, OnNeighbors
  <2>2. CASE u = i
    <3>1. v \in Receivers(i, Client) /\ <<v, i>> \notin Outgoing(i, Client)
      BY <1>1, <2>1, <2>2, ConstAssumption DEF Receivers, Outgoing, Scenario
    <3>2. SentOver(w, <<i, v>>)' \subseteq SentOver(w, <<i, v>>) \cup {m.head}
      BY <1>6 DEF SentOver
    <3>3. chan'[<<v, i>>] = chan[<<v, i>>]
      BY <1>5, <2>1, <2>2, <3>1
    <3> QED BY <1>1, <1>3, <1>4, <1>5, <1>8, <2>2, <3>1, <3>2, <3>3, ForwardOut
  <2>3. CASE u # i
    <3>1. <<u, v>> \notin Outgoing(i, Client)
      BY <2>3 DEF Outgoing
    <3>2. SentOver(w, <<u, v>>)' = SentOver(w, <<u, v>>)
      BY <1>6, <2>3 DEF SentOver
    <3>3. SameAcks(chan[<<v, u>>], chan'[<<v, u>>])
      BY <1>5, <2>1, SameAcksStill
    <3>4. chan'[<<u, v>>] = chan[<<u, v>>] /\ awaitingAck'[<<u, v>>] = awaitingAck[<<u, v>>]
      BY <1>5, <2>1, <3>1
    <3> QED BY <1>4, <1>5, <1>8, <2>1, <3>2, <3>3, <3>4, LinkStill
  <2> QED BY <2>2, <2>3
<1>9. Smooth /\ Smooth' => \A u \in Box : \A v \in nbr[u] : LinkWell(w, u, v)'
  BY <1>8 DEF Arrivals, Smooth
<1> QED BY <1>4, <1>5, <1>7, <1>9, ArrivalsAfter

(* The two outcomes of reading a data frame, on their own.                  *)
LEMMA FlowReadHeld ==
  ASSUME NEW c \in Seq(Frame), c # <<>>, IsData(Head(c)),
         NEW r \in Seq(Frame), NEW h, NEW aw, NEW dup, NEW ex, NEW len, NEW ss, NEW rs,
         NEW over, NEW shown, FlowLink(c, r, h, aw, dup, ex, len, ss, rs, over, shown),
         Completed(h, Head(c)) = {}
  PROVE  FlowLink(Tail(c), r, HeldAfter(h, Head(c)), aw, dup, ex, len, ss, rs, over, shown)
<1>1. PieceRead(c, r, r, h, aw, dup, ex, len, ss, rs, over, shown)
  BY FlowRead
<1>2. \A m \in Message : Completed(h, Head(c)) # {m}
  OBVIOUS
<1> QED BY <1>1, <1>2 DEF PieceRead

PacketRead(c, r, r2, h, aw, dup, ex, len, ss, rs, over, shown, m) ==
  /\ aw /\ ~ ex /\ ~ dup /\ NoAck(r) /\ len = Length(m)
  /\ OneAck(r2) => FlowLink(Tail(c), r2, HeldAfter(h, Head(c)), aw, FALSE, TRUE, len, ss,
                            Next1(rs), over, shown \cup {m.head})

LEMMA FlowReadDone ==
  ASSUME NEW c \in Seq(Frame), c # <<>>, IsData(Head(c)),
         NEW r \in Seq(Frame), NEW h, NEW aw, NEW dup, NEW ex, NEW len, NEW ss, NEW rs,
         NEW over, NEW shown, FlowLink(c, r, h, aw, dup, ex, len, ss, rs, over, shown),
         NEW m, Completed(h, Head(c)) = {m}, NEW r2
  PROVE  PacketRead(c, r, r2, h, aw, dup, ex, len, ss, rs, over, shown, m)
<1> DEFINE done == Completed(h, Head(c))
           g == HeldAfter(h, Head(c))
           t == Tail(c)
           after(x) == OneAck(r2) =>
             FlowLink(t, r2, g, aw, FALSE, TRUE, len, ss, Next1(rs), over, shown \cup {x.head})
<1>1. PieceRead(c, r, r2, h, aw, dup, ex, len, ss, rs, over, shown)
  BY FlowRead
<1>0. /\ aw /\ ~ ex /\ ~ dup /\ NoAck(r)
      /\ done = {} \/ \E x \in Message : done = {x} /\ len = Length(x) /\ after(x)
  BY <1>1 DEF PieceRead
<1>2. done = {m}
  OBVIOUS
<1> HIDE DEF done, g, t, after
<1>3. PICK x \in Message : done = {x} /\ len = Length(x) /\ after(x)
  BY <1>0, <1>2
<1>4. x = m
  BY <1>2, <1>3
<1>5. len = Length(m) /\ after(m)
  BY <1>3, <1>4
<1> QED BY <1>0, <1>5 DEF after, g, t, PacketRead

LEMMA PlainReadOnce ==
  ASSUME NEW c \in Seq(Frame), c # <<>>, IsData(Head(c)),
         NEW h \in Message \cup {None}, Sound(c, h, 0),
         NEW aw, NEW over, NEW shown, PlainLink(c, h, aw, over, shown)
  PROVE  /\ Completed(h, Head(c)) = {} =>
              PlainLink(Tail(c), HeldAfter(h, Head(c)), aw, over, shown)
         /\ \A m : Completed(h, Head(c)) = {m} =>
              PlainLink(Tail(c), HeldAfter(h, Head(c)), aw, over, shown \cup {m.head})
<1> DEFINE done == Completed(h, Head(c))
           g == HeldAfter(h, Head(c))
           t == Tail(c)
<1>1. \/ done = {} /\ PlainLink(t, g, aw, over, shown)
      \/ \E m \in Message : done = {m} /\ PlainLink(t, g, aw, over, shown \cup {m.head})
  BY PlainRead
<1> HIDE DEF done, g, t
<1>2. done = {} => PlainLink(t, g, aw, over, shown)
  BY <1>1
<1>3. \A m : done = {m} => PlainLink(t, g, aw, over, shown \cup {m.head})
  BY <1>1
<1> QED BY <1>2, <1>3 DEF done, g, t

(* What box i has shown came over one of its links.                         *)
LEMMA FromDataCameBy ==
  ASSUME Kept, NEW w, AllInOrder(w), Arrivals(w), NEW i \in Box, NEW j \in nbr[i], FromData(i, j)
  PROVE  CameBy(w)'
<1> DEFINE l    == <<j, i>>
           f    == Head(chan[l])
           done == Completed(held[l], f)
<1>1. /\ TypeOK /\ InOrder(w, chan, held, seen, todo)
      /\ j \in Box /\ i \in nbr[j] /\ l \in Links /\ j # Client
  BY OnNeighbors, ConstAssumption DEF Kept, TypeOK, AllInOrder
<1>2. chan[l] # <<>> /\ IsData(f)
  BY <1>1 DEF FromData, Read, HasInput, IsData
<1>3. \A m \in done : m \in Message /\ w.src[m.head] \in w.side[l]
  BY <1>1, <1>2, ReadInOrder DEF Arrived
<1>4. scenario' = scenario /\ nbr' = nbr
  BY DEF FromData, nbr
<1>5. seen' = seen \/ \E m \in done : seen' = [seen EXCEPT ![i] = Append(@, m)]
  BY <1>1 DEF FromData, Forward
<1> HIDE DEF done, f
<1>6. CASE seen' = seen
  BY <1>4, <1>6, CameByStill
<1>7. ASSUME NEW m \in done, seen' = [seen EXCEPT ![i] = Append(@, m)] PROVE CameBy(w)'
  <2>1. seen \in [Box -> Seq(Message)] /\ m \in Message
    BY <1>1, <1>3 DEF TypeOK
  <2>2. seen'[i] = Append(seen[i], m) /\ \A u \in Box : u # i => seen'[u] = seen[u]
    BY <1>7, <2>1
  <2>3. Shown(seen'[i]) = Shown(seen[i]) \cup {m.head}
    BY <2>1, <2>2, ShownAfter
  <2>4. \A u \in Box : \A p \in Shown(seen[u]) : \E t \in nbr[u] : w.src[p] \in w.side[<<t, u>>]
    BY DEF Arrivals, CameBy
  <2>5. \E t \in nbr[i] : w.src[m.head] \in w.side[<<t, i>>]
    BY <1>3
  <2>6. ASSUME NEW u \in Box, NEW p \in Shown(seen'[u])
        PROVE  \E t \in nbr[u] : w.src[p] \in w.side[<<t, u>>]
    <3>1. CASE u = i
      BY <2>3, <2>4, <2>5, <2>6, <3>1
    <3>2. CASE u # i
      BY <2>2, <2>4, <2>6, <3>2
    <3> QED BY <3>1, <3>2
  <2> QED BY <1>4, <2>6 DEF CameBy
<1> QED BY <1>5, <1>6, <1>7

(* A piece is held.                                                         *)
LEMMA FromDataHeld ==
  ASSUME Kept, NEW w, AllInOrder(w), NEW i \in Box, NEW j \in nbr[i], FromData(i, j),
         Sound(chan[<<j, i>>], held[<<j, i>>], 0),
         Completed(held[<<j, i>>], Head(chan[<<j, i>>])) = {},
         NEW u \in Box, NEW v \in nbr[u], LinkWell(w, u, v)
  PROVE  LinkWell(w, u, v)'
<1> DEFINE l    == <<j, i>>
           f    == Head(chan[l])
<1>1. /\ TypeOK /\ j \in Box /\ i \in nbr[j] /\ l \in Links /\ j # Client
      /\ <<u, v>> \in Links /\ <<v, u>> \in Links
      /\ chan \in [Links -> Seq(Frame)] /\ held \in [Links -> Message \cup {None}]
  BY OnNeighbors, ConstAssumption DEF Kept, TypeOK
<1>2. chan[l] # <<>> /\ IsData(f)
  BY <1>1 DEF FromData, Read, HasInput, IsData
<1>3. /\ UNCHANGED <<scenario, todo, seen, sendSequence, recvMessageLen, awaitingAck>>
      /\ chan' = [chan EXCEPT ![l] = Tail(@)] /\ held' = [held EXCEPT ![l] = HeldAfter(@, f)]
      /\ expectSeq' = [expectSeq EXCEPT ![l] = @ \/ FALSE]
      /\ receivedDuplicate' = [receivedDuplicate EXCEPT ![l] = @ /\ TRUE]
      /\ recvSequence' = [recvSequence EXCEPT ![l] = @]
  BY DEF FromData
<1>4. /\ chan'[l] = Tail(chan[l]) /\ held'[l] = HeldAfter(held[l], f)
      /\ \A k \in Links : k # l => chan'[k] = chan[k] /\ held'[k] = held[k]
      /\ \A k \in Links : /\ expectSeq'[k] = expectSeq[k] /\ recvSequence'[k] = recvSequence[k]
                          /\ receivedDuplicate'[k] = receivedDuplicate[k]
  BY <1>1, <1>3 DEF TypeOK
<1>5. SentOver(w, <<u, v>>)' = SentOver(w, <<u, v>>) /\ flow' = flow
  BY <1>3, SentOverStill DEF flow
<1>6. CASE <<u, v>> # l
  <2>1. SameAcks(chan[<<v, u>>], chan'[<<v, u>>])
    <3>1. CASE <<v, u>> = l
      <4>1. ~ IsAck(f)
        BY <1>2 DEF IsAck, IsData
      <4>2. SameAcks(chan[l], Tail(chan[l]))
        BY <1>1, <1>2, <4>1, AcksOfTail
      <4> QED BY <1>4, <3>1, <4>2
    <3>2. CASE <<v, u>> # l
      BY <1>1, <1>4, <3>2, SameAcksStill
    <3> QED BY <3>1, <3>2
  <2> QED BY <1>1, <1>3, <1>4, <1>5, <1>6, <2>1, LinkStill
<1>7. CASE <<u, v>> = l
  <2>1. u = j /\ v = i /\ <<i, j>> \in Links /\ <<i, j>> # l /\ chan'[<<i, j>>] = chan[<<i, j>>]
    BY <1>1, <1>4, <1>7, OnNeighbors DEF TypeOK
  <2>4. /\ flow' = flow /\ chan'[l] = Tail(chan[l]) /\ held'[l] = HeldAfter(held[l], f)
        /\ awaitingAck'[l] = awaitingAck[l] /\ receivedDuplicate'[l] = receivedDuplicate[l]
        /\ expectSeq'[l] = expectSeq[l] /\ recvMessageLen'[l] = recvMessageLen[l]
        /\ sendSequence'[l] = sendSequence[l] /\ recvSequence'[l] = recvSequence[l]
        /\ SentOver(w, l)' = SentOver(w, l) /\ Shown(seen'[i]) = Shown(seen[i])
    BY <1>1, <1>3, <1>4, <1>5, <1>7
  <2>2. CASE flow
    <3>1. FlowLink(chan[l], chan[<<i, j>>], held[l], awaitingAck[l], receivedDuplicate[l],
                   expectSeq[l], recvMessageLen[l], sendSequence[l], recvSequence[l],
                   SentOver(w, l), Shown(seen[i]))
      BY <2>1, <2>2 DEF LinkWell
    <3>2. chan[<<i, j>>] \in Seq(Frame) /\ chan[l] \in Seq(Frame)
      BY <1>1, <2>1
    <3>3. FlowLink(Tail(chan[l]), chan[<<i, j>>], HeldAfter(held[l], f), awaitingAck[l],
                   receivedDuplicate[l], expectSeq[l], recvMessageLen[l], sendSequence[l],
                   recvSequence[l], SentOver(w, l), Shown(seen[i]))
      BY <1>2, <3>1, <3>2, FlowReadHeld
    <3> HIDE DEF f
    <3> QED BY <2>1, <2>2, <2>4, <3>3 DEF LinkWell
  <2>3. CASE ~ flow
    <3>1. PlainLink(chan[l], held[l], awaitingAck[l], SentOver(w, l), Shown(seen[i]))
      BY <2>1, <2>3 DEF LinkWell
    <3>2. PlainLink(Tail(chan[l]), HeldAfter(held[l], f), awaitingAck[l], SentOver(w, l),
                    Shown(seen[i]))
      BY <1>1, <1>2, <3>1, PlainReadOnce
    <3> HIDE DEF f
    <3> QED BY <2>1, <2>3, <2>4, <3>2 DEF LinkWell
  <2> QED BY <2>2, <2>3
<1> QED BY <1>6, <1>7

(* A packet is complete, is acknowledged and passed on.                     *)
LEMMA FromDataPassed ==
  ASSUME Kept, NEW w, AllInOrder(w), Sides(scenario, w),
         NEW i \in Box, NEW j \in nbr[i], FromData(i, j), ~ overlap',
         Sound(chan[<<j, i>>], held[<<j, i>>], 0),
         NEW m \in Message, Completed(held[<<j, i>>], Head(chan[<<j, i>>])) = {m},
         \A u \in Box : \A v \in nbr[u] : LinkWell(w, u, v)
  PROVE  \A u \in Box : \A v \in nbr[u] : LinkWell(w, u, v)'
<1> DEFINE l    == <<j, i>>
           r    == <<i, j>>
           f    == Head(chan[l])
           ack  == [kind |-> "ack", num |-> recvSequence[l]]
           rest == [chan EXCEPT ![l] = Tail(@)]
           sent == IF flow THEN [rest EXCEPT ![r] = Append(@, ack)] ELSE rest
<1>1. /\ TypeOK /\ j \in Box /\ i \in nbr[j] /\ l \in Links /\ r \in Links /\ j # Client /\ i # j
      /\ l # r /\ chan \in [Links -> Seq(Frame)] /\ held \in [Links -> Message \cup {None}]
      /\ InOrder(w, chan, held, seen, todo) /\ OnTree(scenario, w) /\ scenario \in Scenario
  BY OnNeighbors, ConstAssumption DEF Kept, TypeOK, AllInOrder, InOrder, Shape
<1>2. chan[l] # <<>> /\ IsData(f) /\ chan[l] \in Seq(Frame) /\ chan[r] \in Seq(Frame)
  BY <1>1 DEF FromData, Read, HasInput, IsData
<1>3. flow => /\ awaitingAck[l] /\ ~ expectSeq[l] /\ ~ receivedDuplicate[l] /\ NoAck(chan[r])
              /\ recvMessageLen[l] = Length(m)
              /\ \A r2 : OneAck(r2) =>
                   FlowLink(Tail(chan[l]), r2, HeldAfter(held[l], f), awaitingAck[l], FALSE, TRUE,
                            recvMessageLen[l], sendSequence[l], Next1(recvSequence[l]),
                            SentOver(w, l), Shown(seen[i]) \cup {m.head})
  <2> SUFFICES ASSUME flow
               PROVE  /\ awaitingAck[l] /\ ~ expectSeq[l] /\ ~ receivedDuplicate[l] /\ NoAck(chan[r])
                      /\ recvMessageLen[l] = Length(m)
                      /\ \A r2 : OneAck(r2) =>
                           FlowLink(Tail(chan[l]), r2, HeldAfter(held[l], f), awaitingAck[l], FALSE,
                                    TRUE, recvMessageLen[l], sendSequence[l],
                                    Next1(recvSequence[l]),
                                    SentOver(w, l), Shown(seen[i]) \cup {m.head})
    OBVIOUS
  <2>1. FlowLink(chan[l], chan[r], held[l], awaitingAck[l], receivedDuplicate[l],
                 expectSeq[l], recvMessageLen[l], sendSequence[l], recvSequence[l],
                 SentOver(w, l), Shown(seen[i]))
    BY <1>1 DEF LinkWell
  <2>2. \A r2 : PacketRead(chan[l], chan[r], r2, held[l], awaitingAck[l], receivedDuplicate[l],
                          expectSeq[l], recvMessageLen[l], sendSequence[l], recvSequence[l],
                          SentOver(w, l), Shown(seen[i]), m)
    BY <1>2, <2>1, FlowReadDone
  <2> QED BY <2>2 DEF PacketRead
<1>4. ~ flow => PlainLink(Tail(chan[l]), HeldAfter(held[l], f), awaitingAck[l], SentOver(w, l),
                          Shown(seen[i]) \cup {m.head})
  <2> SUFFICES ASSUME ~ flow
               PROVE  PlainLink(Tail(chan[l]), HeldAfter(held[l], f), awaitingAck[l], SentOver(w, l),
                                Shown(seen[i]) \cup {m.head})
    OBVIOUS
  <2>1. PlainLink(chan[l], held[l], awaitingAck[l], SentOver(w, l), Shown(seen[i]))
    BY <1>1 DEF LinkWell
  <2> QED BY <1>1, <1>2, <2>1, PlainReadOnce
<1>5. (Acked(l, m) <=> flow) /\ MessageOk(l, m) /\ flow \in BOOLEAN
  BY <1>1, <1>3 DEF Acked, MessageOk, flow, Scenario
<1> DEFINE ackd == \E x \in Completed(held[l], f) : Acked(l, x)
           sent2 == IF ackd THEN [rest EXCEPT ![r] = Append(@, ack)] ELSE rest
<1>6. /\ scenario' = scenario /\ todo' = todo /\ sendSequence' = sendSequence
      /\ recvMessageLen' = recvMessageLen
      /\ held' = [held EXCEPT ![l] = HeldAfter(@, f)]
      /\ expectSeq' = [expectSeq EXCEPT ![l] = @ \/ ackd]
      /\ receivedDuplicate' = [receivedDuplicate EXCEPT ![l] = @ /\ ~ ackd]
      /\ recvSequence' = [recvSequence EXCEPT ![l] = IF ackd /\ ~ receivedDuplicate[l]
                                                     THEN Next1(@) ELSE @]
      /\ IF \E x \in Completed(held[l], f) : MessageOk(l, x)
         THEN \E x \in Completed(held[l], f) : Forward(i, j, x, sent2)
         ELSE TRUE
  BY DEF FromData
<1> DEFINE done == Completed(held[l], f)
<1>7. done = {m}
  OBVIOUS
<1>8. (ackd <=> flow) /\ ackd \in BOOLEAN
  <2> HIDE DEF done, l
  <2>1. (\E x \in done : Acked(l, x)) <=> flow
    BY <1>5, <1>7
  <2> QED BY <2>1 DEF done
<1>9. sent2 = sent
  BY <1>8
<1>10. Forward(i, j, m, sent)
  <2>1. \E x \in done : MessageOk(l, x)
    BY <1>5, <1>7
  <2>2. \E x \in done : Forward(i, j, x, sent2)
    BY <1>6, <2>1
  <2> HIDE DEF done, sent, sent2
  <2> QED BY <1>7, <1>9, <2>2
<1> HIDE DEF ackd
<1>11. /\ held'[l] = HeldAfter(held[l], f)
       /\ flow => /\ expectSeq'[l] = TRUE /\ receivedDuplicate'[l] = FALSE
                  /\ recvSequence'[l] = Next1(recvSequence[l])
       /\ \A k \in Links : k # l =>
            /\ held'[k] = held[k] /\ expectSeq'[k] = expectSeq[k]
            /\ receivedDuplicate'[k] = receivedDuplicate[k] /\ recvSequence'[k] = recvSequence[k]
  <2> HIDE DEF l, f
  <2>1. /\ expectSeq \in [Links -> BOOLEAN] /\ receivedDuplicate \in [Links -> BOOLEAN]
        /\ recvSequence \in [Links -> Number] /\ l \in Links
    BY <1>1 DEF TypeOK
  <2>2. flow => expectSeq'[l] = TRUE /\ receivedDuplicate'[l] = FALSE
    BY <1>6, <1>8, <2>1
  <2>3. flow => recvSequence'[l] = Next1(recvSequence[l])
    BY <1>3, <1>6, <1>8, <2>1
  <2>4. held'[l] = HeldAfter(held[l], f)
    BY <1>1, <1>6
  <2>5. \A k \in Links : k # l =>
            /\ held'[k] = held[k] /\ expectSeq'[k] = expectSeq[k]
            /\ receivedDuplicate'[k] = receivedDuplicate[k] /\ recvSequence'[k] = recvSequence[k]
    BY <1>1, <1>6, <2>1
  <2> QED BY <2>2, <2>3, <2>4, <2>5
<1> DEFINE d == HeldAfter(held[l], f)
<1>12. held'[l] = d
  BY <1>11
<1> HIDE DEF d
<1>13. /\ seen'[i] = Append(seen[i], m) /\ (\A u \in Box : u # i => seen'[u] = seen[u])
       /\ Shown(seen'[i]) = Shown(seen[i]) \cup {m.head}
  <2>1. seen \in [Box -> Seq(Message)]
    BY <1>1 DEF TypeOK
  <2>2. seen' = [seen EXCEPT ![i] = Append(@, m)]
    BY <1>1, <1>10 DEF Forward
  <2>3. seen'[i] = Append(seen[i], m) /\ (\A u \in Box : u # i => seen'[u] = seen[u])
    BY <2>1, <2>2
  <2> QED BY <2>1, <2>3, ShownAfter
<1>14. w.src[m.head] \in w.side[l]
  <2>1. \A x \in Completed(held[l], f) : w.src[x.head] \in w.side[l]
    BY <1>1, <1>2, ReadInOrder DEF Arrived
  <2> QED BY <2>1
<1>15. /\ \A u \in Box : u # i => Passed(w, u, seen[u], todo[u])' = Passed(w, u, seen[u], todo[u])
       /\ Passed(w, i, seen[i], todo[i])' \subseteq Passed(w, i, seen[i], todo[i]) \cup {m.head}
  BY <1>6, <1>13 DEF Passed
<1>16. SentOver(w, r)' = SentOver(w, r)
  <2>1. w.side[l] \cap w.side[r] = {}
    BY <1>1 DEF Sides, nbr
  <2>2. w.src[m.head] \notin w.side[r]
    BY <1>14, <2>1
  <2> QED BY <1>6, <1>13, <2>2 DEF SentOver, Passed
<1>17. SentOver(w, l)' = SentOver(w, l)
  BY <1>1, <1>15 DEF SentOver
<1>18. ack \in Frame /\ IsAck(ack)
  <2>1. recvSequence[l] \in Number
    BY <1>1 DEF TypeOK
  <2> QED BY <2>1 DEF Frame, IsAck
<1> HIDE DEF ack
<1>19. /\ sent \in [Links -> Seq(Frame)] /\ sent[l] = Tail(chan[l])
       /\ flow => sent[r] = Append(chan[r], ack)
       /\ ~ flow => sent[r] = chan[r]
       /\ \A k \in Links : k # l /\ k # r => sent[k] = chan[k]
  <2>1. Tail(chan[l]) \in Seq(Frame) /\ Append(chan[r], ack) \in Seq(Frame)
    BY <1>2, <1>18, TailFrames, AppendProperties
  <2> DEFINE t == Tail(chan[l])
             a == Append(chan[r], ack)
  <2>2. rest = [chan EXCEPT ![l] = t] /\ t \in Seq(Frame) /\ a \in Seq(Frame)
    BY <2>1
  <2> HIDE DEF t, l, r
  <2>3. /\ rest \in [Links -> Seq(Frame)] /\ rest[l] = t /\ rest[r] = chan[r]
        /\ \A k \in Links : k # l => rest[k] = chan[k]
    BY <1>1, <2>2
  <2>4. Append(rest[r], ack) = a
    BY <2>3
  <2> HIDE DEF a, rest
  <2>5. sent = IF flow THEN [rest EXCEPT ![r] = a] ELSE rest
    BY <2>4
  <2> HIDE DEF sent
  <2>6. CASE flow
    BY <1>1, <2>2, <2>3, <2>5, <2>6 DEF t, a
  <2>7. CASE ~ flow
    BY <1>1, <2>2, <2>3, <2>5, <2>7 DEF t
  <2> QED BY <2>6, <2>7
<1> HIDE DEF sent, rest, sent2
<1>20. /\ \A k \in Links :
              /\ k \in Outgoing(i, j) => SameAcks(sent[k], chan'[k])
              /\ k \notin Outgoing(i, j) => chan'[k] = sent[k] /\ awaitingAck'[k] = awaitingAck[k]
  <2>1. SentOn(i, j, m, sent)
    BY <1>1, <1>6, <1>10, <1>19, ForwardLinks
  <2> QED BY <2>1 DEF SentOn
<1>21. l \notin Outgoing(i, j) /\ r \notin Outgoing(i, j)
  BY <1>1 DEF Outgoing, Receivers
<1>22. flow' = flow /\ nbr' = nbr
  BY <1>6 DEF flow, nbr
<1>23. LinkWell(w, j, i)'
  <2>1. chan'[l] = Tail(chan[l]) /\ awaitingAck'[l] = awaitingAck[l] /\ chan'[r] = sent[r]
    BY <1>1, <1>19, <1>20, <1>21
  <2>2. CASE flow
    <3>1. OneAck(chan'[r])
      BY <1>2, <1>3, <1>18, <1>19, <2>1, <2>2, AcksOfAppend
    <3>2. FlowLink(Tail(chan[l]), chan'[r], HeldAfter(held[l], f), awaitingAck[l], FALSE, TRUE,
                   recvMessageLen[l], sendSequence[l], Next1(recvSequence[l]),
                   SentOver(w, l), Shown(seen[i]) \cup {m.head})
      BY <1>3, <2>2, <3>1
    <3> QED BY <1>6, <1>11, <1>13, <1>17, <1>22, <2>1, <2>2, <3>2 DEF LinkWell
  <2>3. CASE ~ flow
    BY <1>4, <1>6, <1>11, <1>13, <1>17, <1>22, <2>1, <2>3 DEF LinkWell
  <2> QED BY <2>2, <2>3
<1>24. LinkWell(w, i, j)'
  <2>1. chan'[l] = Tail(chan[l]) /\ awaitingAck'[r] = awaitingAck[r] /\ chan'[r] = sent[r]
        /\ Shown(seen'[j]) = Shown(seen[j])
    BY <1>1, <1>13, <1>19, <1>20, <1>21
  <2>2. CASE flow
    <3>1. FlowLink(chan[r], chan[l], held[r], awaitingAck[r], receivedDuplicate[r],
                   expectSeq[r], recvMessageLen[r], sendSequence[r], recvSequence[r],
                   SentOver(w, r), Shown(seen[j]))
      BY <1>1, <2>2 DEF LinkWell
    <3>2. SameAcks(chan[l], Tail(chan[l]))
      <4>1. ~ IsAck(f)
        BY <1>2 DEF IsAck, IsData
      <4> QED BY <1>2, <4>1, AcksOfTail
    <3>3. FlowLink(chan[r], Tail(chan[l]), held[r], awaitingAck[r], receivedDuplicate[r],
                   expectSeq[r], recvMessageLen[r], sendSequence[r], recvSequence[r],
                   SentOver(w, r), Shown(seen[j]))
      BY <3>1, <3>2, FlowAside
    <3>4. FlowLink(Append(chan[r], ack), Tail(chan[l]), held[r], awaitingAck[r],
                   receivedDuplicate[r], expectSeq[r], recvMessageLen[r], sendSequence[r],
                   recvSequence[r], SentOver(w, r), Shown(seen[j]))
      BY <1>2, <1>18, <3>3, FlowAckSent
    <3>5. chan'[r] = Append(chan[r], ack)
      BY <1>19, <2>1, <2>2
    <3>6. /\ held'[r] = held[r] /\ expectSeq'[r] = expectSeq[r]
          /\ receivedDuplicate'[r] = receivedDuplicate[r] /\ recvSequence'[r] = recvSequence[r]
      BY <1>1, <1>11
    <3> QED BY <1>6, <1>16, <1>22, <2>1, <2>2, <3>4, <3>5, <3>6 DEF LinkWell
  <2>3. CASE ~ flow
    <3>1. PlainLink(chan[r], held[r], awaitingAck[r], SentOver(w, r), Shown(seen[j]))
      BY <1>1, <2>3 DEF LinkWell
    <3>2. chan'[r] = chan[r] /\ held'[r] = held[r]
      BY <1>1, <1>11, <1>19, <2>1, <2>3
    <3> QED BY <1>6, <1>16, <1>22, <2>1, <2>3, <3>1, <3>2 DEF LinkWell
  <2> QED BY <2>2, <2>3
<1>25. ASSUME NEW u \in Box, NEW v \in nbr[u], <<u, v>> # l, <<u, v>> # r
       PROVE  LinkWell(w, u, v)'
  <2>1. /\ <<u, v>> \in Links /\ <<v, u>> \in Links /\ v \in Box /\ u # v
        /\ <<v, u>> # l /\ <<v, u>> # r /\ LinkWell(w, u, v)
    BY <1>1, <1>25, OnNeighbors
  <2>2. /\ sent[<<u, v>>] = chan[<<u, v>>] /\ sent[<<v, u>>] = chan[<<v, u>>]
    BY <1>19, <1>25, <2>1
  <2>3. /\ held'[<<u, v>>] = held[<<u, v>>] /\ expectSeq'[<<u, v>>] = expectSeq[<<u, v>>]
        /\ receivedDuplicate'[<<u, v>>] = receivedDuplicate[<<u, v>>]
        /\ recvSequence'[<<u, v>>] = recvSequence[<<u, v>>]
    BY <1>11, <1>25, <2>1
  <2>4. CASE u = i
    <3>1. v \in Receivers(i, j) /\ <<v, i>> \notin Outgoing(i, j)
      BY <1>25, <2>1, <2>4 DEF Receivers, Outgoing
    <3>2. SentOver(w, <<i, v>>)' \subseteq SentOver(w, <<i, v>>) \cup {m.head}
      BY <1>15 DEF SentOver
    <3>3. chan'[<<v, i>>] = chan[<<v, i>>] /\ seen'[v] = seen[v]
      BY <1>13, <1>20, <2>1, <2>2, <2>4, <3>1
    <3> QED BY <1>1, <1>6, <1>10, <1>19, <2>1, <2>2, <2>3, <2>4, <3>1, <3>2, <3>3, ForwardOut
  <2>5. CASE u # i
    <3>1. <<u, v>> \notin Outgoing(i, j)
      BY <2>5 DEF Outgoing
    <3>2. SentOver(w, <<u, v>>)' = SentOver(w, <<u, v>>)
      BY <1>15, <2>5 DEF SentOver
    <3>3. SameAcks(chan[<<v, u>>], chan'[<<v, u>>])
      BY <1>20, <2>1, <2>2, SameAcksStill
    <3>4. chan'[<<u, v>>] = chan[<<u, v>>] /\ awaitingAck'[<<u, v>>] = awaitingAck[<<u, v>>]
      BY <1>20, <2>1, <2>2, <3>1
    <3>5. Shown(seen[v]) \subseteq Shown(seen'[v])
      BY <1>13, <2>1
    <3> QED BY <1>6, <2>1, <2>3, <3>2, <3>3, <3>4, <3>5, LinkStill
  <2> QED BY <2>4, <2>5
<1>26. ASSUME NEW u \in Box, NEW v \in nbr[u] PROVE LinkWell(w, u, v)'
  BY <1>23, <1>24, <1>25
<1> QED BY <1>26

LEMMA FromDataArrives ==
  ASSUME Kept, Unmixed, NEW w, AllInOrder(w), Arrivals(w),
         NEW i \in Box, NEW j \in nbr[i], FromData(i, j)
  PROVE  Arrivals(w)'
<1> DEFINE l    == <<j, i>>
           f    == Head(chan[l])
           done == Completed(held[l], f)
<1>1. /\ TypeOK /\ j \in Box /\ i \in nbr[j] /\ l \in Links /\ held[l] \in Message \cup {None}
      /\ InOrder(w, chan, held, seen, todo) /\ chan[l] # <<>> /\ IsData(f)
  <2>1. /\ TypeOK /\ j \in Box /\ i \in nbr[j] /\ l \in Links /\ j # Client
        /\ InOrder(w, chan, held, seen, todo)
    BY OnNeighbors, ConstAssumption DEF Kept, TypeOK, AllInOrder
  <2> QED BY <2>1 DEF FromData, Read, HasInput, IsData, TypeOK
<1>2. \A m \in done : m \in Message
  BY <1>1, ReadInOrder
<1>3. done = {} \/ \E m : done = {m}
  BY DEF Completed
<1>4. /\ UNCHANGED <<scenario, losses, late, lost>> /\ (overlap => overlap')
  BY DEF FromData, Forward
<1>5. CameBy(w)'
  BY FromDataCameBy
<1>6. ASSUME Smooth, Smooth' PROVE \A u \in Box : \A v \in nbr[u] : LinkWell(w, u, v)'
  <2>1. /\ ~ overlap' /\ \A u \in Box : \A v \in nbr[u] : LinkWell(w, u, v)
    BY <1>6 DEF Smooth, Arrivals
  <2>2. Sound(chan[l], held[l], 0) /\ Sides(scenario, w)
    BY <1>1, <1>6 DEF Arrivals, Unmixed
  <2>3. CASE done = {}
    BY <2>1, <2>2, <2>3, FromDataHeld
  <2>4. ASSUME NEW m, done = {m} PROVE \A u \in Box : \A v \in nbr[u] : LinkWell(w, u, v)'
    <3>1. m \in Message
      BY <1>2, <2>4
    <3> QED BY <2>1, <2>2, <2>4, <3>1, FromDataPassed
  <2> QED BY <1>3, <2>3, <2>4
<1> QED BY <1>4, <1>5, <1>6, ArrivalsAfter

LEMMA InitArrives ==
  ASSUME Init, NEW w, AllInOrder(w), OthersLast(w), Sides(scenario, w)
  PROVE  Arrivals(w)
<1>1. /\ scenario \in Scenario /\ w \in Way /\ OnTree(scenario, w) /\ TypeOK
  BY InitOK DEF AllInOrder, InOrder, Shape
<1>2. Len(<<>>) = 0
  OBVIOUS
<1>3. \A u \in Box : Shown(seen[u]) = {}
  BY <1>2 DEF Init, Shown
<1>4. losses <= scenario.losses /\ late <= scenario.late
  <2>1. losses = scenario.losses /\ late = scenario.late
    BY DEF Init
  <2>2. losses \in Nat /\ late \in Nat
    BY <1>1 DEF TypeOK
  <2>3. \A x, y \in Nat : x = y => x <= y
    OBVIOUS
  <2> QED BY <2>1, <2>2, <2>3
<1>5. ASSUME NEW u \in Box PROVE Passed(w, u, seen[u], todo[u]) = {}
  <2> SUFFICES ASSUME NEW p \in Passed(w, u, seen[u], todo[u]) PROVE FALSE
    OBVIOUS
  <2>1. p \in Packet /\ w.src[p] = u /\ w.pos[p] <= Len(scenario.todo[u]) - Len(scenario.todo[u])
    BY <1>3 DEF Passed, Init
  <2> DEFINE n == Len(scenario.todo[u])
             x == w.pos[p]
  <2>2. n \in Nat /\ x \in Nat
    <3>1. scenario.todo[u] \in Seq(Packet)
      BY <1>1 DEF Scenario
    <3> QED BY <1>1, <2>1, <3>1, LenProperties DEF Way
  <2>3. x >= 1
    <3>1. CASE p \in Listed(scenario)
      <4>1. PICK j \in Box : \E k \in 1 .. Len(scenario.todo[j]) : scenario.todo[j][k] = p
        BY <3>1 DEF Listed
      <4>2. PICK k \in 1 .. Len(scenario.todo[j]) : scenario.todo[j][k] = p
        BY <4>1
      <4>3. x = k
        BY <1>1, <4>2 DEF OnTree
      <4> HIDE DEF x
      <4> QED BY <4>2, <4>3
    <3>2. CASE p \notin Listed(scenario)
      <4>1. x > n
        BY <2>1, <3>2 DEF OthersLast
      <4> HIDE DEF x, n
      <4> QED BY <2>2, <4>1
    <3> QED BY <3>1, <3>2
  <2>4. x <= n - n
    BY <2>1
  <2> HIDE DEF n, x
  <2> QED BY <2>2, <2>3, <2>4
<1>6. ASSUME NEW u \in Box, NEW v \in nbr[u] PROVE LinkWell(w, u, v)
  <2> DEFINE l == <<u, v>>
  <2>1. l \in Links /\ <<v, u>> \in Links
    BY <1>1, OnNeighbors
  <2>2. SentOver(w, l) = {}
    BY <1>5 DEF SentOver
  <2>3. /\ chan[l] = <<>> /\ chan[<<v, u>>] = <<>> /\ held[l] = None /\ awaitingAck[l] = FALSE
        /\ receivedDuplicate[l] = FALSE /\ expectSeq[l] = TRUE
        /\ recvSequence[l] = sendSequence[l]
    BY <2>1 DEF Init
  <2>4. NoAck(<<>>) /\ OnlyAcks(<<>>) /\ ~ LastAtHead(<<>>)
    BY <1>2 DEF NoAck, OnlyAcks, LastAtHead
  <2>5. /\ Idle(chan[l], chan[<<v, u>>], held[l], awaitingAck[l], receivedDuplicate[l],
                expectSeq[l], sendSequence[l], recvSequence[l])
        /\ PlainLink(chan[l], held[l], awaitingAck[l], {}, Shown(seen[v]))
    BY <2>3, <2>4 DEF Idle, PlainLink
  <2> QED BY <2>2, <2>5 DEF LinkWell, FlowLink
<1>7. \A l \in Links : lost[l] = 0
  BY DEF Init
<1> QED BY <1>3, <1>4, <1>6, <1>7 DEF Arrivals, CameBy

LEMMA ScenarioStays == [Next]_vars => scenario' = scenario
<1>1. ASSUME NEW i \in Box, Round(i) PROVE scenario' = scenario
  <2>1. ASSUME NEW j \in nbr[i], FromSeq(i, j) \/ FromAck(i, j) \/ FromData(i, j)
        PROVE  scenario' = scenario
    BY <2>1 DEF FromSeq, FromAck, FromData
  <2>2. Select(i) \/ FromClient(i) \/ Timeout(i) => scenario' = scenario
    BY DEF Select, FromClient, Timeout
  <2> QED BY <1>1, <2>1, <2>2 DEF Round
<1>2. ASSUME NEW i \in Box, NEW j \in Box, Lose(i, j) PROVE scenario' = scenario
  BY <1>2 DEF Lose
<1> QED BY <1>1, <1>2 DEF Next, vars

LEMMA NextArrives ==
  ASSUME W > 1, Kept, Unmixed, NEW w, AllInOrder(w), Arrivals(w), [Next]_vars
  PROVE  Arrivals(w)'
<1>1. ASSUME NEW i \in Box, Round(i) PROVE Arrivals(w)'
  <2>1. CASE Select(i)
    BY <2>1, SelectArrives DEF Select
  <2>2. CASE FromClient(i)
    BY <2>2, FromClientArrives
  <2>3. ASSUME NEW j \in nbr[i], FromSeq(i, j) PROVE Arrivals(w)'
    BY <2>3, FromSeqArrives
  <2>4. ASSUME NEW j \in nbr[i], FromAck(i, j) PROVE Arrivals(w)'
    BY <2>4, FromAckArrives
  <2>5. ASSUME NEW j \in nbr[i], FromData(i, j) PROVE Arrivals(w)'
    BY <2>5, FromDataArrives
  <2>6. CASE Timeout(i)
    BY <2>6, TimeoutArrives
  <2> QED BY <1>1, <2>1, <2>2, <2>3, <2>4, <2>5, <2>6 DEF Round
<1>2. ASSUME NEW i \in Box, NEW j \in Box, Lose(i, j) PROVE Arrivals(w)'
  BY <1>2, LoseArrives
<1>3. CASE UNCHANGED vars
  <2>1. CameBy(w)'
    BY <1>3, CameByStill DEF vars
  <2>2. ASSUME NEW u, NEW v, LinkWell(w, u, v) PROVE LinkWell(w, u, v)'
    <3>1. SentOver(w, <<u, v>>)' = SentOver(w, <<u, v>>) /\ flow' = flow
      BY <1>3, SentOverStill DEF vars, flow
    <3> QED BY <1>3, <2>2, <3>1 DEF LinkWell, vars, flowVars
  <2>3. UNCHANGED <<scenario, losses, late, lost, overlap>>
    BY <1>3 DEF vars
  <2> QED BY <2>1, <2>2, <2>3, ArrivalsAfter DEF Arrivals
<1> QED BY <1>1, <1>2, <1>3 DEF Next

(* Every box that has neighbors is reached from every box that sends.       *)
Joined(x) ==
  \A i \in Box : x.todo[i] # <<>> =>
    \A s \in SUBSET Box : i \in s /\ (\A u \in s : x.nbr[u] \subseteq s) =>
      \A j \in Box : x.nbr[j] # {} => j \in s

LEMMA AllShown ==
  ASSUME Kept, Unmixed, NEW w, AllInOrder(w), Arrivals(w), Joined(scenario), Quiet, Smooth
  PROVE  Everywhere
<1>1. /\ TypeOK /\ scenario \in Scenario /\ w \in Way /\ OnTree(scenario, w)
      /\ seen \in [Box -> Seq(Message)]
  BY DEF Kept, TypeOK, AllInOrder, InOrder, Shape
<1>2. ASSUME NEW u \in Box, NEW v \in nbr[u]
      PROVE  SentOver(w, <<u, v>>) \subseteq Shown(seen[v])
  <2> DEFINE l == <<u, v>>
  <2>1. l \in Links /\ <<v, u>> \in Links
    BY <1>1, OnNeighbors
  <2>2. chan[l] = <<>> /\ chan[<<v, u>>] = <<>> /\ ~ awaitingAck[l] /\ Len(<<>>) = 0
    BY <2>1 DEF Quiet
  <2>3. LinkWell(w, u, v) /\ Sound(chan[l], held[l], 0)
    BY <2>1 DEF Arrivals, Unmixed
  <2>4. CASE flow
    BY <2>2, <2>3, <2>4 DEF LinkWell, FlowLink, Called, Reading, Idle, Answered
  <2>5. CASE ~ flow
    <3>1. held[l] = None
      BY <2>2, <2>3 DEF Sound, Waiting, LastAtHead
    <3>2. Begun(chan[l], held[l]) = {}
      BY <2>2, <3>1 DEF Begun
    <3> QED BY <2>3, <2>5, <3>2 DEF LinkWell, PlainLink
  <2> QED BY <2>4, <2>5
<1> SUFFICES ASSUME NEW i \in Box, NEW j \in Box, NEW a \in DOMAIN scenario.todo[i],
                    i # j, nbr[j] # {}
             PROVE  \E b \in DOMAIN seen[j] : seen[j][b] = Whole(scenario.todo[i][a])
  BY DEF Everywhere
<1> DEFINE p == scenario.todo[i][a]
           s == {u \in Box : p \in Passed(w, u, seen[u], todo[u])}
<1>3. /\ scenario.todo[i] \in Seq(Packet) /\ a \in 1 .. Len(scenario.todo[i]) /\ p \in Packet
      /\ w.src[p] = i /\ w.pos[p] = a /\ Len(scenario.todo[i]) \in Nat /\ scenario.todo[i] # <<>>
  <2>1. scenario.todo[i] \in Seq(Packet)
    BY <1>1 DEF Scenario
  <2>2. a \in 1 .. Len(scenario.todo[i]) /\ Len(scenario.todo[i]) \in Nat
    BY <2>1, LenProperties
  <2>3. p \in Packet
    BY <2>1, <2>2, ElementOfSeq
  <2>4. w.src[p] = i /\ w.pos[p] = a
    BY <1>1, <2>2 DEF OnTree
  <2>5. scenario.todo[i] # <<>>
    <3>1. Len(<<>>) = 0
      OBVIOUS
    <3> QED BY <2>2, <3>1
  <2> QED BY <2>1, <2>2, <2>3, <2>4, <2>5
<1> HIDE DEF p
<1>4. i \in s
  <2>1. Len(todo[i]) = 0
    BY DEF Quiet
  <2>2. w.pos[p] <= Len(scenario.todo[i]) - Len(todo[i])
    BY <1>3, <2>1
  <2> QED BY <1>3, <2>2 DEF Passed
<1>5. ASSUME NEW u \in s, NEW v \in nbr[u] PROVE v \in s
  <2>1. u \in Box /\ v \in Box /\ u \in nbr[v] /\ p \in Passed(w, u, seen[u], todo[u])
    BY <1>1, OnNeighbors
  <2>2. CASE i \in w.side[<<u, v>>]
    <3>1. p \in Shown(seen[v])
      BY <1>2, <1>3, <2>1, <2>2 DEF SentOver
    <3>2. v \notin w.side[<<u, v>>]
      BY <1>1, <2>1 DEF OnTree, nbr
    <3>3. i # v
      BY <2>2, <3>2
    <3>4. p \in Passed(w, v, seen[v], todo[v])
      BY <1>3, <3>1, <3>3 DEF Passed
    <3> QED BY <2>1, <3>4
  <2>3. CASE i \notin w.side[<<u, v>>]
    <3>1. u \in w.side[<<u, v>>]
      BY <1>1, <2>1 DEF OnTree, nbr
    <3>2. p \in Shown(seen[u])
      BY <1>3, <2>1, <2>3, <3>1 DEF Passed
    <3>3. PICK t \in nbr[u] : i \in w.side[<<t, u>>]
      BY <1>3, <2>1, <3>2 DEF Arrivals, CameBy
    <3>4. t = v
      <4>1. v # t => w.side[<<t, u>>] \subseteq w.side[<<u, v>>]
        BY <1>1, <2>1 DEF OnTree, nbr
      <4> QED BY <2>3, <3>3, <4>1
    <3>5. p \in CameOver(w, <<v, u>>, seen[u])
      BY <1>3, <3>2, <3>3, <3>4 DEF CameOver
    <3>6. Forwarded(w, chan, held, seen, todo, v, u)
      BY <2>1 DEF AllInOrder, InOrder
    <3>7. p \in Passed(w, v, seen[v], todo[v])
      BY <3>5, <3>6 DEF Forwarded
    <3> QED BY <2>1, <3>7
  <2> QED BY <2>2, <2>3
<1>6. j \in s
  <2>1. s \in SUBSET Box
    OBVIOUS
  <2>2. \A u \in s : scenario.nbr[u] \subseteq s
    <3>1. \A u \in s : nbr[u] \subseteq s
      BY <1>5
    <3> QED BY <3>1 DEF nbr
  <2> HIDE DEF s
  <2> QED BY <1>3, <1>4, <2>1, <2>2 DEF Joined, nbr
<1>7. p \in Shown(seen[j])
  BY <1>3, <1>6 DEF Passed
<1>8. PICK b \in 1 .. Len(seen[j]) : seen[j][b].head = p
  BY <1>7 DEF Shown
<1>9. seen[j] \in Seq(Message) /\ seen[j][b] \in Message /\ b \in DOMAIN seen[j]
  <2>1. seen[j] \in Seq(Message)
    BY <1>1
  <2> QED BY <2>1, ElementOfSeq, LenProperties
<1>10. IsWhole(seen[j][b])
  <2>1. \A l \in Links : ~ (lost[l] >= 2)
    BY DEF Arrivals
  <2>2. SeenWhole
    BY <2>1 DEF Unmixed, TwoLost
  <2> QED BY <2>2 DEF SeenWhole
<1>11. seen[j][b] = Whole(p)
  BY <1>8, <1>9, <1>10 DEF IsWhole, Whole, Message
<1> QED BY <1>9, <1>11 DEF p

(* Every scenario is one tree, and perhaps boxes that neither send nor have *)
(* neighbors; every packet is sent once.                                    *)
OneTree == \A x \in Scenarios : Joined(x) /\ \E w \in Way : OnTree(x, w) /\ Sides(x, w)

(* On every tree, when no frame was lost, no timeout came early and no      *)
(* packet was announced before the one before it was acknowledged, the      *)
(* network comes to rest only when every packet has reached the clients of  *)
(* all other boxes, with flow control and without.                          *)
THEOREM NothingMissingOnTrees ==
  ASSUME W > 1, OneTree
  PROVE  Spec => []NothingMissing
<1> DEFINE Good == /\ Unmixed /\ Joined(scenario)
                   /\ \E w : AllInOrder(w) /\ Arrivals(w)
<1>1. Init => Kept /\ Good
  <2> SUFFICES ASSUME Init PROVE Kept /\ Good
    OBVIOUS
  <2>1. scenario \in Scenarios /\ scenario \in Scenario
    BY ScenarioAssumption DEF Init
  <2>2. PICK u \in Way : OnTree(scenario, u) /\ Sides(scenario, u)
    BY <2>1 DEF OneTree
  <2>3. PICK w \in Way : OnTree(scenario, w) /\ OthersLast(w) /\ w.side = u.side
    BY <2>1, <2>2, OthersBehind
  <2>4. AllInOrder(w)
    BY <2>3, InitInOrder
  <2>5. Sides(scenario, w)
    BY <2>2, <2>3 DEF Sides
  <2>6. Arrivals(w)
    BY <2>3, <2>4, <2>5, InitArrives
  <2>7. Joined(scenario)
    BY <2>1 DEF OneTree
  <2> QED BY <2>4, <2>6, <2>7, InitOK, InitUnmixed DEF Kept
<1>2. Kept /\ Good /\ [Next]_vars => Kept' /\ Good'
  <2> SUFFICES ASSUME Kept, Good, [Next]_vars PROVE Kept' /\ Good'
    OBVIOUS
  <2>1. PICK w : AllInOrder(w) /\ Arrivals(w)
    OBVIOUS
  <2>2. Kept'
    BY NextKeeps
  <2>3. AllInOrder(w)' /\ Arrivals(w)'
    BY <2>1, NextInOrder, NextArrives
  <2>4. Unmixed'
    BY <2>2, NextUnmixed DEF Kept
  <2>5. scenario' = scenario
    BY ScenarioStays
  <2>6. Joined(scenario)'
    BY <2>5
  <2>7. Good'
    BY <2>3, <2>4, <2>6
  <2> QED BY <2>2, <2>7
<1>3. Kept /\ Good => NothingMissing
  BY AllShown DEF NothingMissing, Smooth
<1> HIDE DEF Good
<1> QED BY <1>1, <1>2, <1>3, PTL DEF Spec
=============================================================================
