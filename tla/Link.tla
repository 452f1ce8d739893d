---------------------------------- MODULE Link ----------------------------------
(***************************************************************************)
(* How a wrapped client packet crosses the WDS links of the tree: it is    *)
(* cut in two when it is too long for one frame (send_message), put        *)
(* together again (update_k_for_n_state), the frames are numbered to count *)
(* the lost ones (sequence_check), and, when flow control (db[22]) is on,  *)
(* every packet is announced by a sequence message and acknowledged before *)
(* anything else is read from the devices upstream (sequence.c).           *)
(*                                                                         *)
(* Every box is one process.  A round of its main loop chooses, in Select, *)
(* the devices that are readable and that ack_read_ok allows, and then     *)
(* reads one frame of each of them: what a read changes (an acknowledgement*)
(* now awaited) no longer matters to the rest of the round.                *)
(*                                                                         *)
(* The boxes are linked by WDS devices, and one frame is sent to each      *)
(* neighbor: db[60] is 0. (With 1, its default, all hear one frame, which  *)
(* has no number; that is Forwarding.) Where flow control is on, sequence  *)
(* messages and acknowledgements come on the same device as packets:       *)
(* db[47] is 0. (With 1, its default, they come on a cloud_wds device      *)
(* each, and ack_read_ok reads nothing from those while an acknowledgement *)
(* is awaited, so that the box never gets it.) Without flow control db[47] *)
(* may be either, since nothing but packets is sent then.                  *)
(***************************************************************************)
EXTENDS Naturals, Sequences, FiniteSets

CONSTANTS Box,          \* the cloud boxes
          Client,       \* the device of a box behind which its clients are
          Packet,       \* client packets
          LongPacket,   \* those that are longer than MAX_SENDTO
          W,            \* sequence numbers are counted modulo W (256)
          MAX_SEQUENCE_ERROR,
          None,         \* no packet, no number
          Scenarios     \* what Init chooses from

ASSUME ConstAssumption ==
  /\ Client \notin Box
  /\ LongPacket \subseteq Packet
  /\ W \in Nat \ {0}
  /\ MAX_SEQUENCE_ERROR \in Nat

Links == {l \in Box \X Box : l[1] # l[2]}

(* A packet is what its first frame and its last frame carry: the packet   *)
(* put together from the pieces of two has two different halves.           *)
Whole(p)   == [head |-> p, tail |-> p]
Message    == [head : Packet, tail : Packet]
IsLong(m)  == m.head \in LongPacket
Length(m)  == IF IsLong(m) THEN 2 ELSE 1

Number     == 0 .. W - 1
ASSUME NoneAssumption == None \notin Number \cup Message

Frame == [kind : {"data"}, m : Message, k : 1 .. 2, n : 1 .. 2, num : Number]
           \cup [kind : {"seq"}, num : Number, len : 0 .. 2]
           \cup [kind : {"ack"}, num : Number]

Scenario == [nbr  : {g \in [Box -> SUBSET Box] :
                       \A i, j \in Box : j \in g[i] => j # i /\ i \in g[j]},
             flow : BOOLEAN,
             todo : [Box -> Seq(Packet)],
             num  : Number,
             losses : Nat,
             late   : Nat]
ASSUME ScenarioAssumption == Scenarios \subseteq Scenario

VARIABLES
  scenario,  \* what Init chose
  todo,      \* what the clients of a box are going to send
  chan,      \* frames in the air and in the sockets, first in first out
  ready,     \* devices this round of the main loop has still to read
  \* struct cloud_box, per link: the sender's fields ...
  sendSequence, awaitingAck, messageLen,
  \* ... and the receiver's
  recvSequence, recvSequenceError, receivedDuplicate, expectSeq,
  recvMessageLen,
  ackTimer,  \* times[noncloud_message] is set
  held,      \* device_t message, None when expect_n is -1
  sendData,  \* send_data_sequence
  lastData,  \* recv_data_sequence, None before have_recv_data_sequence
  received,  \* data_packets_received
  missed,    \* data_packets_lost
  seen,      \* packets a box has given to its clients, in order
  losses,    \* frames that may still be lost
  late,      \* timeouts that may still happen
  \* history: the first number a link received, the frames it lost, and
  \* whether a packet was sent on a link that awaited an acknowledgement
  firstData, lost, overlap

flowVars  == <<sendSequence, awaitingAck, messageLen, recvSequence, recvSequenceError,
               receivedDuplicate, expectSeq, recvMessageLen, ackTimer>>
tallyVars == <<lastData, received, missed, firstData>>
vars == <<scenario, todo, chan, ready, flowVars, held, sendData, tallyVars,
          seen, losses, late, lost, overlap>>

nbr  == scenario.nbr     \* the stp_list of every box, all of them WDS devices
flow == scenario.flow    \* db[22]

TypeOK ==
  /\ scenario \in Scenario
  /\ todo \in [Box -> Seq(Packet)]
  /\ chan \in [Links -> Seq(Frame)]
  /\ ready \in [Box -> SUBSET (Box \cup {Client})]
  /\ sendSequence \in [Links -> Number]
  /\ awaitingAck \in [Links -> BOOLEAN]
  /\ messageLen \in [Links -> 0 .. 2]
  /\ recvSequence \in [Links -> Number]
  /\ recvSequenceError \in [Links -> 0 .. MAX_SEQUENCE_ERROR]
  /\ receivedDuplicate \in [Links -> BOOLEAN]
  /\ expectSeq \in [Links -> BOOLEAN]
  /\ recvMessageLen \in [Links -> 0 .. 2]
  /\ ackTimer \in [Box -> BOOLEAN]
  /\ held \in [Links -> Message \cup {None}]
  /\ sendData \in [Links -> Number]
  /\ lastData \in [Links -> Number \cup {None}]
  /\ firstData \in [Links -> Number \cup {None}]
  /\ received \in [Links -> Nat]
  /\ missed \in [Links -> Nat]
  /\ seen \in [Box -> Seq(Message)]
  /\ losses \in Nat
  /\ late \in Nat
  /\ lost \in [Links -> Nat]
  /\ overlap \in BOOLEAN

Init ==
  /\ scenario \in Scenarios
  /\ todo = scenario.todo
  /\ sendData = [l \in Links |-> scenario.num]
  /\ losses = scenario.losses
  /\ late = scenario.late
  /\ chan = [l \in Links |-> <<>>]
  /\ ready = [i \in Box |-> {}]
  /\ sendSequence = [l \in Links |-> 0]
  /\ awaitingAck = [l \in Links |-> FALSE]
  /\ messageLen = [l \in Links |-> 0]
  /\ recvSequence = [l \in Links |-> 0]
  /\ recvSequenceError = [l \in Links |-> 0]
  /\ receivedDuplicate = [l \in Links |-> FALSE]
  /\ expectSeq = [l \in Links |-> TRUE]
  /\ recvMessageLen = [l \in Links |-> 0]
  /\ ackTimer = [i \in Box |-> FALSE]
  /\ held = [l \in Links |-> None]
  /\ lastData = [l \in Links |-> None]
  /\ firstData = [l \in Links |-> None]
  /\ received = [l \in Links |-> 0]
  /\ missed = [l \in Links |-> 0]
  /\ seen = [i \in Box |-> <<>>]
  /\ lost = [l \in Links |-> 0]
  /\ overlap = FALSE

-----------------------------------------------------------------------------
(* A round of the main loop: which devices are read.                        *)

AwaitingAck(i) == \E j \in nbr[i] : awaitingAck[<<i, j>>]

\* Variant of AckReadOk: the awaited WDS devices are forgotten.
ReadsNothing(i, d) == flow => ~AwaitingAck(i)

(* While a box awaits an acknowledgement it reads only the WDS devices that *)
(* may bring it (with db[47] 0: else what brings it is not one of them).    *)
AckReadOk(i, d) ==
  flow /\ AwaitingAck(i) => d \in nbr[i] /\ awaitingAck[<<i, d>>]

HasInput(i, d) ==
  IF d = Client THEN todo[i] # <<>> ELSE d \in nbr[i] /\ chan[<<d, i>>] # <<>>

ReadSet(i) == {d \in nbr[i] \cup {Client} : HasInput(i, d) /\ AckReadOk(i, d)}

Select(i) ==
  /\ ready[i] = {}
  /\ ReadSet(i) # {}
  /\ ready' = [ready EXCEPT ![i] = ReadSet(i)]
  /\ UNCHANGED <<scenario, todo, chan, flowVars, held, sendData, tallyVars,
                 seen, losses, late, lost, overlap>>

-----------------------------------------------------------------------------
(* Sending.                                                                 *)

Next1(x) == (x + 1) % W

(* send_message: one frame, or two when the packet is too long.             *)
SendMessage(num, m) ==
  IF IsLong(m)
  THEN <<[kind |-> "data", m |-> m, k |-> 1, n |-> 2, num |-> num],
         [kind |-> "data", m |-> m, k |-> 2, n |-> 2, num |-> Next1(num)]>>
  ELSE <<[kind |-> "data", m |-> m, k |-> 1, n |-> 1, num |-> num]>>

(* send_seq: what announces the packet when flow control is on.             *)
SendSeq(l, m) ==
  IF flow
  THEN <<[kind |-> "seq", num |-> sendSequence[l], len |-> Length(m)]>>
  ELSE <<>>

(* bcast_forward_message sends to each neighbor but the one the packet came *)
(* from (with db[60] 0: else once, for all of them).                        *)
\* Variant of Receivers: to that one too.
Reflected(i, from) == nbr[i]

Receivers(i, from) == nbr[i] \ {from}

(* The packet is sent to them, on top of the frames "sent" that the same step has sent.      *)
Forward(i, from, m, sent) ==
  LET out == {l \in Links : l[1] = i /\ l[2] \in Receivers(i, from)}
  IN /\ chan' = [l \in Links |->
                   IF l \in out
                   THEN sent[l] \o SendSeq(l, m) \o SendMessage(sendData[l], m)
                   ELSE sent[l]]
     /\ sendData' = [l \in Links |->
                       IF l \in out
                       THEN (sendData[l] + Length(m)) % W ELSE sendData[l]]
     /\ awaitingAck' = [l \in Links |->
                          awaitingAck[l] \/ (flow /\ l \in out)]
     /\ messageLen' = [l \in Links |-> IF flow /\ l \in out THEN Length(m)
                                        ELSE messageLen[l]]
     /\ ackTimer' = [ackTimer EXCEPT ![i] = @ \/ (flow /\ out # {})]
     /\ overlap' = (overlap \/ \E l \in out : awaitingAck[l])
     /\ seen' = IF from = Client THEN seen ELSE [seen EXCEPT ![i] = Append(@, m)]

-----------------------------------------------------------------------------
(* Reading one frame of a device of the round (read_wont_block, recvfrom).  *)

Read(i, d) == /\ d \in ready[i] /\ HasInput(i, d)
              /\ ready' = [ready EXCEPT ![i] = @ \ {d}]

FromClient(i) ==
  /\ Read(i, Client)
  /\ Forward(i, Client, Whole(Head(todo[i])), chan)
  /\ todo' = [todo EXCEPT ![i] = Tail(@)]
  /\ UNCHANGED <<scenario, sendSequence, recvSequence, recvSequenceError,
                 receivedDuplicate, expectSeq, recvMessageLen, held, tallyVars,
                 losses, late, lost>>

\* Variant of Refused: refused for ever.
AlwaysRefused(l, bad) == bad

(* A number that is neither the expected one nor the one before it is       *)
(* refused, until there have been too many of those.                        *)
Refused(l, bad) == bad /\ recvSequenceError[l] < MAX_SEQUENCE_ERROR

(* process_sequence_msg                                                     *)
FromSeq(i, j) ==
  LET l   == <<j, i>>
      f   == Head(chan[l])
      dup == recvSequence[l] = Next1(f.num)
      bad == ~dup /\ recvSequence[l] # f.num
      refused == Refused(l, bad)
  IN /\ Read(i, j)
     /\ f.kind = "seq"
     /\ chan' = [chan EXCEPT ![l] = Tail(@)]
     /\ IF ~expectSeq[l]
        THEN UNCHANGED <<recvSequence, recvSequenceError, receivedDuplicate,
                         expectSeq, recvMessageLen>>
        ELSE /\ receivedDuplicate' = [receivedDuplicate EXCEPT ![l] = @ \/ dup]
             /\ recvSequenceError' =
                  [recvSequenceError EXCEPT
                     ![l] = IF refused THEN @ + 1
                            ELSE IF dup \/ bad THEN @ ELSE 0]
             /\ recvSequence' = [recvSequence EXCEPT
                                   ![l] = IF bad /\ ~refused THEN f.num ELSE @]
             /\ expectSeq' = [expectSeq EXCEPT ![l] = refused]
             /\ recvMessageLen' = [recvMessageLen EXCEPT
                                     ![l] = IF refused THEN @ ELSE f.len]
     /\ UNCHANGED <<scenario, todo, sendSequence, awaitingAck, messageLen, ackTimer, held,
                    sendData, tallyVars, seen, losses, late, lost, overlap>>

\* Variant of TurnOffAckTimer: whatever the other links await.
TurnOffAlways(i) == ackTimer' = [ackTimer EXCEPT ![i] = FALSE]

(* turn_off_ack_timer: the one timer of the box stays on while any link     *)
(* awaits an acknowledgement.                                               *)
TurnOffAckTimer(i) ==
  ackTimer' = [ackTimer EXCEPT ![i] = @ /\ \E j \in nbr[i] : awaitingAck'[<<i, j>>]]

(* process_ack_sequence_msg: the number in the acknowledgement is not read. *)
FromAck(i, j) ==
  LET l == <<i, j>>
  IN /\ Read(i, j)
     /\ Head(chan[<<j, i>>]).kind = "ack"
     /\ chan' = [chan EXCEPT ![<<j, i>>] = Tail(@)]
     /\ awaitingAck' = [awaitingAck EXCEPT ![l] = FALSE]
     /\ sendSequence' = [sendSequence EXCEPT
                           ![l] = IF awaitingAck[l] THEN Next1(@) ELSE @]
     /\ TurnOffAckTimer(i)
     /\ UNCHANGED <<scenario, todo, messageLen, recvSequence, recvSequenceError,
                    receivedDuplicate, expectSeq, recvMessageLen, held,
                    sendData, tallyVars, seen, losses, late, lost, overlap>>

\* Variant of Tally: a negative difference is not taken modulo W.
TallyUnwrapped(l, num) ==
  /\ received' = [received EXCEPT ![l] = @ + 1]
  /\ missed' = [missed EXCEPT
                  ![l] = IF lastData[l] = None \/ num <= lastData[l] + 1 THEN @
                         ELSE @ + (num - lastData[l])]
  /\ lastData' = [lastData EXCEPT ![l] = num]
  /\ firstData' = [firstData EXCEPT ![l] = IF @ = None THEN num ELSE @]

(* sequence_check: the frames lost are counted as the difference of the     *)
(* number received and the last one, so that a gap counts one too many.     *)
Tally(l, num) ==
  /\ received' = [received EXCEPT ![l] = @ + 1]
  /\ missed' = [missed EXCEPT
                  ![l] = IF lastData[l] = None \/ num = Next1(lastData[l]) THEN @
                         ELSE @ + ((num + W - lastData[l]) % W)]
  /\ lastData' = [lastData EXCEPT ![l] = num]
  /\ firstData' = [firstData EXCEPT ![l] = IF @ = None THEN num ELSE @]

\* Variant of Completed: the piece expected next stays the first one.
CompletedFirst(h, f) ==
  IF h = None THEN (IF f.n = 1 THEN {f.m} ELSE {})
  ELSE IF f.n = 2 /\ f.k = 1 THEN {[head |-> h.head, tail |-> f.m.tail]} ELSE {}

(* update_k_for_n_state: the packets that frame f completes (none or one),  *)
(* and the piece then held.  Whatever is not expected drops what is held.   *)
Completed(h, f) ==
  IF h = None THEN (IF f.n = 1 THEN {f.m} ELSE {})
  ELSE IF f.n = 2 /\ f.k = 2 THEN {[head |-> h.head, tail |-> f.m.tail]} ELSE {}

\* Variant of HeldAfter: a piece is held until a last piece comes.
HeldOn(h, f) == IF f.n = 1 \/ f.k = 1 THEN (IF h = None /\ f.n = 2 THEN f.m ELSE h)
                ELSE None

HeldAfter(h, f) == IF h = None /\ f.n = 2 /\ f.k = 1 THEN f.m ELSE None

(* message_ok                                                               *)
MessageOk(l, m) ==
  flow => /\ ~expectSeq[l] /\ recvMessageLen[l] = Length(m)
          /\ ~receivedDuplicate[l]
Acked(l, m) == flow /\ ~expectSeq[l] /\ recvMessageLen[l] = Length(m)

FromData(i, j) ==
  LET l    == <<j, i>>
      f    == Head(chan[l])
      rest == [chan EXCEPT ![l] = Tail(@)]
      done == Completed(held[l], f)
      ackd == \E m \in done : Acked(l, m)
      sent == IF ackd
              THEN [rest EXCEPT ![<<i, j>>] =
                      Append(@, [kind |-> "ack", num |-> recvSequence[l]])]
              ELSE rest
  IN /\ Read(i, j)
     /\ f.kind = "data"
     /\ Tally(l, f.num)
     /\ held' = [held EXCEPT ![l] = HeldAfter(@, f)]
     /\ expectSeq' = [expectSeq EXCEPT ![l] = @ \/ ackd]
     /\ recvSequence' = [recvSequence EXCEPT
                           ![l] = IF ackd /\ ~receivedDuplicate[l] THEN Next1(@) ELSE @]
     /\ receivedDuplicate' = [receivedDuplicate EXCEPT ![l] = @ /\ ~ackd]
     /\ IF \E m \in done : MessageOk(l, m)
        THEN \E m \in done : Forward(i, j, m, sent)
        ELSE /\ chan' = sent
             /\ UNCHANGED <<sendData, awaitingAck, messageLen, ackTimer, overlap, seen>>
     /\ UNCHANGED <<scenario, todo, sendSequence, recvSequenceError,
                    recvMessageLen, losses, late, lost>>

-----------------------------------------------------------------------------
(* The acknowledgement did not come in ACK_TIMEOUT_MSEC: it never will, or  *)
(* it is late.  resend_packets announces the packet again; the copy of the  *)
(* packet it sends after that was taken from the address of a pointer       *)
(* (send_seq(i, (byte * ) &message, msg_len)): no box is its destination    *)
(* and no announcement has its length.                                      *)
Overdue(i) == \A j \in nbr[i] :
                awaitingAck[<<i, j>>] => chan[<<i, j>>] = <<>> /\ chan[<<j, i>>] = <<>>

Timeout(i) ==
  /\ ready[i] = {}
  /\ ackTimer[i]
  /\ Overdue(i) \/ late > 0
  /\ late' = IF Overdue(i) THEN late ELSE late - 1
  /\ chan' = [l \in Links |->
                IF l[1] = i /\ l[2] \in nbr[i] /\ awaitingAck[l]
                THEN Append(chan[l], [kind |-> "seq", num |-> sendSequence[l],
                                      len |-> messageLen[l]])
                ELSE chan[l]]
  /\ UNCHANGED <<scenario, todo, ready, flowVars, held, sendData, tallyVars,
                 seen, losses, lost, overlap>>

(* A frame is lost in the air, before it reaches the socket.                *)
Lose(i, j) ==
  LET l == <<i, j>>
  IN /\ losses > 0
     /\ chan[l] # <<>> /\ i \notin ready[j]
     /\ losses' = losses - 1
     /\ lost' = [lost EXCEPT ![l] = @ + 1]
     /\ chan' = [chan EXCEPT ![l] = Tail(@)]
     /\ UNCHANGED <<scenario, todo, ready, flowVars, held, sendData, tallyVars,
                    seen, late, overlap>>

Round(i) == \/ Select(i)
            \/ FromClient(i)
            \/ \E j \in nbr[i] : FromSeq(i, j) \/ FromAck(i, j) \/ FromData(i, j)
            \/ Timeout(i)

Next == \/ \E i \in Box : Round(i)
        \/ \E i, j \in Box : j \in nbr[i] /\ Lose(i, j)

(* Every box goes on with its main loop, and its timer fires.               *)
Spec == Init /\ [][Next]_vars /\ \A i \in Box : WF_vars(Round(i))

-----------------------------------------------------------------------------
(* Properties.                                                              *)

(* A tree, and packets of which no two are the same: w.side is the boxes    *)
(* behind a link, its near end included, w.src and w.pos who sends a packet *)
(* and as which one.                                                        *)
OnTree(x, w) ==
  /\ \A j \in Box : \A k \in 1 .. Len(x.todo[j]) :
       w.src[x.todo[j][k]] = j /\ w.pos[x.todo[j][k]] = k
  /\ \A u \in Box : \A v \in x.nbr[u] :
       u \in w.side[<<u, v>>] /\ v \notin w.side[<<u, v>>]
  /\ \A u \in Box : \A v, t \in x.nbr[u] : v # t =>
       /\ w.side[<<t, u>>] \subseteq w.side[<<u, v>>]
       /\ w.side[<<t, u>>] \cap w.side[<<v, u>>] = {}
Way == [side : [Links -> SUBSET Box], src : [Packet -> Box], pos : [Packet -> Nat]]

IsWhole(m) == m.head = m.tail

(* The clients of a box get the packets of another box in the order they    *)
(* were sent in, and none of them twice, whatever is lost, late or          *)
(* announced again (process_sequence_msg, message_ok).                      *)
InOrderOnce ==
  \A i, j \in Box : \A x, y \in DOMAIN scenario.todo[j] :
    \A e, f \in DOMAIN seen[i] :
      /\ seen[i][e] = Whole(scenario.todo[j][x])
      /\ seen[i][f] = Whole(scenario.todo[j][y])
      => (x < y <=> e < f)

(* Two losses on one link are needed to join the first frame of one packet  *)
(* to the last frame of another (update_k_for_n_state).                     *)
MixtureNeedsTwoLosses ==
  \A i \in Box : \A a \in DOMAIN seen[i] :
    ~IsWhole(seen[i][a]) => \E l \in Links : lost[l] >= 2

(* Nothing is under way.                                                    *)
Quiet == /\ \A i \in Box : todo[i] = <<>> /\ ready[i] = {}
         /\ \A l \in Links : chan[l] = <<>> /\ ~awaitingAck[l]

(* With no frame lost and no timeout before its time, every packet reaches  *)
(* the clients of every other box of the tree, unless one round of the main *)
(* loop read two devices and announced two packets under one number.        *)
Everywhere == \A i, j \in Box : \A a \in DOMAIN scenario.todo[i] :
                i # j /\ nbr[j] # {} =>
                  \E b \in DOMAIN seen[j] : seen[j][b] = Whole(scenario.todo[i][a])
Undisturbed == losses = scenario.losses /\ late = scenario.late
NothingMissing == Quiet /\ Undisturbed /\ ~overlap => Everywhere

(* sequence_check: of the frames a link lost between two it received, at    *)
(* least as many are counted, and at most twice as many: the difference of  *)
(* the numbers is added, which is one more than the frames missing.         *)
TallyBounds ==
  \A l \in Links : firstData[l] # None =>
    LET gone == ((lastData[l] + W - firstData[l]) % W) + 1 - received[l]
    IN gone <= missed[l] /\ missed[l] <= 2 * gone

(* The one ack timer of a box is on whenever a link of it awaits an         *)
(* acknowledgement: an answer on one link does not turn off the timeout of  *)
(* another (turn_off_ack_timer).                                            *)
TimerCovers == \A i \in Box : AwaitingAck(i) => ackTimer[i]

(* Boxes that wait for each other's acknowledgements and read nothing else  *)
(* (ack_read_ok) do not block each other on a tree, if these come on the    *)
(* device of the neighbor (db[47] is 0; on cloud_wds devices they are never *)
(* read, and a box that sends one packet waits for ever): when no frame is  *)
(* lost and no timeout comes early, all packets are forwarded and           *)
(* acknowledged; and so they are, without flow control, whatever is lost.   *)
Drains == []Undisturbed \/ ~flow => <>Quiet
=============================================================================
