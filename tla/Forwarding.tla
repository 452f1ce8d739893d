------------------------------- MODULE Forwarding -------------------------------
(***************************************************************************)
(* Broadcasts of clients on their way through the tree: a box that gets one*)
(* from a client wraps and numbers it; on the radio it is sent once for all*)
(* tree neighbors that hear it, over the Ethernet unwrapped, so that it    *)
(* looks to the boxes there like one of a client; whoever overhears one    *)
(* takes it too, and drops what is not newer than the last number of its   *)
(* originator. What is newer it takes or drops as it happens: the code     *)
(* forgets to set its answer (cloud_msg.c with the main loop, db[60] and   *)
(* db[50] as they are by default). Beacons of all boxes keep what is known *)
(* of originators.                                                         *)
(***************************************************************************)
EXTENDS SequencesExt

CONSTANTS Box, None,
          Frames,     \* how many broadcasts clients send at most
          Modulus,    \* of the numbers: 2^16 in the code
          Scenarios   \* what Init chooses from

Frame == 1 .. Frames
Num   == 0 .. Modulus - 1

(* The tree, as the neighbor towards each other box; who hears whom, and   *)
(* the parts the radio falls into, as one box of each; the boxes on one    *)
(* Ethernet; whose clients send, and how often; how many frames an inter-  *)
(* face holds unread, more are lost; the beacons not there yet.            *)
Scenario == [toward : [Box -> [Box -> Box]], hears : [Box -> SUBSET Box], part : [Box -> Box],
             wired : SUBSET Box, sources : SUBSET Box, sends : 0 .. Frames, first : Num,
             buffer : Nat, missing : [Box -> SUBSET Box], misses : Nat, reboots : Nat]

ASSUME ConstAssumption ==
  /\ IsFiniteSet(Box) /\ None \notin Box \cup Num /\ Frames \in Nat
  /\ Modulus \in Nat /\ Modulus > 1 /\ Scenarios \subseteq Scenario
  /\ \A x \in Scenarios : \A r \in Box : \A b \in x.hears[r] : x.part[r] = x.part[b]

VARIABLES
  scenario,
  sent,      \* broadcasts sent by clients
  number,    \* originator_sequence_num
  beacons,   \* stp_recv_beacons, in order: originator and its last number
  radio,     \* unread on the wlan interface: wrapped packets
  eth,       \* unread on the eth interface: plain frames
  left,      \* faults that may still happen
  \* history: packets lost; beacons that were not there; and up to the first
  \* such gap how often a box handed on a frame with a number of an originator,
  \* up to twice, how many numbers a box gave, which frames were dropped
  \* though their number was newer
  lost, gaps, got, made, refused

faultVars == <<lost, gaps, refused, left>>
vars == <<scenario, sent, number, beacons, radio, eth, got, made, faultVars>>

Toward(b, o)  == scenario.toward[b][o]
Wired(b)      == b \in scenario.wired
OnEth(b, n)   == Wired(b) /\ Wired(n)
AirNbrs(b)    == {n \in Box \ {b} : Toward(b, n) = n /\ ~ OnEth(b, n)}
Hearers(b)    == {r \in Box : b \in scenario.hears[r]}
Buffer        == scenario.buffer
Known(b)      == {beacons[b][i].originator : i \in DOMAIN beacons[b]}
At(b, o)      == CHOOSE i \in DOMAIN beacons[b] : beacons[b][i].originator = o
LastNum(b, o) == beacons[b][At(b, o)].num

Init ==
  /\ scenario \in Scenarios
  /\ sent = 0
  /\ number = [b \in Box |-> scenario.first]
  /\ beacons = [b \in Box |-> LET os == SetToSeq(Box \ (scenario.missing[b] \cup {b})) IN
                  [i \in DOMAIN os |-> [originator |-> os[i], num |-> None]]]
  /\ radio = [b \in Box |-> <<>>] /\ eth = [b \in Box |-> <<>>]
  /\ left = [misses |-> scenario.misses, reboots |-> scenario.reboots]
  /\ got = [b \in Box |-> [o \in Box |-> [f \in Frame |-> 0]]]
  /\ made = [b \in Box |-> 0]
  /\ lost = 0 /\ refused = {}
  /\ gaps = IF \E b \in Box : scenario.missing[b] # {} THEN 1 ELSE 0

-----------------------------------------------------------------------------
(* new_from_originator: numbers wrap, half of them are newer than the last *)
(* (Greater would forget that they wrap). Of an originator without a       *)
(* beacon, or of whom nothing was heard, everything is new. For a number   *)
(* that is newer the result is never set: either may come out.             *)
Greater(n, last) == n > last
Ahead(n, last) == LET diff == (n - last + Modulus) % Modulus IN
                  diff # 0 /\ diff <= Modulus \div 2
Newer(n, last) == Ahead(n, last)
FirstOf(b, m) ==
  m.originator # b /\ (m.originator \in Known(b) => LastNum(b, m.originator) = None)
LaterOf(b, m) ==
  /\ m.originator # b /\ ~ FirstOf(b, m)
  /\ Newer(m.num, LastNum(b, m.originator))
AnyButOwn(b, m) == {m.originator # b}
NewFromOriginator(b, m) ==
  {new \in BOOLEAN : (FirstOf(b, m) => new) /\ (new => FirstOf(b, m) \/ LaterOf(b, m))}
Unmarked(b, m) == beacons
Marked(b, m) == IF m.originator \in Known(b) /\ (FirstOf(b, m) \/ LaterOf(b, m))
                THEN [beacons EXCEPT ![b][At(b, m.originator)].num = m.num] ELSE beacons

(* stp_nbr_needs_transmit for a packet heard from box s: not if it came    *)
(* from the side of n. Whether n hears s itself is looked up in the beacon *)
(* of s, or the last one if s has none, where that of n is meant.          *)
Needs(b, s, n) ==
  IF n \notin Known(b) THEN TRUE
  ELSE IF s \in Known(b) /\ Toward(b, s) = n THEN FALSE
  ELSE LET looked == IF s \in Known(b) THEN s ELSE beacons[b][Len(beacons[b])].originator
       IN  s \notin scenario.hears[looked]

Hear(rd, rs, m) == [r \in Box |-> IF r \in rs /\ Len(rd[r]) < Buffer
                                  THEN Append(rd[r], m) ELSE rd[r]]
Full(rd, rs) == Cardinality({r \in rs : Len(rd[r]) = Buffer})
Twice(n)     == IF n = 2 THEN 2 ELSE n + 1

(* bcast_forward_message, after the number was looked at: the Ethernet gets*)
(* the plain frame unless it came from there, the radio the wrapped one if *)
(* a neighbor needs it: but not the one it came from.                      *)
PutsOnEth(b, fromEth) == Wired(b) /\ ~ fromEth
ForAir(b, local, s) == {n \in AirNbrs(b) \ {s} : local \/ Needs(b, s, n)}
Forward(b, m, local, s, fromEth, rd, et) ==
  LET on   == PutsOnEth(b, fromEth)
      air  == ForAir(b, local, s) # {}
      rs   == IF air THEN Hearers(b) ELSE {}
      es   == IF on THEN scenario.wired \ {b} ELSE {}
  IN  /\ radio' = Hear(rd, rs, [m EXCEPT !.from = b])
      /\ eth' = Hear(et, es, m.frame)
      /\ lost' = IF Full(rd, rs) + Full(et, es) > 0 THEN 1 ELSE lost
      /\ got' = IF gaps = 0 THEN [got EXCEPT ![b][m.originator][m.frame] = Twice(@)] ELSE got

Wrapped(b, f) == [from |-> b, originator |-> b, num |-> number[b], frame |-> f]
Numbered(b)   == [number EXCEPT ![b] = (@ + 1) % Modulus]

(* More numbers than half of them are not told apart.                      *)
Many    == (Modulus + 1) \div 2 + 1
Made(b) == IF gaps = 0 THEN [made EXCEPT ![b] = IF @ = Many THEN Many ELSE @ + 1] ELSE made

-----------------------------------------------------------------------------
(* A broadcast of a client of this box, or of one on the Ethernet.         *)
Send(b) ==
  /\ b \in scenario.sources /\ sent < scenario.sends
  /\ sent' = sent + 1
  /\ number' = Numbered(b) /\ made' = Made(b)
  /\ Forward(b, Wrapped(b, sent + 1), TRUE, b, FALSE, radio, eth)
  /\ UNCHANGED <<scenario, beacons, left, gaps, refused>>

SendOnEth ==
  /\ scenario.sources = {} /\ sent < scenario.sends
  /\ sent' = sent + 1
  /\ eth' = Hear(eth, scenario.wired, sent + 1)
  /\ lost' = IF Full(eth, scenario.wired) > 0 THEN 1 ELSE lost
  /\ UNCHANGED <<scenario, number, beacons, radio, got, made, left, gaps, refused>>

(* main: what is on the Ethernet is taken for a client's.                  *)
ReadEth(b) ==
  /\ eth[b] # <<>>
  /\ number' = Numbered(b) /\ made' = Made(b)
  /\ Forward(b, Wrapped(b, Head(eth[b])), TRUE, b, TRUE, radio, [eth EXCEPT ![b] = Tail(@)])
  /\ UNCHANGED <<scenario, sent, beacons, left, gaps, refused>>

ReadRadio(b) ==
  /\ radio[b] # <<>>
  /\ LET m == Head(radio[b]) rd == [radio EXCEPT ![b] = Tail(@)] IN
       \E new \in NewFromOriginator(b, m) :
         /\ beacons' = Marked(b, m)
         /\ IF new THEN Forward(b, m, FALSE, m.from, FALSE, rd, eth)
                   ELSE radio' = rd /\ UNCHANGED <<eth, got, lost>>
         /\ refused' = IF gaps = 0 /\ LaterOf(b, m) /\ ~ new THEN refused \cup {m.frame}
                      ELSE refused
  /\ UNCHANGED <<scenario, sent, number, made, left, gaps>>

(* process_stp_beacon_msg: the first beacon of a box.                      *)
FirstBeacon(b) ==
  /\ \E o \in Box \ (Known(b) \cup {b}) :
       beacons' = [beacons EXCEPT ![b] = Append(@, [originator |-> o, num |-> None])]
  /\ UNCHANGED <<scenario, sent, number, radio, eth, got, made, faultVars>>

-----------------------------------------------------------------------------
(* Faults: a packet is not heard; a box starts again, and is back in the   *)
(* tree before the others notice.                                          *)
Miss(b) ==
  /\ left.misses > 0 /\ radio[b] # <<>>
  /\ left' = [left EXCEPT !.misses = @ - 1]
  /\ radio' = [radio EXCEPT ![b] = Tail(@)]
  /\ lost' = 1
  /\ UNCHANGED <<scenario, sent, number, beacons, eth, got, made, gaps, refused>>

Reboot(b) ==
  /\ left.reboots > 0
  /\ left' = [left EXCEPT !.reboots = @ - 1]
  /\ number' = [number EXCEPT ![b] = 0]
  /\ beacons' = [beacons EXCEPT ![b] = <<>>]
  /\ radio' = [radio EXCEPT ![b] = <<>>]
  /\ eth' = [eth EXCEPT ![b] = <<>>]
  /\ lost' = 1 /\ gaps' = 1
  /\ UNCHANGED <<scenario, sent, got, made, refused>>

Next == \/ SendOnEth
        \/ \E b \in Box : \/ Send(b) \/ ReadEth(b) \/ ReadRadio(b) \/ FirstBeacon(b)
                          \/ Miss(b) \/ Reboot(b)

(* What has arrived is read; beacons keep coming.                          *)
Fairness == \A b \in Box : WF_vars(ReadEth(b)) /\ WF_vars(ReadRadio(b)) /\ WF_vars(FirstBeacon(b))
Spec == Init /\ [][Next]_vars /\ Fairness

-----------------------------------------------------------------------------
(* Properties                                                              *)

Silent    == \A b \in Box : radio[b] = <<>> /\ eth[b] = <<>>
Has(b, f) == \E o \in Box : got[b][o][f] > 0

(* No two boxes on the Ethernet hear each other, directly or through       *)
(* others; and two that do, each with tree neighbors on the radio.         *)
Apart  == \A w, v \in scenario.wired : scenario.part[w] = scenario.part[v] => w = v
Bridge == \E w, v \in scenario.wired : /\ w \in scenario.hears[v] /\ v \in scenario.hears[w]
                                       /\ AirNbrs(w) # {} /\ AirNbrs(v) # {}

(* As long as the boxes know the originators: a box hands a frame on under *)
(* the numbers of an originator no more often than that one has numbered   *)
(* it, whatever is relayed, overheard, late or lost and wherever numbers   *)
(* wrap, until the originator has used half of them. Where the boxes on    *)
(* the Ethernet are apart, the clients of each box see a frame once.       *)
AtMostOnce ==
  gaps = 0 =>
    /\ \A o \in Box : 2 * made[o] <= Modulus + 1 =>
         \A b \in Box : \A f \in Frame : got[b][o][f] <= got[o][o][f]
    /\ Apart => \A b, o \in Box : \A f \in Frame :
         got[b][o][f] > 0 => got[b][o][f] = 1 /\ \A p \in Box \ {o} : got[b][p][f] = 0

(* If nothing is lost, what clients sent has come to every box, though the *)
(* boxes leave out whom they think others have served: but for a frame     *)
(* that some box dropped because its number was newer.                     *)
Delivered ==
  Silent /\ lost = 0 /\ gaps = 0 =>
    \A b \in Box : \A f \in (1 .. sent) \ refused : Has(b, f)

(* Packets of an originator nobody knows yet are new each time, and two    *)
(* boxes pass them back and forth: but only until its beacon has come. Not *)
(* so where two boxes hear each other by radio and by Ethernet: what one   *)
(* puts on the wire the other numbers anew and sends back by radio. That   *)
(* ends with a packet lost or dropped, or never.                           *)
CalmsDown ==
  /\ Apart => []<> Silent
  /\ [](Bridge /\ Silent /\ gaps = 0 => sent = 0 \/ lost = 1 \/ refused # {})
=============================================================================
