------------------------------ MODULE AdHocClient ------------------------------
(***************************************************************************)
(* Clients that speak plain 802.11 ad-hoc mode: any box that hears one may *)
(* serve it, the beacons say which box does, and a box that puts out a     *)
(* broadcast in the name of a client first tells those that hear it to     *)
(* ignore it (ad_hoc_client.c, with its callers in the main loop and in    *)
(* the beacons).                                                           *)
(*                                                                         *)
(* The tree of boxes is given; arcs are only added between its parts.      *)
(* Strengths are the code's numbers: 1 is a station not heard.             *)
(***************************************************************************)
EXTENDS Integers, Sequences, FiniteSets

CONSTANTS Box, Client, None,
          PerBox,      \* AD_HOC_CLIENTS_PER_BOX
          Across,      \* AD_HOC_CLIENTS_ACROSS_CLOUD
          MaxFlight,   \* beacons of a box on one wire at a time
          Scenarios    \* what Init chooses from

Name   == Box \cup Client
Weak   == 1            \* get_sig_strength of a station not in nbr_device_list
Low    == 5            \* here an entry is deleted
Budget == [moves : Nat, offs : Nat, casts : Nat, faults : Nat]
Scenario == [arcs : SUBSET SUBSET Box, new : SUBSET SUBSET Box,
             serving : [Client -> Box \cup {None}],
             hears : [Box -> [Name -> Nat]], to : [Box -> [Name -> Nat]],
             left : Budget]

ASSUME ConstAssumption ==
  /\ IsFiniteSet(Box) /\ IsFiniteSet(Client)
  /\ Box \cap Client = {} /\ None \notin Name
  /\ PerBox \in Nat /\ Across \in Nat /\ MaxFlight \in Nat
  /\ Scenarios \subseteq Scenario
  /\ \A s \in Scenarios :
       /\ Cardinality({c \in Client : s.serving[c] # None}) <= Across
       /\ \A b \in Box : Cardinality({c \in Client : s.serving[c] = b}) <= PerBox

VARIABLES
  scenario,   \* what Init chose
  left,       \* what may still happen from outside
  up,         \* boxes switched on
  arcs,       \* arcs of the tree
  hears,      \* signal strength of a station at a box
  devices,    \* stations with an ad-hoc entry in device_list
  list,       \* ad_hoc_clients
  recv,       \* stp_recv_beacons: per originator, what is kept of its status
  wire,       \* frames from neighbor to neighbor in the tree
  radio,      \* what the wlan interface of a box has still to read
  blocks,     \* entries of locks_granted: blocks by sender and client
  \* history: broadcasts a box took back in that a box had put out, and
  \* blocks that were lost or wiped
  echoes, faults

airVars == <<radio, blocks, echoes, faults>>
vars == <<scenario, left, up, arcs, hears, devices, list, recv, wire, airVars>>

Status == {"unknown", "mine", "other"}
Entry  == [name : Name, status : Status, server : Box \cup {None}, sig : Nat, owner : Nat]

Served(b, l) == {l[i].name : i \in {j \in DOMAIN l : l[j].status = "mine"}}
Listed(l)    == {l[i].name : i \in DOMAIN l}
Mine(b)      == Served(b, list[b])
Nbrs(b)      == {a \in Box : {a, b} \in arcs}

(* A client served by nobody yet has not been heard by anybody yet; where  *)
(* one is served the boxes have heard each other long ago.                 *)
Known(s, b, c) == [name |-> c, status |-> IF s.serving[c] = b THEN "mine" ELSE "other",
                   server |-> s.serving[c], sig |-> s.hears[b][c],
                   owner |-> IF s.serving[c] = b THEN 0 ELSE s.hears[s.serving[c]][c]]
SeqOf(S)  == CHOOSE q \in [1 .. Cardinality(S) -> S] : S = {q[i] : i \in DOMAIN q}
Init ==
  /\ scenario \in Scenarios
  /\ left = scenario.left
  /\ up = Box
  /\ arcs = scenario.arcs
  /\ hears = scenario.hears
  /\ LET seen == {c \in Client : scenario.serving[c] # None} IN
       /\ devices = [b \in Box |-> {n \in seen \cup IF seen = {} THEN {} ELSE Box :
                                      hears[b][n] > Weak}]
       /\ list = [b \in Box |-> [i \in 1 .. Cardinality(seen) |->
                                   Known(scenario, b, SeqOf(seen)[i])]]
  /\ recv = [b \in Box |-> [o \in Box |-> IF {b, o} \in arcs THEN {} ELSE None]]
  /\ wire = [a \in Box |-> [b \in Box |-> <<>>]]
  /\ radio = [b \in Box |-> <<>>]
  /\ blocks = [b \in Box |-> [s \in Box |-> [c \in Client |-> 0]]]
  /\ echoes = 0 /\ faults = 0

-----------------------------------------------------------------------------
(* The list of clients                                                     *)

(* What is left of a list when the entries not in I are taken out.         *)
Only(l, I) ==
  LET upto[n \in 0 .. Len(l)] == IF n = 0 THEN <<>>
                                 ELSE IF n \in I THEN Append(upto[n - 1], l[n]) ELSE upto[n - 1]
  IN  upto[Len(l)]
Trim(l, names) == Only(l, {i \in DOMAIN l : l[i].name \notin names})

(* ad_hoc_client_add                                                       *)
Added(b, l, n) ==
  IF n \in Listed(l) \cup {b} \/ Len(l) = Across THEN l
  ELSE Append(l, [name |-> n, status |-> "unknown", server |-> None, sig |-> Weak,
                  owner |-> 0])

(* ad_hoc_client_update_my_beacon, with update_sig_strength: a strength not*)
(* heard anew loses a tenth, and at Low the entry is deleted. The address  *)
(* to delete is passed as a pointer into the very list that is shifted, so *)
(* that all entries behind go with it; what is told of the strength is     *)
(* read from the slot afterwards.                                          *)
Hears(b, n)     == hears[b][n] > Weak /\ n \in up \cup Client
Strength(b, e)  == IF Hears(b, e.name) THEN hears[b][e.name] ELSE (9 * e.sig + 5) \div 10
Refreshed(b, l) == [i \in DOMAIN l |-> [l[i] EXCEPT !.sig = Strength(b, l[i])]]
Cut(b, l) == LET low == {i \in DOMAIN l : Strength(b, l[i]) = Low} IN
             IF low = {} THEN Len(l) + 1 ELSE CHOOSE i \in low : \A j \in low : i <= j
AfterBeacon(b, l) == SubSeq(Refreshed(b, l), 1, Cut(b, l) - 1)
Told(b, l) ==
  LET strength(i) == IF i = Cut(b, l) /\ i < Len(l) THEN l[Len(l)].sig ELSE Strength(b, l[i])
      entry(i)    == [name |-> l[i].name, sig |-> strength(i)]
  IN  Only([i \in DOMAIN l |-> entry(i)],
           {i \in DOMAIN l : i <= Cut(b, l) /\ l[i].status = "mine"})

(* add_client, and check_ad_hoc_client_improvement: what is unknown is     *)
(* claimed, in the order of the list, until there is no room; then perhaps *)
(* the client that gains most is taken over. For a gain of 0, which the    *)
(* loop lets pass, random_eval never says yes: its probability is 0.       *)
RoomBelow(n, l) == Cardinality(Served(None, l)) < n
RoomPlusOne(l) == RoomBelow(PerBox + 1, l)
Room(l) == RoomBelow(PerBox, l)
Claim(b, l, is) == [i \in DOMAIN l |->
                      IF i \in is THEN [l[i] EXCEPT !.status = "mine", !.server = b] ELSE l[i]]
Orphans(l) == {i \in DOMAIN l : l[i].status = "unknown"}
Claimed(b, l) == {i \in Orphans(l) : Room(Claim(b, l, {j \in Orphans(l) : j < i}))}
Gain(l, i) == l[i].sig - l[i].owner
Best(l) == LET worth == {i \in DOMAIN l : l[i].status = "other" /\ Gain(l, i) > 0} IN
           {i \in worth : \A j \in worth : \/ Gain(l, j) < Gain(l, i)
                                           \/ Gain(l, j) = Gain(l, i) /\ i <= j}
Improved(b, l) ==
  LET m == Claim(b, l, Claimed(b, l)) IN
  {m} \cup IF Claimed(b, l) # Orphans(l) \/ ~ Room(m) THEN {}
           ELSE {Claim(b, m, {i}) : i \in Best(m)}

(* ad_hoc_clients_unserved: for each client in the status that is kept of  *)
(* a box whose beacons have stopped.                                       *)
Unserved(b, l, gone) ==
  [i \in DOMAIN l |-> IF \E o \in gone : recv[b][o] # {} /\ l[i].server = o
                      THEN [l[i] EXCEPT !.status = "unknown"] ELSE l[i]]

-----------------------------------------------------------------------------
(* Beacons                                                                 *)

Send(w, a, to, msgs) == [w EXCEPT ![a] = [b \in Box |-> IF b \in to THEN @[b] \o msgs ELSE @[b]]]
Beacon(o, told) == [kind |-> "beacon", originator |-> o, clients |-> told]

(* check_devices: every station heard for the first time.                  *)
Notice(b) ==
  /\ b \in up
  /\ \E n \in Name \ (devices[b] \cup {b}) :
       /\ Hears(b, n)
       /\ devices' = [devices EXCEPT ![b] = @ \cup {n}]
       /\ list' = [list EXCEPT ![b] = Added(b, @, n)]
  /\ UNCHANGED <<scenario, left, up, arcs, hears, recv, wire, airVars>>

(* post_repeated_cloud_maint: beacons that have stopped are timed out, ours*)
(* goes out, and goes out again when a client was claimed.                 *)
Round(b) ==
  /\ b \in up
  /\ \A a \in Nbrs(b) : Len(wire[b][a]) < MaxFlight
  /\ \E gone \in SUBSET {o \in Box \ up : recv[b][o] # None} :
       LET l0 == Unserved(b, list[b], gone)
           l1 == AfterBeacon(b, l0)
       IN  \E l2 \in Improved(b, l1) :
             LET msgs == IF l2 = l1 THEN <<Beacon(b, Told(b, l0))>>
                         ELSE <<Beacon(b, Told(b, l0)), Beacon(b, Told(b, l2))>>
             IN  /\ list' = [list EXCEPT ![b] = IF l2 = l1 THEN l1 ELSE AfterBeacon(b, l2)]
                 /\ recv' = [recv EXCEPT ![b] = [o \in Box |-> IF o \in gone THEN None ELSE @[o]]]
                 /\ wire' = Send(wire, b, Nbrs(b), msgs)
  /\ UNCHANGED <<scenario, left, up, arcs, hears, devices, airVars>>

(* ad_hoc_client_process_stp_beacon. What the beacon lists is the          *)
(* originator's, even if it was ours (LoserKeeps would hold on to it); what*)
(* it no longer lists is nobody's (and would stay in StillServed).         *)
Names(told) == {told[i].name : i \in DOMAIN told}
SigOf(told, n) == told[CHOOSE i \in DOMAIN told : told[i].name = n].sig
Other(e, m) == [e EXCEPT !.status = "other", !.server = m.originator,
                         !.owner = SigOf(m.clients, e.name)]
LoserKeeps(l, m) == [i \in DOMAIN l |-> IF l[i].name \in Names(m.clients) /\ l[i].status # "mine"
                                        THEN Other(l[i], m) ELSE l[i]]
Relisted(l, m) == [i \in DOMAIN l |-> IF l[i].name \in Names(m.clients) THEN Other(l[i], m)
                                                                        ELSE l[i]]
NewEntries(b, l, m) ==
  LET news == Only(m.clients, {i \in DOMAIN m.clients :
                                 m.clients[i].name \notin Listed(l) \cup {b}})
      room == IF Across - Len(l) < Len(news) THEN Across - Len(l) ELSE Len(news)
  IN  [i \in 1 .. room |-> [name |-> news[i].name, status |-> "other",
                            server |-> m.originator, sig |-> Weak, owner |-> news[i].sig]]
StillServed(l, m) == l
Dropped(l, m) == [i \in DOMAIN l |-> IF l[i].server = m.originator
                                          /\ l[i].name \notin Names(m.clients)
                                     THEN [l[i] EXCEPT !.status = "unknown"] ELSE l[i]]
ProcessClients(b, l, m) == LET l1 == Relisted(l, m) IN Dropped(l1 \o NewEntries(b, l1, m), m)

(* process_stp_beacon_msg, after process_cloud_message: neither the sender *)
(* nor the originator is a client; the status itself is not kept in        *)
(* stp_recv_beacons; the beacon goes on to the other neighbors.            *)
TrimNobody(a, m) == {}
SenderAndOriginator(a, m) == {a, m.originator}
Trimmed(a, m) == SenderAndOriginator(a, m)
Kept(m) == {}

ReadBeacon(a, b) ==
  /\ b \in up /\ wire[a][b] # <<>> /\ Head(wire[a][b]).kind = "beacon"
  /\ LET m  == Head(wire[a][b])
         w  == [wire EXCEPT ![a][b] = Tail(@)]
         l  == Trim(list[b], Trimmed(a, m))
     IN  /\ list' = [list EXCEPT ![b] = ProcessClients(b, l, m)]
         /\ recv' = [recv EXCEPT ![b][m.originator] = Kept(m)]
         /\ wire' = Send(w, b, Nbrs(b) \ {a}, <<m>>)
  /\ UNCHANGED <<scenario, left, up, arcs, hears, devices, airVars>>

(* A new arc between two parts: send_stp_beacons passes on every beacon the*)
(* box has, with an empty status.                                          *)
Forwarded(a, b) == LET os == {o \in Box : recv[a][o] # None} \ {b} IN
                   <<Beacon(a, <<>>)>>
                     \o [i \in 1 .. Cardinality(os) |-> Beacon(SeqOf(os)[i], <<>>)]
Join(a, b) ==
  /\ {a, b} \in scenario.new \ arcs /\ a # b /\ {a, b} \subseteq up
  /\ arcs' = arcs \cup {{a, b}}
  /\ wire' = Send(Send(wire, a, {b}, Forwarded(a, b)), b, {a}, Forwarded(b, a))
  /\ UNCHANGED <<scenario, left, up, hears, devices, list, recv, airVars>>

-----------------------------------------------------------------------------
(* Broadcasts of clients                                                   *)

Hearers(n)    == {r \in up \ {n} : hears[r][n] > Weak}
OnAir(k, n, c) == [kind |-> k, from |-> n, client |-> c]
Heard(rd, n, msgs) == [r \in Box |-> IF r \in Hearers(n) THEN rd[r] \o msgs ELSE rd[r]]

(* ad_hoc_client_forward_msg of a broadcast.                               *)
FrameFirst(b, c) == <<OnAir("frame", b, c), OnAir("block", b, c), OnAir("unblock", b, c)>>
BlockFirst(b, c) == <<OnAir("block", b, c), OnAir("frame", b, c), OnAir("unblock", b, c)>>
Burst(b, c) == BlockFirst(b, c)
PutOut(rd, b, c) == IF Mine(b) \ {c} = {} THEN rd ELSE Heard(rd, b, Burst(b, c))

Spend(what) == left[what] > 0 /\ left' = [left EXCEPT ![what] = @ - 1]

Cast(c) ==
  /\ Spend("casts")
  /\ radio' = Heard(radio, c, <<OnAir("frame", c, c)>>)
  /\ UNCHANGED <<scenario, up, arcs, hears, devices, list, recv, wire, blocks, echoes, faults>>

(* main: a frame of a client that is not ours, or is to be ignored, is     *)
(* skipped; others go to the tree and to our other clients.                *)
Ignored(b, c) == \E s \in Box : blocks[b][s][c] > 0
ReadFrame(b) ==
  /\ b \in up /\ radio[b] # <<>> /\ Head(radio[b]).kind = "frame"
  /\ LET f  == Head(radio[b])
         rd == [radio EXCEPT ![b] = Tail(@)]
     IN  IF f.client \notin Mine(b) \/ Ignored(b, f.client)
         THEN radio' = rd /\ UNCHANGED <<wire, echoes>>
         ELSE /\ wire' = Send(wire, b, Nbrs(b), <<[kind |-> "packet", client |-> f.client]>>)
              /\ radio' = PutOut(rd, b, f.client)
              /\ echoes' = echoes + IF f.from = f.client THEN 0 ELSE 1
  /\ UNCHANGED <<scenario, left, up, arcs, hears, devices, list, recv, blocks, faults>>

ReadPacket(a, b) ==
  /\ b \in up /\ wire[a][b] # <<>> /\ Head(wire[a][b]).kind = "packet"
  /\ LET m == Head(wire[a][b])
         w == [wire EXCEPT ![a][b] = Tail(@)]
     IN  /\ wire' = Send(w, b, Nbrs(b) \ {a}, <<m>>)
         /\ radio' = PutOut(radio, b, m.client)
  /\ UNCHANGED <<scenario, left, up, arcs, hears, devices, list, recv, blocks, echoes, faults>>

(* process_ad_hoc_bcast_block_msg, process_ad_hoc_bcast_unblock_msg        *)
ReadBlock(b) ==
  /\ b \in up /\ radio[b] # <<>> /\ Head(radio[b]).kind \in {"block", "unblock"}
  /\ LET f == Head(radio[b]) IN
       /\ list' = [list EXCEPT ![b] = Trim(@, {f.from})]
       /\ blocks' = [blocks EXCEPT ![b][f.from][f.client] =
                       IF f.kind = "block" THEN @ + 1 ELSE IF @ > 0 THEN @ - 1 ELSE 0]
  /\ radio' = [radio EXCEPT ![b] = Tail(@)]
  /\ UNCHANGED <<scenario, left, up, arcs, hears, devices, recv, wire, echoes, faults>>

(* timeout_lockables: the block is four seconds old, what its sender sent  *)
(* with it has long been read.                                             *)
TooOld(b, s) == \A i \in DOMAIN radio[b] : radio[b][i].from # s
Expire(b) ==
  /\ \E s \in Box, c \in Client :
       /\ blocks[b][s][c] > 0 /\ TooOld(b, s)
       /\ blocks' = [blocks EXCEPT ![b][s][c] = @ - 1]
  /\ UNCHANGED <<scenario, left, up, arcs, hears, devices, list, recv, wire, radio, echoes, faults>>

-----------------------------------------------------------------------------
(* From outside: a station moves, a box is switched off, a frame on the air*)
(* is not heard, an unrelated refusal wipes the granted locks              *)
(* (clear_stp_update_state), a beacon is lost.                             *)

Move(b, n) ==
  /\ Spend("moves") /\ hears[b][n] # scenario.to[b][n]
  /\ hears' = [hears EXCEPT ![b][n] = scenario.to[b][n]]
  /\ UNCHANGED <<scenario, up, arcs, devices, list, recv, wire, airVars>>

SwitchOff(b) ==
  /\ b \in up /\ Spend("offs")
  /\ up' = up \ {b}
  /\ arcs' = {x \in arcs : b \notin x}
  /\ wire' = [a \in Box |-> [c \in Box |-> IF b \in {a, c} THEN <<>> ELSE wire[a][c]]]
  /\ radio' = [radio EXCEPT ![b] = <<>>]
  /\ UNCHANGED <<scenario, hears, devices, list, recv, blocks, echoes, faults>>

Miss(b) ==
  /\ Spend("faults") /\ radio[b] # <<>>
  /\ radio' = [radio EXCEPT ![b] = Tail(@)]
  /\ faults' = faults + IF Head(radio[b]).kind = "frame" THEN 0 ELSE 1
  /\ UNCHANGED <<scenario, up, arcs, hears, devices, list, recv, wire, blocks, echoes>>

Wipe(b) ==
  /\ Spend("faults") /\ \E s \in Box, c \in Client : blocks[b][s][c] > 0
  /\ blocks' = [blocks EXCEPT ![b] = [s \in Box |-> [c \in Client |-> 0]]]
  /\ faults' = faults + 1
  /\ UNCHANGED <<scenario, up, arcs, hears, devices, list, recv, wire, radio, echoes>>

Lose(a, b) ==
  /\ Spend("faults") /\ wire[a][b] # <<>>
  /\ wire' = [wire EXCEPT ![a][b] = Tail(@)]
  /\ UNCHANGED <<scenario, up, arcs, hears, devices, list, recv, airVars>>

Read(b) == ReadFrame(b) \/ ReadBlock(b) \/ \E a \in Box : ReadBeacon(a, b) \/ ReadPacket(a, b)
Outside == \/ \E a, b \in Box : Join(a, b) \/ Lose(a, b)
           \/ \E b \in Box : SwitchOff(b) \/ Miss(b) \/ Wipe(b)
           \/ \E b \in Box, n \in Name : Move(b, n)
           \/ \E c \in Client : Cast(c)
Next == Outside \/ \E b \in Box : Notice(b) \/ Round(b) \/ Read(b) \/ Expire(b)

(* Rounds come by the timers however full the wires are (that they wait is *)
(* a bound of the model), and what was sent is read. A round that could    *)
(* change something only by taking a client over does so in the end, since *)
(* the random numbers are drawn anew in each.                              *)
Fairness == \A b \in Box : /\ SF_vars(Round(b)) /\ WF_vars(Notice(b)) /\ WF_vars(Expire(b))
                           /\ WF_vars(ReadFrame(b) \/ ReadBlock(b))
                           /\ \A a \in Box \ {b} : WF_vars(ReadBeacon(a, b) \/ ReadPacket(a, b))
Spec == Init /\ [][Next]_vars /\ Fairness

-----------------------------------------------------------------------------
(* Properties                                                              *)

TypeOK ==
  /\ scenario \in Scenarios /\ left \in Budget
  /\ up \subseteq Box /\ arcs \subseteq SUBSET Box
  /\ hears \in [Box -> [Name -> Nat]]
  /\ devices \in [Box -> SUBSET Name]
  /\ \A b \in Box : /\ list[b] \in Seq(Entry) /\ Len(list[b]) <= Across
                    /\ Cardinality(Listed(list[b])) = Len(list[b])
                    /\ Cardinality(Mine(b)) <= PerBox
  /\ blocks \in [Box -> [Box -> [Client -> Nat]]]
  /\ echoes \in Nat /\ faults \in Nat

(* Two boxes may claim a client at the same time, or each serve it in its  *)
(* own part of a tree that is then joined: that does not last, whatever is *)
(* lost and in whatever order the claims are heard.                        *)
OverlapEnds == []<> (\A x \in arcs : \A a, b \in x : a # b => Mine(a) \cap Mine(b) = {})

(* Crossing claims may leave a client without a server, each box believing *)
(* that the other has it, and so does a box that stops hearing it or is    *)
(* switched off. It is never left so for good while a live box knows of it *)
(* and has room, unless that box hears the client no better than the one   *)
(* switched off did (ad_hoc_clients_unserved, which is to free the client  *)
(* in that case, does nothing, and nobody takes it over for nothing).      *)
HeardNoBetter(l, i) == l[i].server \in Box \ up /\ Gain(l, i) <= 0
Adopted ==
  []<> (\A c \in Client :
          \/ \E b \in up : c \in Mine(b)
          \/ \A b \in up : \A i \in DOMAIN list[b] :
               list[b][i].name = c => ~ Room(list[b]) \/ HeardNoBetter(list[b], i))

(* A box heard before its first cloud message is taken for a client, and   *)
(* others are told so; in the end no box is in a list.                     *)
BoxesAreNoClients == <>[](\A b \in up : Listed(list[b]) \cap Box = {})

(* A broadcast put out in the name of a client is taken for the client's   *)
(* own only when a block was lost or wiped, and then once for each: it     *)
(* does not go round.                                                      *)
EchoNeedsFault == echoes <= faults
=============================================================================
