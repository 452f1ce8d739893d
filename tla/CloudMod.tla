------------------------------ MODULE CloudMod ------------------------------
(***************************************************************************)
(* The spanning tree of a Cloud Hub mesh and the protocol that changes it: *)
(* src/cloud_mod.c, src/lock.c, the beacon table of src/stp_beacon.c, the  *)
(* routing and the dispatch of src/cloud_msg.c, and the periodic           *)
(* maintenance of src/merge_cloud.c.                                       *)
(*                                                                         *)
(* Every box runs one single-threaded select() loop, so a handler, or one  *)
(* round of maintenance, is one atomic action.  Boxes talk over raw        *)
(* sockets: per ordered pair of boxes the frames keep their order, and     *)
(* any frame may be lost.                                                  *)
(***************************************************************************)
EXTENDS Naturals, FiniteSets, Sequences, SequencesExt

CONSTANTS
  Node,           \* the boxes, by their "name" (wlan mac address)
  None,           \* "no box"
  InitNbr,        \* nbr_device_list of every box when the model starts
  Starts,         \* where the model starts: stp_list and stp_recv_beacons of
                  \* every box, and which bounded events are over already
  UnroutableMax,  \* UNROUTABLE_MAX
  Limit,          \* how often each kind of bounded event may happen
  Endless,        \* the kinds that are not counted at all
  MaxNet,         \* no maintenance round starts with more frames in flight
  Timely          \* TRUE: an answer never outlives the attempt it belongs to

Kind == {"maint", "connect", "improve", "expire", "silence", "lose", "nbr",
         "restart"}

ReqType  == {"local_lock_req_old_msg", "local_lock_req_new_msg"}
PendType == ReqType \cup {"local_stp_add_request_msg",
                          "local_stp_add_changed_request_msg",
                          "local_stp_delete_request_msg"}
MsgType  == PendType \cup {"local_lock_grant_msg", "local_lock_deny_msg",
                           "local_lock_release_msg", "local_stp_added_msg",
                           "local_stp_added_changed_msg",
                           "local_stp_refused_msg", "local_stp_deleted_msg",
                           "stp_arc_delete_msg", "stp_beacon_msg",
                           "stp_beacon_nak_msg"}

\* The message types the switch of send_cloud_message knows how to send.
Sendable == MsgType \ {"local_lock_release_msg"}

Chan == Node \X Node

ASSUME NoneAssumption == None \notin Node
ASSUME NodeAssumption == IsFiniteSet(Node)
ASSUME InitAssumption ==
  /\ InitNbr \in [Node -> SUBSET Node] /\ \A n \in Node : n \notin InitNbr[n]
  /\ \A t \in Starts :
       /\ t.stp \in [Node -> SUBSET Node] /\ \A n \in Node : n \notin t.stp[n]
       /\ t.via \in [Node -> [Node -> Node \cup {None}]]
       /\ \A n, o \in Node : t.via[n][n] = None /\ t.via[n][o] # n
       /\ t.spent \in [Kind -> Nat]
ASSUME BoundAssumption ==
  /\ Limit \in [Kind -> Nat]
  /\ Endless \subseteq Kind
  /\ UnroutableMax \in Nat \ {0}
  /\ MaxNet \in Nat
  /\ Timely \in BOOLEAN

VARIABLES
  nbr,         \* nbr_device_list: the boxes whose hardware beacons n hears
  stp,         \* stp_list: n's ends of the spanning tree arcs
  via,         \* stp_recv_beacons: the neighbor a box's stp beacon came from
  unroutable,  \* unroutable_count of n's end of each arc
  pending,     \* pending_requests
  granted,     \* locks_granted: the boxes n has granted a lock to
  owned,       \* locks_owned
  net,         \* frames in flight, per ordered pair of boxes
  spent        \* how many events of each bounded kind have happened

tree  == <<stp, via, unroutable>>
locks == <<pending, granted, owned>>
vars  == <<nbr, tree, locks, net, spent>>

Entry(t, m)    == [type |-> t, node |-> m]
Message(t, d)  == [type |-> t, orig |-> None, dest |-> d]
Beacon(o)      == [type |-> "stp_beacon_msg", orig |-> o, dest |-> None]

Spend(kinds) ==
  /\ \A k \in kinds : spent[k] < Limit[k]
  /\ spent' = [k \in Kind |-> IF k \in kinds \ Endless THEN spent[k] + 1
                                                       ELSE spent[k]]

-----------------------------------------------------------------------------
(* Sending: what a box has to say to each other box, and in which order.   *)

Silence    == [x \in Node |-> <<>>]
To(d, ms)  == [x \in Node |-> IF x = d THEN ms ELSE <<>>]
a ++ b     == [x \in Node |-> a[x] \o b[x]]

\* The next step towards d for a box n whose beacon table is v.
Route(n, v, d) ==
  IF d \in nbr[n] THEN d ELSE IF v[d] \in nbr[n] THEN v[d] ELSE None

\* send_cloud_message: errors are silent, the frame is just not sent.
Send(n, v, m) ==
  IF m.type \in Sendable THEN To(Route(n, v, m.dest), <<m>>) ELSE Silence

\* The same stp beacon sent to every box of S.
SendBeacon(n, v, S, o) ==
  [x \in Node |-> [i \in 1 .. Cardinality({d \in S : Route(n, v, d) = x})
                     |-> Beacon(o)]]

\* n sends out (to nobody in particular: a maintenance round).
Emit(n, out) ==
  net' = [c \in Chan |-> IF c[1] = n THEN net[c] \o out[c[2]] ELSE net[c]]

\* n consumes the next frame from s and sends out.
Answer(n, s, out) ==
  net' = [c \in Chan |-> IF c = <<s, n>> THEN Tail(net[c])
                         ELSE IF c[1] = n THEN net[c] \o out[c[2]]
                         ELSE net[c]]

\* The next frame n takes from s, of one of these types.
Frame(n, s) == Head(net[<<s, n>>])

Got(n, s, types) == net[<<s, n>>] # <<>> /\ Frame(n, s).type \in types

-----------------------------------------------------------------------------
(* The pieces of state handlers share.                                     *)

\* Variant of Doing: forgets to look at locks_owned.
DoingButOwned(p, g, o) == p # {} \/ g # {}

\* doing_stp_update
Doing(p, g, o) == p # {} \/ g # {} \/ o # {}

Heard(n) == {o \in Node : via[n][o] # None}

Lost(n, v, S) == {d \in S : Route(n, v, d) = None}

\* delete_unroutable: what this round's failure makes unroutable for good.
Dead(n, v, S) == {d \in Lost(n, v, S) : unroutable[n][d] + 1 >= UnroutableMax}

\* send_stp_beacon walks stp_list while bump_stp_link_unroutable deletes from
\* it: the arc after a deleted one is passed over.
PassedOver(n, v, S) ==
  {skip \in SUBSET S : Cardinality(skip) <= Cardinality(Dead(n, v, S \ skip))}

\* n has the arcs S and has just sent its own stp beacon to the boxes of sent;
\* the arc to fresh, if any, is new.  bump_stp_link_unroutable.
LinksAfterBeacon(n, v, S, sent, fresh) ==
  /\ stp' = [stp EXCEPT ![n] = S \ Dead(n, v, sent)]
  /\ unroutable' = [unroutable EXCEPT ![n] =
       [d \in Node |-> IF d = fresh \/ d \in Dead(n, v, sent) THEN 0
                       ELSE IF d \in Lost(n, v, sent) THEN unroutable[n][d] + 1
                       ELSE unroutable[n][d]]]

\* Variant of DropLink: delete_me is not set, nothing is deleted.
DropNothing(n, s) == UNCHANGED <<stp, unroutable>>

\* trim_list(stp_list, delete_node) with delete_me = s
DropLink(n, s) ==
  /\ stp' = [stp EXCEPT ![n] = @ \ {s}]
  /\ unroutable' = [unroutable EXCEPT ![n][s] = 0]

\* clear_state(name): delete_lockable and delete_stp_beacon compare addresses
\* of two different arrays, so all it deletes is the arc.
ClearState(n, s) == DropLink(n, s)

\* The orders in which the beacons n has from beyond new may be stored.
Relayed(n, v, new) == SetToSeqs({o \in Node : v[o] \notin {None, new}})

\* send_stp_beacons(new): my own beacon, then the others I have.
SendStpBeacons(n, new, ord) ==
  To(new, <<Beacon(n)>> \o [i \in DOMAIN ord |-> Beacon(ord[i])])

\* clear_stp_update_state.  The releases it sends are not Sendable.
ClearStpUpdateState(n) ==
  /\ pending' = [pending EXCEPT ![n] = {}]
  /\ granted' = [granted EXCEPT ![n] = {}]
  /\ owned'   = [owned   EXCEPT ![n] = {}]

\* send_lock_release_messages: one per lock n owns.
SendLockReleases(n) ==
  [x \in Node |->
     [i \in 1 .. Cardinality({e \in owned[n] : Route(n, via[n], e.node) = x
                                  /\ "local_lock_release_msg" \in Sendable})
        |-> Message("local_lock_release_msg", x)]]

\* to_nominal_state
ToNominalState(n) ==
  /\ ClearStpUpdateState(n)
  /\ via' = [via EXCEPT ![n] =
               [o \in Node |-> IF via[n][o] \in stp[n] THEN via[n][o] ELSE None]]

-----------------------------------------------------------------------------
(* post_repeated_cloud_maint, run when a send_stp or a lockable_timeout    *)
(* interrupt is noticed: timeout_lockables, check_connectivity (with       *)
(* timeout_stp_recv_beacons), send_stp_beacon, check_local_improvement.    *)

\* Variant of TimeoutLockables: locks_granted never times out.
KeepGranted(n, p, g, o) ==
  /\ p \in SUBSET {e \in pending[n] : e.type # "local_stp_add_request_msg"}
  /\ g = granted[n]
  /\ o \in SUBSET owned[n]

\* timeout_lockables leaves p, g and o.  A local_stp_add_request_msg carries
\* the time -1 and never survives; any other lock may have grown too old.
TimeoutLockables(n, p, g, o) ==
  /\ p \in SUBSET {e \in pending[n] : e.type # "local_stp_add_request_msg"}
  /\ g \in SUBSET granted[n]
  /\ o \in SUBSET owned[n]

\* timeout_stp_recv_beacons keeps the beacons of the boxes in kept.
TimeoutStpRecvBeacons(n, kept) ==
  [x \in Node |-> IF x \in kept THEN via[n][x] ELSE None]

Expired(n, p, g, o) ==
  \/ g # granted[n] \/ o # owned[n]
  \/ p # {e \in pending[n] : e.type # "local_stp_add_request_msg"}

Answers == {"local_lock_grant_msg", "local_lock_deny_msg",
            "local_stp_added_msg", "local_stp_added_changed_msg",
            "local_stp_refused_msg", "local_stp_deleted_msg"}

\* A request of n, or an answer to one, is still in flight.
Outstanding(n) ==
  \E m \in Node :
    \/ \E i \in DOMAIN net[<<n, m>>] : net[<<n, m>>][i].type \in PendType
    \/ \E i \in DOMAIN net[<<m, n>>] : net[<<m, n>>][i].type \in Answers

InFlight == Cardinality(UNION {{c} \X DOMAIN net[c] : c \in Chan})

\* The part of a round all its outcomes share; ask are the requests it adds,
\* ahead and behind what it sends before and after the beacon.
Round(n, p, g, o, v, ask, ahead, behind, kinds) ==
  /\ InFlight <= MaxNet
  /\ pending' = [pending EXCEPT ![n] = p \cup ask]
  /\ granted' = [granted EXCEPT ![n] = g]
  /\ owned'   = [owned   EXCEPT ![n] = o]
  /\ via'     = [via     EXCEPT ![n] = v]
  /\ \E skip \in PassedOver(n, v, stp[n]) :
       /\ LinksAfterBeacon(n, v, stp[n], stp[n] \ skip, None)
       /\ Emit(n, ahead ++ SendBeacon(n, v, stp[n] \ skip, n) ++ behind)
  /\ Spend({"maint"} \cup kinds
           \cup (IF Expired(n, p, g, o) THEN {"expire"} ELSE {})
           \cup (IF v # via[n] THEN {"silence"} ELSE {}))
  /\ UNCHANGED nbr

\* The round starts nothing new: it is in the middle of something, or has
\* nothing to start, or the random choices (discrete_unif, random_eval) say no.
MaintQuiet(n) ==
  \E p \in SUBSET pending[n], g \in SUBSET granted[n], o \in SUBSET owned[n],
     kept \in SUBSET Heard(n) :
    /\ TimeoutLockables(n, p, g, o)
    /\ Round(n, p, g, o, TimeoutStpRecvBeacons(n, kept), {}, Silence, Silence, {})

\* check_connectivity invites a neighbor no stp beacon has come from.
\* stp_connect_to: nothing is sent if there is already an arc to it.
MaintConnect(n) ==
  \E p \in SUBSET pending[n], g \in SUBSET granted[n], o \in SUBSET owned[n],
     kept \in SUBSET Heard(n), new \in nbr[n] \ stp[n] :
    LET v == TimeoutStpRecvBeacons(n, kept)
    IN  /\ TimeoutLockables(n, p, g, o)
        /\ ~Doing(p, g, o)
        /\ v[new] = None
        /\ Round(n, p, g, o, v, {Entry("local_stp_add_request_msg", new)},
                 Send(n, v, Message("local_stp_add_request_msg", new)), Silence,
                 {"connect"})

\* check_local_improvement: new is a neighbor without an arc, old the stp
\* neighbor new's beacons come through.  Signal strengths are arbitrary, but
\* a box that is no longer a neighbor has the strength 1, which is no signal.
MaintImprove(n) ==
  \E p \in SUBSET pending[n], g \in SUBSET granted[n], o \in SUBSET owned[n],
     kept \in SUBSET Heard(n), new \in nbr[n] :
    LET v   == TimeoutStpRecvBeacons(n, kept)
        old == v[new]
    IN  /\ TimeoutLockables(n, p, g, o)
        /\ ~Doing(p, g, o)
        /\ Timely => ~Outstanding(n)
        /\ old \in stp[n] \cap nbr[n]
        /\ Round(n, p, g, o, v,
                 {Entry("local_lock_req_old_msg", old),
                  Entry("local_lock_req_new_msg", new)},
                 Silence,
                 Send(n, v, Message("local_lock_req_old_msg", old)) ++
                 Send(n, v, Message("local_lock_req_new_msg", new)),
                 {"improve"})
        /\ old \in stp'[n] /\ new \notin stp'[n]

-----------------------------------------------------------------------------
(* process_cloud_message: one action per handler.  get_name is NULL for a  *)
(* frame from a box that is not in nbr_device_list.                        *)

\* The handlers that return at once when get_name is NULL, and the two that
\* go on with a name no list holds (deleting the arc to NULL deletes none).
Ignored == MsgType \ {"local_lock_deny_msg", "local_stp_refused_msg",
                      "local_stp_added_changed_msg"}

ReceiveFromStranger(n, s) ==
  /\ Got(n, s, Ignored)
  /\ s \notin nbr[n]
  /\ Answer(n, s, Silence)
  /\ UNCHANGED <<nbr, tree, locks, spent>>

\* Variant of LockedWith: does not look at n's own attempt.
GrantedTo(n, s) == s \in granted[n]

LockedWith(n, s) ==
  \/ s \in granted[n]
  \/ \E e \in pending[n] \cup owned[n] : e.node = s

ProcessLocalLockReq(n, s) ==
  /\ Got(n, s, ReqType)
  /\ s \in nbr[n]
  /\ \/ /\ LockedWith(n, s)
        /\ UNCHANGED granted
        /\ Answer(n, s, Send(n, via[n], Message("local_lock_deny_msg", s)))
     \/ /\ ~LockedWith(n, s)
        /\ granted' = [granted EXCEPT ![n] = @ \cup {s}]
        /\ Answer(n, s, Send(n, via[n], Message("local_lock_grant_msg", s)))
  /\ UNCHANGED <<nbr, tree, pending, owned, spent>>

\* local_stp_add_request adds a pending request only if it has a route.
Routable(n, entries) == {e \in entries : Route(n, via[n], e.node) # None}

\* process_local_connect, the second grant: with both locks n drops its end of
\* the old arc, asks new for an arc and asks old to drop its end.
Swap(n, s, e, old, new) ==
  LET asked == {Entry("local_stp_add_changed_request_msg", new),
                Entry("local_stp_delete_request_msg", old)}
  IN  /\ DropLink(n, old)
      /\ pending' = [pending EXCEPT ![n] = (@ \ {e}) \cup Routable(n, asked)]
      /\ Answer(n, s,
           Send(n, via[n], Message("local_stp_add_changed_request_msg", new)) ++
           Send(n, via[n], Message("local_stp_delete_request_msg", old)))

\* Variant of Disown: the other box is not told.
DisownQuietly(n, s) == Silence

\* s built an arc n does not want: tell it to delete its end.
Disown(n, s) == Send(n, via[n], Message("stp_arc_delete_msg", s))

\* The answer to a request n no longer has pending.
GrantTooLate(n, s) ==
  /\ Got(n, s, {"local_lock_grant_msg"})
  /\ s \in nbr[n]
  /\ \A e \in pending[n] : ~(e.node = s /\ e.type \in ReqType)
  /\ Answer(n, s, Send(n, via[n], Message("local_lock_release_msg", s)))
  /\ UNCHANGED <<nbr, tree, locks, spent>>

ProcessLocalLockGrant(n, s) ==
  \E e \in {x \in pending[n] : x.node = s /\ x.type \in ReqType} :
    LET others == {x \in owned[n] : x.type \in ReqType \ {e.type}}
    IN  /\ Got(n, s, {"local_lock_grant_msg"})
        /\ s \in nbr[n]
        /\ owned' = [owned EXCEPT ![n] = @ \cup {e}]
        /\ \/ /\ others = {}
              /\ pending' = [pending EXCEPT ![n] = @ \ {e}]
              /\ Answer(n, s, Silence)
              /\ UNCHANGED <<stp, unroutable>>
           \/ \E x \in others :
                IF e.type = "local_lock_req_new_msg"
                THEN Swap(n, s, e, x.node, s) ELSE Swap(n, s, e, s, x.node)
        /\ UNCHANGED <<nbr, via, granted, spent>>

\* process_local_lock_deny and process_local_stp_refused: neither looks at who
\* refuses what, not even whether the sender is known.
ProcessLocalLockDeny(n, s) ==
  /\ Got(n, s, {"local_lock_deny_msg"})
  /\ ClearStpUpdateState(n)
  /\ Answer(n, s, SendLockReleases(n))
  /\ UNCHANGED <<nbr, tree, spent>>

ProcessLocalStpRefused(n, s) ==
  /\ Got(n, s, {"local_stp_refused_msg"})
  /\ ClearStpUpdateState(n)
  /\ Answer(n, s, SendLockReleases(n))
  /\ UNCHANGED <<nbr, tree, spent>>

\* local_stp_add_request_msg invites a box of another subgraph; a
\* local_stp_add_changed_request_msg comes from a box that holds our lock.
\* trim_pending_subgraph_connect_invitations forgets our own invitations.
ProcessLocalStpAddRequest(n, s) ==
  LET invited == Frame(n, s).type = "local_stp_add_request_msg"
      p       == {e \in pending[n] :
                    ~(invited /\ e.type = "local_stp_add_request_msg")}
      g       == granted[n] \ {s}
      deny    == \/ Doing(p, g, owned[n])
                 \/ /\ via[n][s] # None
                    /\ s \notin stp[n] \cup granted[n]
      links   == stp[n] \cup {s}
      answer  == IF invited THEN "local_stp_added_msg"
                            ELSE "local_stp_added_changed_msg"
  IN  /\ Got(n, s, {"local_stp_add_request_msg",
                    "local_stp_add_changed_request_msg"})
      /\ s \in nbr[n]
      /\ pending' = [pending EXCEPT ![n] = p]
      /\ granted' = [granted EXCEPT ![n] = g]
      /\ \/ /\ deny
            /\ Answer(n, s, Send(n, via[n], Message("local_stp_refused_msg", s)))
            /\ UNCHANGED <<stp, unroutable>>
         \/ /\ ~deny /\ ~invited
            /\ stp' = [stp EXCEPT ![n] = links]
            /\ unroutable' = [unroutable EXCEPT ![n][s] = 0]
            /\ Answer(n, s, Send(n, via[n], Message(answer, s)))
         \/ /\ ~deny /\ invited
            /\ \E skip \in PassedOver(n, via[n], links),
                  ord \in Relayed(n, via[n], s) :
                 /\ LinksAfterBeacon(n, via[n], links, links \ skip, s)
                 /\ Answer(n, s, Send(n, via[n], Message(answer, s)) ++
                                 SendBeacon(n, via[n], links \ skip, n) ++
                                 SendStpBeacons(n, s, ord))
      /\ UNCHANGED <<nbr, via, owned, spent>>

\* Our invitation was taken up; if we have forgotten it, the other end goes.
ProcessLocalStpAdded(n, s) ==
  LET invitation == Entry("local_stp_add_request_msg", s)
      links      == stp[n] \cup {s}
  IN  /\ Got(n, s, {"local_stp_added_msg"})
      /\ s \in nbr[n]
      /\ \/ /\ invitation \notin pending[n]
            /\ Answer(n, s, Disown(n, s))
            /\ UNCHANGED <<stp, unroutable, pending>>
         \/ /\ invitation \in pending[n]
            /\ pending' = [pending EXCEPT ![n] = @ \ {invitation}]
            /\ \E skip \in PassedOver(n, via[n], links),
                  ord \in Relayed(n, via[n], s) :
                 /\ LinksAfterBeacon(n, via[n], links, links \ skip, s)
                 /\ Answer(n, s, SendBeacon(n, via[n], links \ skip, n) ++
                                 SendStpBeacons(n, s, ord))
      /\ UNCHANGED <<nbr, via, granted, owned, spent>>

ProcessLocalStpDeleteRequest(n, s) ==
  LET g    == granted[n] \ {s}
      deny == \/ g # {}
              \/ \E e \in pending[n] :
                   e.node = s /\ e.type # "local_stp_delete_request_msg"
              \/ \E e \in owned[n] : e.node = s
  IN  /\ Got(n, s, {"local_stp_delete_request_msg"})
      /\ s \in nbr[n]
      /\ granted' = [granted EXCEPT ![n] = g]
      /\ \/ /\ deny
            /\ Answer(n, s, Send(n, via[n], Message("local_stp_refused_msg", s)))
            /\ UNCHANGED <<stp, unroutable>>
         \/ /\ ~deny
            /\ DropLink(n, s)
            /\ Answer(n, s, Send(n, via[n], Message("local_stp_deleted_msg", s)))
      /\ UNCHANGED <<nbr, via, pending, owned, spent>>

ProcessLocalStpDeleted(n, s) ==
  /\ Got(n, s, {"local_stp_deleted_msg"})
  /\ s \in nbr[n]
  /\ pending' = [pending EXCEPT ![n] = {e \in @ : e.node # s}]
  /\ Answer(n, s, Silence)
  /\ UNCHANGED <<nbr, tree, granted, owned, spent>>

\* fix_recv_beacon_nbr
FixRecvBeaconNbr(n, old, new) ==
  [o \in Node |-> IF via[n][o] = old THEN new ELSE via[n][o]]

\* The new arc is up at both ends: the locks are done with.
ProcessLocalStpAddedChanged(n, s) ==
  LET p     == pending[n] \ {Entry("local_stp_add_changed_request_msg", s)}
      new   == Entry("local_lock_req_new_msg", s)
      olds  == {e \in owned[n] : e.type = "local_lock_req_old_msg"}
      links == stp[n] \cup {s}
  IN  /\ Got(n, s, {"local_stp_added_changed_msg"})
      /\ s \in nbr[n] /\ new \in owned[n]
      /\ \E old \in olds :
           LET v == FixRecvBeaconNbr(n, old.node, s)
           IN  /\ pending' = [pending EXCEPT ![n] = p]
               /\ owned' = [owned EXCEPT ![n] = @ \ {old, new}]
               /\ via' = [via EXCEPT ![n] = v]
               /\ \E skip \in PassedOver(n, v, links),
                     ord \in Relayed(n, v, s) :
                    /\ LinksAfterBeacon(n, v, links, links \ skip, s)
                    /\ Answer(n, s, SendBeacon(n, v, links \ skip, n) ++
                                    SendStpBeacons(n, s, ord))
      /\ UNCHANGED <<nbr, granted, spent>>

\* An answer to an attempt n no longer has both locks of (or from a box it no
\* longer knows): everything is dropped.
AddedChangedTooLate(n, s) ==
  /\ Got(n, s, {"local_stp_added_changed_msg"})
  /\ \/ s \notin nbr[n]
     \/ Entry("local_lock_req_new_msg", s) \notin owned[n]
     \/ \A e \in owned[n] : e.type # "local_lock_req_old_msg"
  /\ ToNominalState(n)
  /\ Answer(n, s, IF s \in nbr[n] THEN Disown(n, s) ELSE Silence)
  /\ UNCHANGED <<nbr, stp, unroutable, spent>>

ProcessStpArcDelete(n, s) ==
  /\ Got(n, s, {"stp_arc_delete_msg"})
  /\ s \in nbr[n]
  /\ ClearState(n, s)
  /\ Answer(n, s, Silence)
  /\ UNCHANGED <<nbr, via, locks, spent>>

\* Variant of NakStpBeacon: db[29]-style loss, nothing is sent.
NakNothing(n, s) == Silence

\* nak_stp_beacon
NakStpBeacon(n, s) == Send(n, via[n], Message("stp_beacon_nak_msg", s))

\* Variant of Circular: n does not recognise its own beacon.
NeverCircular(n, orig) == FALSE

\* An stp beacon of n's own has come back to it.
Circular(n, orig) == orig = n

\* Variant of Learn: the neighbor is recorded for new originators only.
LearnOnce(n, orig, s) ==
  via' = [via EXCEPT ![n][orig] = IF @ = None THEN s ELSE @]

\* The entry of orig in stp_recv_beacons, new or not, says its beacons come
\* from the neighbor s.
Learn(n, orig, s) == via' = [via EXCEPT ![n][orig] = s]

\* process_stp_beacon_msg.  (The acknowledgement it sends is not modelled: its
\* handler looks for entries only RETRY_TIMED_OUT_LOCKABLES would create.)
ProcessStpBeacon(n, s) ==
  LET orig == Frame(n, s).orig
  IN  /\ Got(n, s, {"stp_beacon_msg"})
      /\ s \in nbr[n]
      /\ \/ /\ s \notin stp[n]
            /\ Answer(n, s, NakStpBeacon(n, s))
            /\ UNCHANGED tree
         \/ /\ s \in stp[n] /\ Circular(n, orig)
            /\ ClearState(n, s)
            /\ Answer(n, s, Disown(n, s))
            /\ UNCHANGED via
         \/ /\ s \in stp[n] /\ ~Circular(n, orig)
            /\ Learn(n, orig, s)
            /\ Answer(n, s, SendBeacon(n, via'[n], stp[n] \ {s}, orig))
            /\ UNCHANGED <<stp, unroutable>>
      /\ UNCHANGED <<nbr, locks, spent>>

ProcessStpBeaconNak(n, s) ==
  /\ Got(n, s, {"stp_beacon_nak_msg"})
  /\ s \in nbr[n]
  /\ DropLink(n, s)
  /\ Answer(n, s, Silence)
  /\ UNCHANGED <<nbr, via, locks, spent>>

-----------------------------------------------------------------------------
(* What the boxes do not choose.                                           *)

\* The next frame from s to n never arrives.
Lose(n, s) ==
  /\ net[<<s, n>>] # <<>>
  /\ net' = [net EXCEPT ![<<s, n>>] = Tail(@)]
  /\ Spend({"lose"})
  /\ UNCHANGED <<nbr, tree, locks>>

\* check_nbr_devices, at the start of a maintenance round: hardware beacons of
\* a box are heard for the first time, or no longer.  Signal strength and the
\* choice between wire and radio (update_stp_nbr_connectivity) are left out.
CheckNbrDevices(n) ==
  /\ \E m \in Node \ {n} :
       nbr' = [nbr EXCEPT ![n] = IF m \in @ THEN @ \ {m} ELSE @ \cup {m}]
  /\ Spend({"nbr"})
  /\ UNCHANGED <<tree, locks, net>>

\* Power is cut and comes back: everything is in memory (reset_state).
Restart(n) ==
  /\ nbr' = [nbr EXCEPT ![n] = {}]
  /\ stp' = [stp EXCEPT ![n] = {}]
  /\ via' = [via EXCEPT ![n] = [o \in Node |-> None]]
  /\ unroutable' = [unroutable EXCEPT ![n] = [d \in Node |-> 0]]
  /\ pending' = [pending EXCEPT ![n] = {}]
  /\ granted' = [granted EXCEPT ![n] = {}]
  /\ owned' = [owned EXCEPT ![n] = {}]
  /\ net' = [c \in Chan |-> IF c[2] = n THEN <<>> ELSE net[c]]
  /\ Spend({"restart"})

-----------------------------------------------------------------------------
Init ==
  /\ nbr = InitNbr
  /\ \E t \in Starts : stp = t.stp /\ via = t.via /\ spent = t.spent
  /\ unroutable = [n \in Node |-> [d \in Node |-> 0]]
  /\ pending = [n \in Node |-> {}]
  /\ granted = [n \in Node |-> {}]
  /\ owned = [n \in Node |-> {}]
  /\ net = [c \in Chan |-> <<>>]

PostRepeatedCloudMaint(n) ==
  MaintQuiet(n) \/ MaintConnect(n) \/ MaintImprove(n)

ProcessCloudMessage(n, s) ==
  \/ ReceiveFromStranger(n, s)
  \/ ProcessLocalLockReq(n, s)
  \/ GrantTooLate(n, s)
  \/ ProcessLocalLockGrant(n, s)
  \/ ProcessLocalLockDeny(n, s)
  \/ ProcessLocalStpAddRequest(n, s)
  \/ ProcessLocalStpAdded(n, s)
  \/ ProcessLocalStpRefused(n, s)
  \/ ProcessLocalStpDeleteRequest(n, s)
  \/ ProcessLocalStpDeleted(n, s)
  \/ ProcessLocalStpAddedChanged(n, s)
  \/ AddedChangedTooLate(n, s)
  \/ ProcessStpArcDelete(n, s)
  \/ ProcessStpBeacon(n, s)
  \/ ProcessStpBeaconNak(n, s)

Next ==
  \/ \E n \in Node : PostRepeatedCloudMaint(n)
  \/ \E n, s \in Node : ProcessCloudMessage(n, s)
  \/ \E n, s \in Node : Lose(n, s)
  \/ \E n \in Node : CheckNbrDevices(n)
  \/ \E n \in Node : Restart(n)

Spec == Init /\ [][Next]_vars

-----------------------------------------------------------------------------
(* What the loop of main and the radio are assumed to do.                  *)

\* A round in which every lock left behind is older than RECV_TIMEOUT_USEC.
Forgets(n) ==
  /\ MaintQuiet(n)
  /\ pending'[n] = {} /\ granted'[n] = {} /\ owned'[n] = {}

\* select() returns for every device with a frame to read, and a timer starts
\* rounds for ever; the frames of a box and its rounds do not starve another.
Fairness ==
  /\ \A n \in Node : \A s \in Node \ {n} : WF_vars(ProcessCloudMessage(n, s))
  /\ \A n \in Node : SF_vars(Forgets(n))

LiveSpec == Spec /\ Fairness

-----------------------------------------------------------------------------
(* Invariants.                                                             *)

Entries == [type : PendType, node : Node]
Frames  == [type : MsgType, orig : Node \cup {None}, dest : Node \cup {None}]

\* Every variable has its type; in particular no box is its own neighbor, has
\* an arc to itself, or keeps its own stp beacon in stp_recv_beacons, which
\* process_stp_beacon_msg must see to however the frames travel.
TypeOK ==
  /\ nbr \in [Node -> SUBSET Node]
  /\ stp \in [Node -> SUBSET Node]
  /\ via \in [Node -> [Node -> Node \cup {None}]]
  /\ unroutable \in [Node -> [Node -> Nat]]
  /\ pending \in [Node -> SUBSET Entries]
  /\ granted \in [Node -> SUBSET Node]
  /\ owned \in [Node -> SUBSET [type : ReqType, node : Node]]
  /\ net \in [Chan -> Seq(Frames)]
  /\ spent \in [Kind -> Nat]
  /\ \A n \in Node : n \notin nbr[n] /\ n \notin stp[n] /\ via[n][n] = None

\* All a box has under way is one invitation, or one swap of an old arc for a
\* new one, at one stage of it: what clear_stp_update_state assumes when it
\* clears everything ("we only do at most one stp change at a time") and
\* process_local_connect when it takes whatever other lock it finds.  Locks
\* time out one by one and answers come late, so the parts of an old attempt
\* could be mixed with those of a new one.
OneChange(p, o) ==
  \/ o = {} /\ \E m \in Node : p \subseteq {Entry("local_stp_add_request_msg", m)}
  \/ \E old, new \in Node :
       LET locked == {Entry("local_lock_req_old_msg", old),
                      Entry("local_lock_req_new_msg", new)}
       IN  /\ old # new
           /\ o \subseteq locked
           /\ \/ p \subseteq locked \ o
              \/ p \subseteq {Entry("local_stp_add_changed_request_msg", new),
                              Entry("local_stp_delete_request_msg", old)}

OneChangeAtATime == \A n \in Node : OneChange(pending[n], owned[n])

\* The boxes to which n owns the lock on the arc.
Owners(n) == {e.node : e \in owned[n]}

Locks == INSTANCE ArcLock WITH holds <- [n \in Node |-> Owners(n)]

\* The lock messages, their answers and timeouts implement a lock per arc that
\* a box takes in one step and only when the other end does not have it.
LocksSpec == Locks!Spec

\* n and m both have the arc between them.
Arc(n, m) == m \in stp[n] /\ n \in stp[m]

\* Among three boxes moving arcs never closes a loop, although an arc is deleted
\* and its replacement built at four different moments in three boxes: the
\* initiator's end goes first (process_local_connect). With a fourth box two
\* swaps can close one.
NoTriangle ==
  \A n, m, k \in Node : Arc(n, m) /\ Arc(m, k) => n = k \/ ~Arc(k, n)

Quiescent ==
  /\ \A c \in Chan : net[c] = <<>>
  /\ \A n \in Node : ~Doing(pending[n], granted[n], owned[n])

\* An arc has two ends.
Symmetric == \A n, m \in Node : m \in stp[n] <=> n \in stp[m]

\* When a single swap is over and done with, completed, refused or timed out at
\* any stage, it has left no arc with one end: what the stp_arc_delete_msg of
\* process_local_stp_added_changed is for.
NoHalfArcsLeft == spent["improve"] <= 1 /\ Quiescent => Symmetric

-----------------------------------------------------------------------------
(* Temporal properties.                                                    *)

\* Whatever boxes are in the middle of ends: no lock, granted or owned, and no
\* request outlives its attempt for good, even though the release messages
\* are never sent and answers get lost.
Idle ==
  []<>(\A n \in Node : ~Doing(pending[n], granted[n], owned[n]))

\* Half arcs disappear: the box that lacks its end refuses the other's stp
\* beacons (process_stp_beacon_msg) as long as it hears that box at all.
Heals ==
  <>[](\A n, m \in Node : m \in stp[n] => n \in nbr[m]) => <>[]Symmetric

\* There is a path from m to o that does not go through n.
Beyond(n, m, o) ==
  \A S \in SUBSET (Node \ {n}) :
    m \in S /\ o \notin S => \E x \in S, y \in Node \ (S \cup {n}) : Arc(x, y)

\* In the end stp_recv_beacons gives the way in the tree: for every box the
\* arcs lead to, beacons come from a neighbor with that box beyond it
\* (send_cloud_message and check_local_improvement rely on it).
RoutesFollowArcs ==
  \A n \in Node : \A o \in Node \ {n} :
    (\E m \in stp[n] : Arc(n, m) /\ Beyond(n, m, o))
       => via[n][o] \in stp[n] /\ Beyond(n, via[n][o], o)

RoutesSettle == <>[]RoutesFollowArcs

\* A loop does not last: a box whose own stp beacon comes back to it cuts the
\* arc it came over, at both ends.
LoopsBreak == <>[]NoTriangle

=============================================================================
