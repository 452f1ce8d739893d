----------------------------- MODULE ParmChange -----------------------------
(***************************************************************************)
(* The change of the wifi parameters of a whole cloud: src/parm_change.c.  *)
(*                                                                         *)
(* Three passes over the tree.  The originator proposes; every box that is *)
(* in the middle of nothing locks itself for the originator and says so;   *)
(* when all have, the originator sends the go-ahead, Repeats times to each *)
(* stp neighbor, and every box passes it on, changes its parameters and    *)
(* reboots.  The go-ahead is encrypted with the administrator password and *)
(* holds the old parameters: a box where they do not match does not change.*)
(*                                                                         *)
(* The tree is the one the proposal finds; what else boxes do with it (see *)
(* CloudMod) is here only as far as parm_change.c can see it.              *)
(***************************************************************************)
EXTENDS Naturals, FiniteSets, Sequences

CONSTANTS
  Node,       \* the boxes
  None,       \* "no box"
  Nbr,        \* nbr_device_list of every box
  Stp,        \* stp_list of every box
  Via,        \* stp_recv_beacons of every box
  Parms,      \* wifi parameters together with the administrator password
  Blank,      \* what go_message holds before anything is proposed
  InitParms,  \* those of every box at the start
  Repeats,    \* how often the go-ahead is sent to a neighbor: 10
  Limit,      \* how often each kind of event may happen
  Timely,     \* TRUE: an answer never outlives the lock it tells of
  Denials     \* how many of the two locks of a swap may be denied: 1 or 2

Kind == {"start", "change", "expire", "lose"}

ASSUME NoneAssumption == None \notin Node
ASSUME NodeAssumption == IsFiniteSet(Node)
ASSUME TreeAssumption ==
  /\ Nbr \in [Node -> SUBSET Node] /\ Stp \in [Node -> SUBSET Node]
  /\ Via \in [Node -> [Node -> Node \cup {None}]]
  /\ \A n \in Node : n \notin Nbr[n] /\ n \notin Stp[n] /\ Via[n][n] = None
ASSUME ParmsAssumption == Blank \in Parms /\ InitParms \in [Node -> Parms]
ASSUME BoundAssumption ==
  Repeats \in Nat \ {0} /\ Limit \in [Kind -> Nat] /\ Timely \in BOOLEAN
  /\ Denials \in {1, 2}

VARIABLES
  parms,        \* the parameters of each box
  up,           \* FALSE: the box has gone to reboot with new ones
  granted,      \* parm_change_ready_msg entries of locks_granted: originators
  tree,         \* what else makes doing_stp_update true
  denied,       \* TRUE: a denial is on its way for a change already given up
  cloud_boxes,  \* as originator: whose answers are needed
  have_lock,    \* as originator: whose answers have come
  wish,         \* the new parameters in go_message
  doing_go,
  alarm,        \* FALSE: stop_alarm has been called and no timer set since
  result,       \* what parm_change_result last wrote for the web page
  net,          \* frames in flight, per ordered pair of boxes
  spent         \* how many events of each kind have happened

round == <<cloud_boxes, have_lock, wish>>
vars  == <<parms, up, granted, tree, denied, round, doing_go, alarm, result, net,
          spent>>

Chan == Node \X Node

PcType == {"parm_change_start_msg", "parm_change_ready_msg",
           "parm_change_not_ready_msg", "parm_change_go_msg"}

Message(t, o) == [type |-> t, originator |-> o, old |-> Blank, new |-> Blank]

GoMessage(o, old, new) ==
  [type |-> "parm_change_go_msg", originator |-> o, old |-> old, new |-> new]

Spend(k) == spent[k] < Limit[k] /\ spent' = [spent EXCEPT ![k] = @ + 1]

-----------------------------------------------------------------------------
(* Sending, as in CloudMod.                                                *)

Route(n, d) ==
  IF d \in Nbr[n] THEN d ELSE IF Via[n][d] \in Nbr[n] THEN Via[n][d] ELSE None

\* m to every box of D, k times.  Whoever is on the way gets it: nothing is
\* ever forwarded to m's destination.
Send(n, D, k, m) ==
  [x \in Node |->
     [i \in 1 .. k * Cardinality({d \in D : Route(n, d) = x}) |-> m]]

Silence == [x \in Node |-> <<>>]
a ++ b  == [x \in Node |-> a[x] \o b[x]]

Answer(n, s, out) ==
  net' = [c \in Chan |->
            IF c = <<s, n>> THEN Tail(net[c])
            ELSE IF c[1] = n THEN net[c] \o out[c[2]] ELSE net[c]]

Emit(n, out) ==
  net' = [c \in Chan |->
            IF c[1] = n THEN net[c] \o out[c[2]] ELSE net[c]]

Frame(n, s) == Head(net[<<s, n>>])

Got(n, s, t) == up[n] /\ net[<<s, n>>] # <<>> /\ Frame(n, s).type = t

-----------------------------------------------------------------------------
(* Pieces the handlers share.                                              *)

\* doing_stp_update: an attempt of its own, or a lock granted to anybody.
Doing(n) == granted[n] # {} \/ tree[n] # {}

\* has_lock: the entry it looks for is of a type grant_lock does not write.
HasLock(n, o) == \E e \in {[type |-> "parm_change_ready_msg", node |-> x] :
                             x \in granted[n]} :
                   e.type = "parm_change_start_msg" /\ e.node = o

\* grant_lock; set_lock_timer sets the alarm.
GrantLock(n, o) ==
  /\ granted' = [granted EXCEPT ![n] = @ \cup {o}]
  /\ alarm' = [alarm EXCEPT ![n] = TRUE]

\* do_wifi_change: if the old parameters match, exec change_wifi_parms.
DoWifiChange(n, m) ==
  IF m.old = parms[n]
  THEN /\ parms' = [parms EXCEPT ![n] = m.new]
       /\ up' = [up EXCEPT ![n] = FALSE]
  ELSE UNCHANGED <<parms, up>>

\* Variant of PassOn: one frame each.
PassOnOnce(n, D, m) == Send(n, D, 1, m)

\* send_change_message
PassOn(n, D, m) == Send(n, D, Repeats, m)

\* The end of process_parm_change_ready_msg and process_parm_change_go_msg.
GoAhead(n, m) ==
  /\ alarm' = [alarm EXCEPT ![n] = FALSE]
  /\ result' = [result EXCEPT ![n] = "success"]
  /\ DoWifiChange(n, m)

-----------------------------------------------------------------------------
(* The originator.                                                         *)

StartRefused(n) ==
  /\ up[n] /\ Doing(n) /\ ~HasLock(n, n)
  /\ Spend("start")
  /\ result' = [result EXCEPT ![n] = "failure"]
  /\ UNCHANGED <<parms, up, granted, tree, denied, round, doing_go, alarm, net>>

\* build_new_parm_change_msg cannot make sense of the file: the lock stays.
StartFails(n) ==
  /\ up[n] /\ ~Doing(n)
  /\ Spend("start")
  /\ GrantLock(n, n)
  /\ doing_go' = [doing_go EXCEPT ![n] = FALSE]
  /\ wish' = [wish EXCEPT ![n] = Blank]
  /\ result' = [result EXCEPT ![n] = "failure"]
  /\ UNCHANGED <<parms, up, tree, denied, cloud_boxes, have_lock, net>>

\* Variants of Cloud: waits for its stp neighbors only; waits for itself too.
CloudOfNeighbors(n) == Stp[n]
CloudAndSelf(n) == {o \in Node : Via[n][o] # None} \cup {n}

\* The boxes whose stp beacons n has.
Cloud(n) == {o \in Node : Via[n][o] # None}

\* Variant of NoLocks: the answers to an earlier proposal are kept.
KeepLocks(n) == have_lock[n]

\* have_lock[i] = false
NoLocks(n) == {}

StartParmChange(n, p) ==
  /\ up[n] /\ ~Doing(n)
  /\ Spend("start")
  /\ granted' = [granted EXCEPT ![n] = @ \cup {n}]
  /\ doing_go' = [doing_go EXCEPT ![n] = FALSE]
  /\ wish' = [wish EXCEPT ![n] = p]
  /\ cloud_boxes' = [cloud_boxes EXCEPT ![n] = Cloud(n)]
  /\ have_lock' = [have_lock EXCEPT ![n] = NoLocks(n)]
  /\ \/ /\ Cloud(n) # {}
        /\ alarm' = [alarm EXCEPT ![n] = TRUE]
        /\ Emit(n, Send(n, Stp[n], 1, Message("parm_change_start_msg", n)))
        /\ UNCHANGED <<parms, up, result>>
     \/ /\ Cloud(n) = {}
        /\ GoAhead(n, GoMessage(n, parms[n], p))
        /\ Emit(n, PassOn(n, Stp[n], GoMessage(n, parms[n], p)))
  /\ UNCHANGED <<tree, denied>>

\* process_parm_change_ready_msg does not ask who sent it, nor to whom, nor
\* in answer to what.
ProcessReady(n, s) ==
  LET have == have_lock[n] \cup ({Frame(n, s).originator} \cap cloud_boxes[n])
      go   == GoMessage(n, parms[n], wish[n])
  IN  /\ Got(n, s, "parm_change_ready_msg")
      /\ have_lock' = [have_lock EXCEPT ![n] = have]
      /\ \/ /\ cloud_boxes[n] \subseteq have
            /\ GoAhead(n, go)
            /\ Answer(n, s, PassOn(n, Stp[n], go))
         \/ /\ ~(cloud_boxes[n] \subseteq have)
            /\ Answer(n, s, Silence)
            /\ UNCHANGED <<parms, up, alarm, result>>
      /\ UNCHANGED <<granted, tree, denied, cloud_boxes, wish, doing_go, spent>>

ProcessNotReady(n, s) ==
  /\ Got(n, s, "parm_change_not_ready_msg")
  /\ result' = IF s \in Nbr[n] THEN [result EXCEPT ![n] = "failure"] ELSE result
  /\ Answer(n, s, Silence)
  /\ UNCHANGED <<parms, up, granted, tree, denied, round, doing_go, alarm, spent>>

-----------------------------------------------------------------------------
(* The other boxes.                                                        *)

\* Variant of Ready: a box in the middle of a change of the tree says yes.
ReadyAnyway(n) == granted[n] = {}

Ready(n) == HasLock(n, n) \/ ~Doing(n)

ProcessStart(n, s) ==
  LET m     == Frame(n, s)
      relay == Send(n, Stp[n] \ {s}, 1, m)
      reply(t) == Send(n, {m.originator}, 1, Message(t, n))
  IN  /\ Got(n, s, "parm_change_start_msg")
      /\ doing_go' = [doing_go EXCEPT ![n] = FALSE]
      /\ \/ /\ s \in Nbr[n] /\ Ready(n)
            /\ GrantLock(n, m.originator)
            /\ Answer(n, s, relay ++ reply("parm_change_ready_msg"))
         \/ /\ s \in Nbr[n] /\ ~Ready(n)
            /\ Answer(n, s, relay ++ reply("parm_change_not_ready_msg"))
            /\ UNCHANGED <<granted, alarm>>
         \/ /\ s \notin Nbr[n]
            /\ Answer(n, s, Silence)
            /\ UNCHANGED <<granted, alarm>>
      /\ UNCHANGED <<parms, up, tree, denied, round, result, spent>>

ProcessGo(n, s) ==
  LET m == Frame(n, s)
  IN  /\ Got(n, s, "parm_change_go_msg")
      /\ \/ /\ doing_go[n] \/ s \notin Nbr[n]
            /\ Answer(n, s, Silence)
            /\ UNCHANGED <<parms, up, doing_go, alarm, result>>
         \/ /\ ~doing_go[n] /\ s \in Nbr[n]
            /\ doing_go' = [doing_go EXCEPT ![n] = TRUE]
            /\ GoAhead(n, m)
            /\ Answer(n, s, PassOn(n, Stp[n] \ {s}, m))
      /\ UNCHANGED <<granted, tree, denied, round, spent>>

-----------------------------------------------------------------------------
(* The rest of the box, as parm_change.c sees it: "attempt" is in tree[n]  *)
(* while n has requests pending or owns locks, "lock" while n has granted  *)
(* one to a box that changes the tree.                                     *)

\* check_connectivity, check_local_improvement: only if ~doing_stp_update().
BeginChange(n) ==
  /\ up[n] /\ alarm[n] /\ ~Doing(n)
  /\ Spend("change")
  /\ tree' = [tree EXCEPT ![n] = {"attempt"}]
  /\ UNCHANGED <<parms, up, granted, denied, round, doing_go, alarm, result, net>>

\* process_local_lock_req: a lock for any box n has not locked itself for.
LockArc(n) ==
  /\ up[n] /\ "lock" \notin tree[n]
  /\ \E m \in Nbr[n] : up[m] /\ "attempt" \in tree[m] /\ m \notin granted[n]
  /\ tree' = [tree EXCEPT ![n] = @ \cup {"lock"}]
  /\ alarm' = [alarm EXCEPT ![n] = TRUE]
  /\ UNCHANGED <<parms, up, granted, denied, round, doing_go, result, net, spent>>

\* clear_stp_update_state clears all three lists, whatever the locks in
\* locks_granted were for.
ClearStpUpdateState(n) ==
  /\ tree' = [tree EXCEPT ![n] = {}]
  /\ granted' = [granted EXCEPT ![n] = {}]
  /\ alarm' = [alarm EXCEPT ![n] = TRUE]

\* The change is done, or a lock has timed out; or it was denied or refused.
\* A swap asks two boxes, and the other one may deny it too.
EndChange(n) ==
  /\ up[n]
  /\ \/ \E gone \in SUBSET tree[n] \ {{}} :
          /\ tree' = [tree EXCEPT ![n] = @ \ gone]
          /\ alarm' = [alarm EXCEPT ![n] = TRUE]
          /\ UNCHANGED <<granted, denied>>
     \/ /\ "attempt" \in tree[n]
        /\ ClearStpUpdateState(n)
        /\ UNCHANGED denied
     \/ /\ "attempt" \in tree[n] /\ Denials = 2
        /\ ClearStpUpdateState(n)
        /\ denied' = [denied EXCEPT ![n] = TRUE]
  /\ UNCHANGED <<parms, up, round, doing_go, result, net, spent>>

\* process_local_lock_deny does not look whether it has asked for the lock.
DeniedAgain(n) ==
  /\ up[n] /\ denied[n]
  /\ ClearStpUpdateState(n)
  /\ denied' = [denied EXCEPT ![n] = FALSE]
  /\ UNCHANGED <<parms, up, round, doing_go, result, net, spent>>

\* A proposal of o, or an answer to one, is still in flight.
Outstanding(o) ==
  \E c \in Chan : \E i \in DOMAIN net[c] :
    LET m == net[c][i]
    IN  \/ m.type = "parm_change_start_msg" /\ m.originator = o
        \/ m.type = "parm_change_ready_msg" /\ Route(c[1], o) = c[2]

\* timeout_lockables: the lock for o is older than RECV_TIMEOUT_USEC allows.
Expire(n, o) ==
  /\ up[n] /\ alarm[n] /\ o \in granted[n]
  /\ Timely => ~Outstanding(o)
  /\ Spend("expire")
  /\ granted' = [granted EXCEPT ![n] = @ \ {o}]
  /\ UNCHANGED <<parms, up, tree, denied, round, doing_go, alarm, result, net>>

Lose(n, s) ==
  /\ net[<<s, n>>] # <<>>
  /\ net' = [net EXCEPT ![<<s, n>>] = Tail(@)]
  /\ Spend("lose")
  /\ UNCHANGED <<parms, up, granted, tree, denied, round, doing_go, alarm, result>>

-----------------------------------------------------------------------------
Init ==
  /\ parms = InitParms
  /\ up = [n \in Node |-> TRUE]
  /\ granted = [n \in Node |-> {}]
  /\ tree = [n \in Node |-> {}]
  /\ denied = [n \in Node |-> FALSE]
  /\ cloud_boxes = [n \in Node |-> {}]
  /\ have_lock = [n \in Node |-> {}]
  /\ wish = [n \in Node |-> Blank]
  /\ doing_go = [n \in Node |-> FALSE]
  /\ alarm = [n \in Node |-> TRUE]
  /\ result = [n \in Node |-> "none"]
  /\ net = [c \in Chan |-> <<>>]
  /\ spent = [k \in Kind |-> 0]

ProcessCloudMessage(n, s) ==
  ProcessStart(n, s) \/ ProcessReady(n, s) \/ ProcessNotReady(n, s)
    \/ ProcessGo(n, s)

Next ==
  \/ \E n \in Node : StartRefused(n) \/ StartFails(n)
  \/ \E n \in Node, p \in Parms : StartParmChange(n, p)
  \/ \E n, s \in Node : ProcessCloudMessage(n, s)
  \/ \E n \in Node : BeginChange(n) \/ LockArc(n) \/ EndChange(n) \/ DeniedAgain(n)
  \/ \E n, o \in Node : Expire(n, o)
  \/ \E n, s \in Node : Lose(n, s)

Spec == Init /\ [][Next]_vars

\* select() returns for every device with a frame to read.
LiveSpec == Spec /\ \A n, s \in Node : WF_vars(ProcessCloudMessage(n, s))

-----------------------------------------------------------------------------
Frames == [type : PcType, originator : Node, old : Parms, new : Parms]

\* Every variable has its type; an originator waits for the others only, and
\* counts no answer but theirs (it never hears its own beacon, and
\* have_lock has no place for a box that is not in cloud_boxes).
TypeOK ==
  /\ parms \in [Node -> Parms] /\ wish \in [Node -> Parms]
  /\ up \in [Node -> BOOLEAN] /\ doing_go \in [Node -> BOOLEAN]
  /\ alarm \in [Node -> BOOLEAN]
  /\ granted \in [Node -> SUBSET Node]
  /\ denied \in [Node -> BOOLEAN]
  /\ tree \in [Node -> SUBSET {"attempt", "lock"}]
  /\ cloud_boxes \in [Node -> SUBSET Node]
  /\ have_lock \in [Node -> SUBSET Node]
  /\ \A n \in Node : n \notin cloud_boxes[n]
  /\ result \in [Node -> {"none", "success", "failure"}]
  /\ net \in [Chan -> Seq(Frames)]
  /\ spent \in [Kind -> Nat]

\* A box is locked for one originator at most, and for none while it is
\* changing the tree itself: what the originator counts on when it takes a
\* parm_change_ready_msg for a lock on all arcs of the sender.
OneLock ==
  \A n \in Node : /\ \A o, p \in granted[n] : o = p
                  /\ "attempt" \in tree[n] => granted[n] = {}

\* n's step sends the go-ahead as originator.
Commits(n) == \E s \in Node : ProcessReady(n, s) /\ up'[n] = FALSE

\* "when the originator has a full set of locks for all nodes in the cloud, it
\* sends out the go-ahead message": at that moment every other box of the
\* cloud is locked for it, and none is changing the tree.  (The originator
\* does not look whether its lock on itself has timed out.)
GoNeedsEveryLock ==
  [][\A n \in Node :
       Commits(n) => \A m \in Node : Via[n][m] # None =>
                       n \in granted[m] /\ "attempt" \notin tree[m]]_vars

\* Boxes that had the same parameters and have both changed them have the
\* same parameters again, although several boxes may propose.
Agreement ==
  \A n, m \in Node :
    ~up[n] /\ ~up[m] /\ InitParms[n] = InitParms[m] => parms[n] = parms[m]

\* The go-ahead reaches every box of the segment or none, although frames are
\* lost (fewer than Repeats) and boxes with other parameters are on the way.
AllOrNone ==
  \A n, m \in Node :
    (InitParms[n] = InitParms[m] /\ ~up[n]) ~> ~up[m]

=============================================================================
