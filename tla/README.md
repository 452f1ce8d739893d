# Cloud Hub, specified, model-checked and proved

Cloud Hub turns a handful of WiFi routers ("boxes") into one network.  On each box
the daemon `merge_cloud` hears the hardware beacons of the other boxes around it,
builds a spanning tree with them, moves arcs of the tree when a better radio link
appears, heals it when a box comes, goes or restarts, and forwards the packets of
clients along it.  This directory holds TLA+ modules of that daemon, the TLC
configurations that check them and TLAPS proofs about them.  Paths are relative to
`src/`.

## 1. The system: inventory

`merge_cloud` is single-threaded.  A `select()` loop (`merge_cloud.c`, `main`)
reads at most one frame per readable device and hands it to a handler
(`cloud_msg.c`, `process_cloud_message`).  A SIGALRM handler (`timer.c`) raises
flags and writes a byte to a pipe that wakes `select()`; what the timer asks for is
done in the loop, never in the handler.  So a handler, or a round of maintenance, is
one atomic step of everything but the timers, and all other concurrency is between
boxes.  Boxes share nothing: they send
raw frames, which keep their order per pair of boxes and may be lost.

| component | state | operations | hard |
|---|---|---|---|
| spanning tree protocol: `cloud_mod.c`, `lock.c` | `stp_list` (its ends of arcs), `pending_requests`, `locks_granted`, `locks_owned` | invitation of another subgraph (`check_connectivity`), swap of an arc (`check_local_improvement`: two locks, add, delete), timeouts | requests that cross, answers to attempts given up, three boxes holding parts of one change, no release messages |
| stp beacons: `stp_beacon.c` | `stp_recv_beacons`: for each box, the neighbor its beacons come from | send, relay, nak, detection of circularity, timeout | beacons in flight while the tree changes |
| messages: `cloud_msg.c` | none for the protocol; sequence numbers and fragments for client packets | routing (`send_cloud_message`), dispatch, `bcast_forward_message`, k-for-n coding | sequence number wrap, restart, interleaved fragments |
| main loop: `merge_cloud.c` | devices, `select` sets | one frame or one round at a time; `reset_state`, `clear_state`, `to_nominal_state` | restart, order of the maintenance calls |
| neighbors: `nbr.c`, `wrt_util.c`, `mac_list.c` | `nbr_device_list`, timed lists of macs | `check_nbr_devices`, signal strength, wire or radio | a neighbor that comes and goes |
| timers: `timer.c` | due times, `got_interrupt` flags, the interrupt pipe | `set_next_alarm` in the handler and in the loop | flag without a byte in the pipe, a timer set in two steps |
| parameter change: `parm_change.c` | `doing_go`, `have_lock`, entries of `locks_granted` | start, ready / not ready, go, over the tree | answers of an earlier proposal, repeated go |
| flow control: `sequence.c` | per link `send_sequence`, `recv_sequence`, `awaiting_ack` | stop and wait, resend | late acknowledgements |
| ad-hoc clients: `ad_hoc_client.c` | which box serves a client, broadcast blocks in `locks_granted` | claim, hand over, block | two boxes claim one client |
| shell and file transfer: `ll_shell_ftp.c`, `com_util.c` | a file being received, the count of chunks and of outputs | put files, start a shell, forward its output | late answers, chunks given up, clients one after the other |
| critical sections: `critical_section.c`, `pcritical_section.c` | a semaphore, or a token in a pipe, per process | enter, exit, init | nobody contends for it |
| pipes, displays, tools | framing buffers | see `PROJECT.json` | |

What makes each of them correct: the tree protocol keeps changes apart (a box is in at
most one, an arc is in at most one box's), leaves no loop and no arc with one end, and
always gets back to idle; the beacon table ends up pointing along the tree; a parameter
change happens at every box or at none; a link delivers packets once and in order; a
broadcast reaches every box, and each once where no two of its ways cross a wire; a client has one server in the end; no event of a timer
is forgotten; a file that was put is the beginning of the one sent, or all of it.
`PROJECT.json` lists the hazards line by line, with the
properties that cover them.

## 2. The plan

| module | models | with | proofs |
|---|---|---|---|
| `CloudMod` | the tree protocol, beacons, routing, maintenance | implements `ArcLock` | `CloudMod_proofs` |
| `ParmChange` | the change of the wifi parameters | the tree protocol as an environment | `ParmChange_proofs` |
| `Link` | packets over the links: pieces, numbers, flow control | the main loop's choice of devices | `Link_proofs` |
| `MainLoop` | timers, signal handler, pipe, flags, the order of a pass | | `MainLoop_proofs` |
| `Forwarding` | broadcasts of clients over tree, air and Ethernet | a tree that is given | `Forwarding_proofs` |
| `AdHocClient` | who serves which client | beacons and locks as it uses them | `AdHocClient_proofs`, `SetInduction` |
| `ShellFtp` | remote shell and file transfer | | `ShellFtp_proofs` |

All of these are written, and every safety property that a run checks is proved, but for two of
`CloudMod` that are about small instances (section 5).  To come: `Forwarding` over a tree that
changes meanwhile, and `ParmChange` while the tree changes.

## 3. The modules

### CloudMod

The tree protocol, the beacon table, routing, dispatch and maintenance, for any set
`Node` of boxes.  One record of state per box, a channel per ordered pair:

| variable | in the code |
|---|---|
| `nbr[n]` | `nbr_device_list` of box n |
| `stp[n]`, `unroutable[n]` | `stp_list` and the `unroutable_count` of its entries |
| `via[n][o]` | the `neighbor` of the entry for `o` in `stp_recv_beacons`, `None` if there is no entry |
| `pending[n]`, `granted[n]`, `owned[n]` | `pending_requests`, `locks_granted`, `locks_owned` |
| `net[<<s,n>>]` | frames sent by s that n has not read |
| `spent` | how many events of each bounded kind have happened; only for TLC |

Actions: a maintenance round (`MaintQuiet`, `MaintConnect`, `MaintImprove`: all of
`post_repeated_cloud_maint`, so timeouts of locks and beacons, the box's own beacon, and
at most one new attempt), one action per handler of `process_cloud_message`, and what
boxes do not choose: `Lose`, `CheckNbrDevices`, `Restart`.  A handler that has two quite
different outcomes is two actions (`ProcessLocalLockGrant` and `GrantTooLate`;
`ProcessLocalStpAddedChanged` and `AddedChangedTooLate`).

What is abstracted, and why it may be:

- The three lock lists are sets.  `OneChangeAtATime` (proved) says they never hold two
  entries of one type, and the handlers search them by type and name.
- Times are not modelled: any lock or beacon may be too old at any round.  One pair of
  times matters: the 4 second timeout of an attempt against the time an answer spends
  under way.  With `Timely = TRUE` no new swap is started while frames of the last one
  are still in flight; with `FALSE` there is no such promise.
- A `local_stp_add_request_msg` in `pending_requests` carries the time -1 and is gone at
  the next round, whatever happens (`TimeoutLockables`).
- Signal strengths, the choice of wire or radio and the random numbers that decide
  whether an attempt starts are nondeterministic choices.
- Beacon acknowledgements are left out: what they would cancel only exists with
  `RETRY_TIMED_OUT_LOCKABLES` (`cloud.h:31`), which is not defined.
- `local_lock_release_msg` and the other release types are built but never sent: the
  switch in `send_cloud_message` does not know them.  That is in the model (`Sendable`),
  and their handlers are not, since no box ever gets one.
- `delete_lockable` and `delete_stp_beacon` compare addresses that are never equal, so
  `ClearState` deletes an arc and nothing else.
- `trim_list` moves entries while `send_stp_beacon` walks over them: `PassedOver` gives
  the sets of arcs that may get no beacon in that round.
- An unknown sender has the name NULL.  Most handlers return (`ReceiveFromStranger`); a
  denial or a refusal from a stranger is taken like any other, as in the code.
- `MAX_CLOUD` (32) limits of lists are not reached with up to 32 boxes.
- Entries that `parm_change.c` and `ad_hoc_client.c` put in `locks_granted` are not here;
  they are in the modules of those.

### ArcLock

What the lock messages are for, in 15 lines: a box takes the arc to a neighbor in one
step, and only if the other end does not have it; it gives back any of its arcs at any
time.  `CloudMod` implements it with `holds[n]` = the boxes in `locks_owned` of n.

### MCCloudMod

Instances for TLC: two or three boxes, the settled line A - B - C or a full graph, and
the budgets of each run.

### CloudMod_proofs

The proofs of section 5 about `CloudMod`.

### ParmChange

The change of the wifi parameters of a whole cloud, `parm_change.c`: the user's command,
the four handlers, and the rest of the box as far as these can see it.

| variable | in the code |
|---|---|
| `parms[n]`, `up[n]` | the parameters in nvram and the administrator password; whether the box still runs with the ones it had, or has called `change_wifi_parms` |
| `granted[n]` | the originators of the `parm_change_ready_msg` entries of `locks_granted` |
| `tree[n]`, `denied[n]` | the entries of the three lock lists that belong to changes of the tree: `"attempt"` for requests and owned locks, `"lock"` for granted ones; whether a second denial of a swap given up is on its way |
| `cloud_boxes[n]`, `have_lock[n]`, `wish[n]` | `cloud_boxes`, the members whose `have_lock` is true, the new parameters in `go_message` |
| `doing_go[n]`, `alarm[n]`, `result[n]` | `doing_go`; whether the timer runs (`stop_alarm`); what `parm_change_result` wrote last |
| `net` | frames in flight, as in `CloudMod` |

One action per handler and per outcome of the command (`StartRefused`, `StartFails`,
`StartParmChange`).  `BeginChange`, `LockArc`, `EndChange` and `DeniedAgain` stand for the
handlers of `cloud_mod.c`, reduced to when they make `doing_stp_update` true or false
and when they clear `locks_granted`; `Expire` is `timeout_lockables`.  What is abstracted:

- The tree does not change while parameters do (constants `Nbr`, `Stp`, `Via`); `Nbr`
  need not contain `Stp` or be symmetric, so lines of boxes out of earshot are instances.
- Parameters and password are one value, equal or not: encryption fails to decrypt or the
  old parameters differ, and both end in "no change".
- The ten copies of the go-ahead are sent at once, with no pause of 1.4 to 1.6 seconds
  between them (`req` has `tv_sec` 1; the comment says 0.5 seconds); nothing depends on the
  pauses but locks that expire, and these may expire at any time.  `Repeats` copies stand
  for ten, with fewer losses than copies.
- A box with new parameters is gone: it reboots into another network.
- `Timely`: a lock lives for 4 seconds (2 from `set_lock_timer`, 2 more in
  `timeout_lockable`).  `TRUE` says that a proposal and its answers are read before a lock
  for it expires; `FALSE` that they may not be.
- `Denials`: a swap asks two boxes for locks.  With 2, both may refuse, and the second
  refusal comes when the swap has been given up.
- A request of a swap, `local_stp_delete_request_msg`, which drops every lock its receiver
  granted to its sender, is not taken to outlive the swap.
- `build_old_parm_change_msg` and encryption succeed: the code retries until they do.

### The MC modules and the proof modules

Each module `M` has its instances for TLC in `MCM` and its proofs in `M_proofs`.  The
models declare no RECURSIVE operator, so that all of them can be proved about.
`SetInduction` states induction and least elements of sets of numbers instead of
predicates, since the provers behind tlapm cannot instantiate an operator parameter;
`AdHocClient_proofs` uses it for the recursive functions over lists.

### Link

What happens to a packet of a client between two boxes and along a line of them:
`send_message`, `send_seq` and the handlers of `sequence.c`, `update_k_for_n_state`.

The settings it is about: WDS devices between the boxes and a frame for each neighbor, `db[60]`
= 0 (with 1, the default, one frame goes out for all, and has no number: `wireless_has_seen`,
`cloud_msg.c:994,1053`; that is in `Forwarding`).  Flow control (`db[22]`, off by default and
set to off at `merge_cloud.c:763`) is on or off by scenario; where it is on, sequence
messages and acknowledgements come on the same device as packets, `db[47]` = 0.  Without it nothing
but packets is sent, and `db[47]` makes no difference.

| variable | in the code |
|---|---|
| `sendSequence`, `awaitingAck`, `messageLen`, `recvSequence`, `recvSequenceError`, `receivedDuplicate`, `expectSeq`, `recvMessageLen` | the fields of `cloud_box_t`, per link |
| `held` | the piece in the `message` of a device, with `expect_n` |
| `sendData`, `lastData`, `received`, `missed` | the 8-bit numbers of frames and the statistics of `sequence_check` |
| `ackTimer` | whether `times[noncloud_message]` is set |
| `ready` | the devices the current round has still to read |
| `chan`, `todo`, `seen` | frames under way; what clients are going to send, what they got |

`Select` begins a round: which devices are looked at depends on `ack_read_ok` as it is
then, and a packet read first may make a link wait for an acknowledgement while another
device is still to be read.  One action reads one frame, whatever it is; `Timeout` is the
ack timer, `Lose` the radio.  A packet is a head and a tail, so that a packet put together
from two others can be told.  What `resend_packets` sends is of no use to the receiver
(`cloud_msg.c:1027` keeps the address of a pointer), so `Timeout` only announces it.
`Length` is the number of pieces.

### MainLoop

One box, its timers and its signal handler.  The loop is a program counter `pc` with a
step per event handled; `Tick` lets time pass, and the handler runs between any two
steps, also between the two halves of setting a timer (`half`).

| variable | in the code |
|---|---|
| `times`, `alarm`, `signal` | `times[]` in ticks still to go; the interval timer; SIGALRM pending |
| `got`, `bytes`, `readBytes`, `fake` | `got_interrupt[]`, the pipe, `FD_ISSET`, `fake_interrupt` |
| `token` | the pipe or semaphore of the critical section around a pass |
| `locks`, `awaiting`, `display`, `answers` | what the events depend on: entries that time out, packets unacknowledged, `db[38]`/`db[30]`, beacons not answered |
| `owed` | history: events raised that no handling has begun for |

Left out: `times[1]`, whose code is that of `times[2]`.  A lock is one that
`set_lock_timer` made.  Times are small numbers of ticks; a timer is due when it is past.

### Forwarding

`bcast_forward_message`, `new_from_originator` and `stp_nbr_needs_transmit`: one packet on
the air is heard by neighbors and others, a frame on the Ethernet loses its wrapping and is
taken for one of a client, numbers wrap at `Modulus`.  `number` is
`originator_sequence_num`, `beacons` the list of `stp_recv_beacons` with the last number
of each originator, `radio` and `eth` what is unread.  The tree is given, and so is who
hears whom; `stp_nbr_needs_transmit` is modelled with its overwritten pointer
(`looked` in `Needs`).  `new_from_originator` declares its result without a value
(`cloud_msg.c:785`) and does not set it where the number is newer (`cloud_msg.c:832-843`):
`NewFromOriginator` is the set of answers it may give, both in that case (`LaterOf`), and one for
a first packet or an old one.  The settings are the defaults: `db[60]` (one frame on the air
for all neighbors) and `db[50]` are 1.  `got`, `made` and `refused` are history: how often a box
handed on a frame under the numbers of an originator, how many numbers a box gave, what was dropped
though newer.  Unicast packets are not modelled.

### AdHocClient

Which box serves a client that speaks plain 802.11.  `list` is `ad_hoc_clients`, `devices` the
ad-hoc entries of `device_list`, `recv` what `stp_recv_beacons` keeps of the status of others,
`blocks` the entries of `locks_granted` that keep a box from listening to a client while
another one puts out a broadcast in its name.  Actions: `Notice` (a station heard for the first
time), `Round` (own beacon, claims, takeovers, clients of boxes timed out), `ReadBeacon`,
`ReadFrame`, `ReadPacket`, `ReadBlock`, `Expire`, and from outside a client that moves, a box
switched off, a join of two trees, lost frames and beacons, `Wipe`
(`clear_stp_update_state` for an unrelated reason).  Strengths are the numbers of the code, with
their decay.  A client is taken over only for a gain: the loop of
`check_ad_hoc_client_improvement` lets a gain of 0 pass, but `random_eval` gives it the probability 0
(`random.c:39-60,148`).  Left out: the main loop skips frames of a station that has no entry in
`device_list` yet (`merge_cloud.c:1735-1746`); a client that is served has one.

### ShellFtp

The server on a box and one client after the other, in the mode it was started in: files are
put, a shell is used, or output only listened to (`-r`).  `client` and `server` are records of
the static variables of each process with the place it is at (`pc`): both are loops around
`recv_seq_message`, and while one waits there, it drops everything that is no answer.
Channels keep their order and may lose; `left` counts the losses, late answers, outputs,
commands and full disks to come; `trouble` and `missed` say afterwards how many there were, and
what the server did not get.  Opening a file succeeds.  The length in an answer,
which is compared, is abstracted: an answer to other data with the same number may match or
not.  Fetching a file is left out, "seems broken" by the comment at `ll_shell_ftp.c:32`, and so are
the log files sent after SIGUSR1.  A user starts the next client when the server has dealt
with what the last one sent.

## 4. The runs

### CloudMod

All with boxes that hear each other.  Three boxes are what a swap needs (the box that
moves an arc, the old and the new end), and every box can be any of them, so two swaps
already contend for arcs in every way; a triangle is the smallest loop.  No symmetry:
the line distinguishes its middle.  Budgets (`Upto`) count rounds, attempts, timeouts,
losses, neighbor changes and restarts; `Endless` kinds are not counted at all, which the
liveness runs need.  `MaxNet` lets a round start only when the frames of the last ones
have mostly been read: rounds are half a second apart, frames take milliseconds.

| run | shows |
|---|---|
| `Rivals` | `LocksSpec`: with timely answers the lock messages implement `ArcLock`, through up to three rival swaps, crossing requests, denials and timeouts |
| `Swaps` | `TypeOK`, `OneChangeAtATime`, `NoTriangle`, and `NoHalfArcsLeft`: among three boxes two swaps at once never close a loop, and one alone, ended at any stage, leaves no arc with only one end |
| `Heal` | `Idle`, `RoutesSettle`, `LoopsBreak` (live): from a line with one swap, or from a loop of three, nothing stays under way for ever, routes end up along the arcs, and a loop is cut, with a frame lost |
| `Reboot` | `Heals` (live): after a restart, half arcs go as long as boxes hear each other |

Two limits of these results, both found by TLC and both in the nature of the code.
With two swaps at once half arcs can remain, and the tree can be in two parts, until
beacons and `check_connectivity` repair it; so `NoHalfArcsLeft` is asked of one swap and
healing of the live runs.  And boxes that are switched on together can close a loop by
inviting each other, which a comment in `send_stp_beacons` acknowledges: `NoTriangle`
is a property of swaps among three boxes (section 5 has two swaps among four that close a
loop), and `LoopsBreak` says what becomes of a loop of three.

Disagreements of code and comments that are in the model and that no run is about:
`clear_state` leaves the lock it granted to the deleted neighbor, though
`delete_lockable` is called for it (`lock.c:192`); a box takes a beacon of its own, sent before
a swap, for a loop and cuts the new arc (`stp_beacon.c:526`); releases are never sent
(`cloud_mod.c:467`, `Sendable`); a box in the middle of a change grants locks to a third
box (`cloud_mod.c:484-490`); and with `Timely = FALSE` a grant for a forgotten request
can complete a later one, so that both ends of an arc own it (`cloud_mod.c:430`).

Fairness of `CloudMod` (`Fairness`).  `select()` returns for every device with something to read
and the loop visits every device, so reading the next frame of each neighbor is weakly
fair, per pair.  Rounds come from a periodic timer for ever, and every lock is older than
`RECV_TIMEOUT_USEC` some seconds after it was made: a round that finds every lock too old
happens again and again as long as rounds do and attempts are finitely many, which is
`SF_vars(Forgets(n))`.  Nothing is assumed of losses, neighbors and restarts.

### ParmChange

Three boxes A - B - C: two ends that may both propose, and a box in the middle that
relays and may propose as well.

| run | shows |
|---|---|
| `Agree` | `TypeOK`, `OneLock`, `Agreement`, `GoNeedsEveryLock`: two proposals, a swap that may be denied, two locks that expire; boxes all hear each other |
| `AllGo` | `AllOrNone` (live): one frame lost, two copies of the go-ahead, a middle box with other parameters |

`GoNeedsEveryLock` is what the three passes are for, and it takes three conditions, each
of which the code leaves to chance: boxes all hear each other, answers come while locks
live (`Timely`), and no denial comes for a swap given up (`Denials` = 1).  Run `Far`
drops the first and finds the property violated: an answer strands at the middle box,
which proposed nothing and so finds all answers there (a finding).  Without the second,
an answer to one proposal counts for the next (`parm_change.c:701`); without the third, a
second denial clears locks that have nothing to do with it (`cloud_mod.c:548`): set
`Timely = FALSE`, or `Denials = 2`, in `Agree.cfg` to see it.

Three smaller disagreements are in the model without a run: a timeout that is not
reported (`lock.c:69`), a box left without a timer by a go-ahead that does not apply to it
(`parm_change.c:810`), and a second proposal refused because of the first (`parm_change.c:143`).

Fairness (`LiveSpec`): the next frame of each neighbor is read, as in `CloudMod`.  Nothing
else: after the go-ahead all that has to happen is that frames are read.

### Link

`Link` has two or three boxes and six scenarios (`MCLink`): flow control on a pair and on a line,
packets of one and of two frames that cross, up to three lost frames and two acknowledgements
that come after the timeout, numbers about to wrap (`W` is 8 instead of 256).  A line of three
is the smallest where a box waits on one link while packets come on another, and where
acknowledgement chains could close on each other.

| property | says |
|---|---|
| `InOrderOnce` | a box's clients get the packets of each other box in order and none twice, whatever is lost, late or announced again (proved) |
| `MixtureNeedsTwoLosses` | a single loss never joins the pieces of two packets (proved) |
| `NothingMissing` | undisturbed, all arrives, unless one round announced two packets under one number (`merge_cloud.c:962`) (proved) |
| `TallyBounds` | lost frames are counted at least once and at most twice (`sequence.c:136`) (proved) |
| `TimerCovers` | the one ack timer is on while any link waits (proved) |
| `Drains` (live) | boxes waiting on each other do not block |

`Drains` with flow control is about `db[47]` = 0 only.  With 1, the default (`merge_cloud.c:207`), the
acknowledgement comes on a `cloud_wds` device (`device.c:197-200`, `device.c:368-378`), which
`ack_read_ok` refuses while one is awaited (`sequence.c:338`): the box that has sent one packet
never reads the answer and only repeats itself.  `merge_cloud.c:181` calls flow control
broken.  With flow control and a loss nothing more can be promised: the packet repeated is no packet
(`cloud_msg.c:1027`), although `sequence.c:491-493` describes it as the one sent, so the link waits
for ever.  `Drains` therefore asks for `Undisturbed`, or for no flow control.  Fairness: every box
goes on with its loop, and its timer fires.

### MainLoop

`MainLoop` runs one box with five sets of timers, a lock, and one or two commands by the operator;
waits are 1 to 3 ticks, so that any two timers can be due together, one be due while
another is set, and an alarm expire in any step.  More timers at a time add no new pair.

| property | says |
|---|---|
| `AlarmCovers` | the alarm never comes after the first timer that waits, though loop and handler both set it (proved) |
| `NothingForgotten` | no event is wiped before its handling begins (proved) |
| `NothingStops` | when the loop sleeps, pings, scans, the end of a display and the repetition of a packet are still under way (proved) |
| `Handled` (live) | every event is handled, with or without a byte in the pipe |
| `LocksExpire` (live) | a lock nobody gives back disappears, though its own timer does not do it |

A token of the critical section that were not given back would stop the loop, and `Handled` with it.  Seen
on the way: `set_lock_timer` stores a time to come and `timeout_lockable` deletes
when twice that has passed, so for two seconds per abandoned lock every reset of the timer finds it
due, and rounds of maintenance follow each other without a pause (`timer.c:619`; the comment
at `timer.c:467` says about a second).  Fairness: time passes, the handler is
run, the loop goes on.

### Forwarding

`Forward` has four boxes in a chain, the shortest in which a packet can be overheard two boxes on
and overtake itself, two broadcasts, and numbers modulo 4 that start at the last one, so that they
wrap at once and two are half of them.  Five sets of scenarios: `Overhear` (a packet lost),
`Middle` (an Ethernet between two boxes out of each other's range), `Both` (two that are in range of each
other: one broadcast, one frame unread per interface), `Newcomer` (a beacon still to come), `Again`
(a restart).

| property | says |
|---|---|
| `AtMostOnce` | a box hands a frame on under the numbers of an originator no more often (counted up to two) than that one numbered it, until the originator has used half of its numbers; and where no two boxes on the Ethernet reach each other by radio (`Apart`), a box's clients see each broadcast once; as long as it knows the originators (proved) |
| `Delivered` | nothing lost, everybody is served, though boxes leave out whom they think others have served: but for frames that a box dropped though they were newer (proved) |
| `CalmsDown` (live) | packets of an originator yet unknown go back and forth only until its beacon comes, if `Apart`; two boxes that hear each other by radio and Ethernet never come to rest after a broadcast unless a packet was lost or dropped |

What these say of the code is less than its comments do.

- `new_from_originator` is to say that a message is new if its number is greater
  (`cloud_msg.c:775-779`), and returns an uninitialised variable just then.  A build may
  return either; in the model both happen, so `Delivered` exempts the frames dropped.  If the build
  returns true, `refused` stays empty, and the exemption with it.
- Boxes joined by Ethernet and radio at once: a comment says that an Ethernet neighbor gets a
  broadcast "at most once" (`cloud_msg.c:971-974`).  What one box unwraps onto the wire the other
  takes for a client's, gives a new number and sends back by radio, where the first puts it
  onto the wire again.  Scenario `Both` has it: copies of one frame are handed on any number of times,
  each under another number.  The first part of `AtMostOnce` says that no number is used twice
  even then, the second part of `CalmsDown` that it does not end by itself.
- `stp_nbr_needs_transmit` never finds that a neighbor has heard a packet directly
  (`cloud_msg.c:904-909`), so packets are relayed that need not be.
- A packet that overtakes an earlier one of its originator makes that one old, so that it is
  dropped (`cloud_msg.c:836`); `Delivered` says that no box is left out by it while all packets are heard.

Fairness: what has arrived is read, and beacons keep coming; of the two answers to a newer number neither is
assumed to come.

### AdHocClient

`AdHoc` has two boxes and two clients, one beacon on a wire at a time, and seven scenarios: a client
both hear; both parts of a tree serving the same one before they join; broadcasts of two
clients with a frame missed or the blocks wiped; one that walks from box to box; a box
switched off that hears its client better than the other, worse, or just as well.

| property | says |
|---|---|
| `TypeOK` | also: a box serves no more clients than it has room for (proved) |
| `OverlapEnds` (live) | two boxes that serve one client do not do so for ever |
| `Adopted` (live) | a client is not left without a server for ever, if a live box knows it and has room, and, where its box was switched off, hears it better than that one did |
| `BoxesAreNoClients` (live) | a box taken for a client disappears from all lists |
| `EchoNeedsFault` | a broadcast comes back as the client's own only after a block was lost or wiped, once for each (proved) |

`Adopted` has one exception, `HeardNoBetter`, which is a disagreement with the code's own
comment: `ad_hoc_clients_unserved` (`ad_hoc_client.c:64-91`) is to mark the clients of a box that
was switched off as having no server, but walks a list that `process_stp_beacon_msg`
(`stp_beacon.c:572-603`) never fills.  So they are only taken over by a box that
hears them better than the one switched off did; a client heard worse, or just as well, stays
without a server.  With three boxes, claims that cross in a chain can chase
each other for ever if rounds always come in the worst order, which
random intervals do not do; so the live runs have two.  `ad_hoc_client.c:186` deletes the
entries behind the one meant: in the model (`Cut`), without a property.  Fairness: rounds come however
full the wires are (strong, since the bound on beacons in flight disables them), what was sent is read,
stations heard are noticed, and blocks time out.  A takeover is drawn at random in each round, with a
probability above 0 for any gain, so it comes in the end: where a round has nothing else to change,
fairness of rounds says so.

### ShellFtp

`ShellFtp`, three tries and two chunks given up in a row, five histories of sessions.  Three is the
number of tries in the code; `MaxErrors` (10 in the code) only says when the client gives up the file.

| property | says |
|---|---|
| `NoMixture` | a file on the box is the beginning of the one sent, no chunk missing, twice or of another file, unless the name of a file was lost after another mishap (proved) |
| `Complete` | fewer mishaps than tries, and the files are all there (proved) |
| `PrintedInOrder` | no output twice, none out of order, whatever is late (proved) |
| `NotDeaf` | fewer mishaps than tries, and the client still expects a number to come (proved) |
| `PutEnds` (live) | a client that puts files gets to its end: without any mishap on any network, and whatever is lost or late if timeouts come (`TimeoutsCome`) |

What these allow, because the code does it: a chunk given up is skipped, so that the rest of the
file is refused and the file is short, and nobody is told (`transfer_file` returns an error after eleven
chunks in a row, and says "after three attempts, give up"); three losses of one output
make a shell client deaf; a command typed while the server waits for an acknowledgement
is dropped (`com_util.c:577`); a disk that takes a part of a chunk has the part and the chunk
(`com_util.c:805`); and a late answer to the start message is printed as output.
Fairness: both processes run and read what comes; users, losses and timeouts need not come.  That
timeouts do is a premise of `PutEnds`, since the code does not see to it: `recv_seq_message`
(`ll_shell_ftp.c:436-482`, `com_util.c:519-581`) waits anew, for a second or a tenth of one, after
each frame of anybody's that its socket reads, so that with other frames more often than that a lost answer leaves
the client waiting for ever.

### Mutants

For every property of a passing run a variant of a definition stands before it
in the module (`KeepGranted`, `DropNothing`, `AnyChunk`, ...) with which the run fails.

## 5. What is proved

### CloudMod

For every finite set of boxes, every starting tree without arcs from a box to itself,
and every budget (the named assumptions of `CloudMod`):

- `TypeCorrect`: `Spec => []TypeOK`.  Beyond types, no box is its own neighbor, has an
  arc to itself or an entry for itself in `stp_recv_beacons`.  The invariant is inductive
  as it stands; the proof has a lemma per sending operator (what is sent is a sequence
  of frames), one per handler, and one per group of variables, so that a handler's proof
  only speaks of what it changes.
- `OneChangeCorrect`: `Spec => []OneChangeAtATime`.  What a box has pending and owns are
  parts of one invitation, or of one swap at one stage.  It is inductive together
  with `TypeOK`.  `PartOfOneChange`: whatever drops entries keeps it.  Every step only
  drops entries, except three: the two that start an attempt, which begin with empty lists,
  and the grant.  `GrantOneChange` is the heart: the granted entry is
  one of the two requests, so nothing but the other request is pending, and the other lock, if owned,
  is of the other type and of the same swap; so `process_local_connect` swaps the right arcs,
  although it takes whichever lock it finds.
- `LocksImplemented`: `Timely => (Spec => LocksSpec)`, the refinement of `ArcLock`.  A box
  claims an arc if it owns it, or asks for it while the grant that answers is in the
  channel.  `Exclusive` says that the two ends of an arc never both claim it, and that is
  what makes a grant a step of `ArcLock`, since the receiver of a grant cannot look at the
  other end.  A claim arises in two steps only.  A box grants, and refuses if it asks for
  or owns the same arc; or a box asks anew, and then `Timely` says that no grant of
  the last attempt is left.  Every other step maps to giving up arcs, or to a stutter.

### ParmChange

For every finite set of boxes, every `Nbr`, `Stp` and `Via` without loops from a box to
itself, and every budget:

- `TypeCorrect`: `Spec => []TypeOK`, with the fact that no originator waits for itself.
- `OneLockCorrect`: `Spec => []OneLock`.  Since `has_lock` never finds anything
  (`HasLockNever`), a lock is only ever added where there is none, and a box begins a
  change of the tree only when it has granted none.
- `GoCorrect`: `Ideal => (Spec => GoNeedsEveryLock)`, where `Ideal` is the conjunction of
  the three conditions above.  `OneLock` does not suffice: an originator counts answers,
  and a lock may be gone when its answer is counted.  The invariant `Told` says what
  answers are worth: whenever a proposal of o or an answer to it is in flight, all
  boxes in `have_lock[o]` are locked for o, and so is the sender of every answer on its
  way to o.  Each condition is needed for one step: hearing each other for `ProcessStart`
  (the answer goes to the originator and to nobody else), timely answers for `Expire`,
  no late denial for `DeniedAgain`.  `CommitStep` draws the conclusion: the last answer
  completes `have_lock`, so all are locked, and `OneLock` makes them idle.
- `AgreementCorrect`: `Ideal /\ OneCloud => (Spec => []Agreement)`.  `OneCloud`: each box has a
  way to each other along the tree, so that an originator waits for all of them.  On top
  of `Told`, `Alive` says that whoever has a proposal under way is locked for itself, and `Sole`
  that nobody has sent the go-ahead, or one box o has, every box that changed took the
  parameters of o, and no proposal of another box has the answer of o or will get it.
  So all copies of the go-ahead, however often
  repeated, bear the same parameters.  Without `OneCloud` two clouds that hear each other may
  change to different parameters, each with its own.

### Link

For every tree of boxes, all packets and every width of the numbers:

- `LinkTypes`: `Spec => []TypeOK`, with a lemma per operator that builds a frame or a state of a link.
- `AckTimeoutNotLost`: `Spec => []TimerCovers`.  Inductive together with `TypeOK`: the only steps
  that turn the timer off look at all links first (`turn_off_ack_timer`), and every step that begins
  to wait turns it on.
- `InOrderOnEveryTree`: `Spec => []InOrderOnce` under `Trees`: in every scenario the links are a
  tree and no packet is sent twice.  For a tree, a `Way` names the box a packet comes from and the boxes
  on either side of a link.  The invariant speaks of one link at a time: what is still to be
  read there comes after the head held and after all that came over it before, in the order
  of the source (`Ordered`), and all of it was passed on by the box before
  (`Forwarded`).  The last is what a relay with several links needs: it sends on at once
  what it reads, so the order on the next link is the order on this one.  That
  `todo` is the rest of the scenario's list is `Remaining`.
- `MixturesNeedTwoLosses`: `Spec => []MixtureNeedsTwoLosses`, for any graph.  `Unmixed`: on
  every link a head is directly followed by its own tail, and a tail has its head directly before it unless
  it is read next; if a head is held, its own tail is read next, or, after one loss, no tail, and after two anything.  So all
  that is held, under way or read is whole, unless some link has lost two frames.
- `TallyOnEveryTree`: `Spec => []TallyBounds` under `Trees` and `FewFrames` (the packets of a scenario take
  no more frames than there are numbers).  The code looks at numbers modulo `W`; the proof gives every frame of a
  link the place it would have if the numbers never wrapped, and says of the last number
  accepted, of the frames under way and of those lost which places they have.  A gap between two numbers is
  then the number of places between them, and each frame lost lies in one gap, or, once more, in the gap
  left by a head whose tail came alone.
- `NothingMissingOnTrees`: `Spec => []NothingMissing` for `W > 1` (256 in the code) under `OneTree`: the boxes
  are one tree, all of whose links carry all packets.  `Arrivals`: a link with
  flow control is idle, announced, being read, or answered, and in each of these
  phases it is known which frames are under way and what either end waits for; on a link without
  flow control nothing is waited for.  What was sent over a link is read already or still on its way
  (`CameBy`), so when nothing is on its way the neighbors of the source have all, and theirs, and so on.
  `W > 1`, since with one number every announcement would pass for the last one repeated.

### MainLoop

For every set of locks and every length of the intervals:

- `TypesKept`: `Spec => []TypeOK`; the alarm, once set, runs or has sent its signal.
- `AlarmNeverLate`: `Spec => []AlarmCovers`.  Everything depends on `set_next_alarm`
  (`AlarmSet`): whoever changes a timer sets the alarm for the least of all timers, and the
  handler does so last; between the two halves of setting a timer the one half set is exempt.
- `EventsKept`: `Spec => []NothingForgotten`: the flags cleared at the beginning of a pass are those
  whose handling begins there, all others are cleared in the step that handles them.
- `LoopNeverStops`: `Spec => []NothingStops`.  The property speaks of the loop asleep; `GoesOn` says it of
  every step: a timer that must go on has a time or an event (`Underway`), or is in the
  list of those the running handler has still to set (`Listed`), and while a display or a packet wants its
  timer, that timer is in use.

### Forwarding

`HandedOnOnce`: `Spec => []AtMostOnce`, for any number of boxes, tree, choice of who hears whom, of who is on the
Ethernet, buffer and loss, wherever the numbers start and wrap, and whichever answer
`new_from_originator` gives where it does not set one.  One condition, `FewFrames`:
`2 * Frames <= Modulus + 1`, clients send no more broadcasts than half of the numbers.  The two parts
of the property have an invariant each.

The first (`GInv`): for each box a list `l` of the frames it has numbered, in order.  As long as an
originator o has used no more than half of its numbers (`Few`), a packet of o on the air stands in `l[o]` at the
place of its number (`InAir`), a box's last number for o is one in `l[o]` (`LastOf`), and the times a box
has handed a frame on under numbers of o are at most the places of that frame in `l[o]` up to that last number (`Placed`).
`new_from_originator` passes only places further on (`NewerIsLater`), so none is counted twice.  Nothing is said
of where the boxes are: it holds for boxes in each other's range on the Ethernet as well.

The second (`IInv`), where they are apart: on top of the lists, for each frame the box
`s` that put it on the wire.  `Numbering` and `OnAir`: on the air, a packet of originator o with the k-th number
is the k-th frame of `l[o]`, in the part of o, and no frame stands in two lists of one part.
`OnWire` and `Crossed`: a frame crosses the wire once, since there is one wired box per part.  `Handled`: a box whose clients
saw a frame has a last number for its originator that is no older, so that
`new_from_originator` refuses every other copy.  Here no box uses up half of its numbers, by `FewFrames`.  Both exempt
behaviours in which a box lacks an originator's beacon (`gaps`), as the property does.

`DeliveredToAll`: `Spec => [](Apart /\ Spanned(scenario.part) => Delivered)`, the other half: nothing lost, everybody is
served, but for frames dropped though newer.  Its
condition on the constants is `FewFrames`; those on the scenario are `Apart` and `Spanned`: radio neighbors hear each
other, nobody hears itself, the tree leads from
everywhere to everywhere, its branch towards a box of the same part is a radio neighbor, and
parts are joined by boxes on the Ethernet.  All scenarios of the run but `Both` are such.  A frame dropped though newer
counts as seen (`Served`), since the last number moves on as if it had been handed on.  `Flows`: in every queue the
packets of an originator stand in the order of their numbers with none left out, behind those the reader has seen
(`InTurn`); whoever has a second radio neighbor hands on what it hears (`TwoNeighbors`), and whoever is wired puts it
on the wire or takes it off (`Across`); and as nothing was lost, nobody's buffer was ever full (`HeardByAll`).  When
nothing is on its way, what one box of a part has numbered was therefore handled by its branch
towards each other box, by the branch of that, and so on (`ThroughPart`), and the wire takes it to the other parts.

### AdHocClient

For every finite set of boxes and of clients and all limits:

- `TypeCorrect`: `Spec => []TypeOK`.  A round claims, takes over, hears of and removes entries in one
  step, each time bounded by another test; the proof follows the lists through it: each holds a client once, is
  no longer than there is room for, and a box serves at most `PerBox` of them.  Operators that walk
  a list (`Only`, and what builds on it) are recursive functions, whose lemmas come from `SetInduction`.
- `EchoesHaveCauses`: `Spec => []EchoNeedsFault`.  `EchoInv`: each frame put out in a client's name comes directly behind its
  block (`Announced`), and the echoes so far, plus the boxes about to read such a frame with
  no block in force (`Bare`), are at most the faults so far.  Reading a block only makes boxes less bare;
  losing one, or wiping the blocks of a box, makes at most one box bare and counts as a fault.

### ShellFtp

For any sequence of sessions, any numbers of tries and of errors, any losses and late answers:

- `OutputInOrder`: `Spec => []PrintedInOrder`.  The server repeats an output under the number it had, and a new session
  starts again; `OutInv` says that all frames with one output bear one number, outputs under way are in
  order, and a client in shell mode is past the numbers of what it printed.
- `FilesKeptApart`: `Spec => []NoMixture`.  What the server will do with a frame depends on the frames before it in the queue,
  and the invariant says it of each: `Found`, a chunk finds its own file named by then, or,
  when one name was missed, no file open; `Shut`, before the first mishap a file is closed before the
  next is named; `Steady`, before the first mishap the one chunk, or the one answer, under way is the one
  that is waited for, so that no chunk is given up; `Written`, a file on the disk is
  the first chunks of the one sent, as many as `recv` says for the one being written.  The exceptions of the
  property are those of the invariant: `Shut` and `Steady` end with the first mishap, and a name missed after
  that may leave chunks in the file before (`Mild`).
- `NoShellDeaf`: `Spec => []NotDeaf`.  `HearInv`: for each number the server has used, the client expects a later
  one, or there are still so many frames with that number under way, and so many sends to come, that they
  cannot all be lost or be too late with fewer than `Tries` mishaps (`Covered`).  It needs that outputs under
  way and in the server are in turn (`OutputsInTurn`), and that before the shell was started nothing counts (`Started`).
- `FilesArrive`: `Tries <= MaxErrors + 1` implies `Spec => []Complete`.  The hypothesis holds in the code, 3 <= 11;
  without it a client may give up the whole file first, and TLC finds `Complete` violated with 4 tries and 1 error.
  A late answer makes a client send a chunk twice, the copy is refused, and the refusal may be read as the answer to
  the next chunk, which is then tried too often as well: one mishap has many consequences.  `CarriedInv` bounds them.
  For the chunk the client is at (`Flight`), it is still due; or on its way, with nothing before it that
  would make the server expect another; or taken, with its answer on the way; or taken and its answer lost.  In
  each case the chunks and replies under way that are good for nothing, the attempts made, and the chunks
  given up in a row are counted against the mishaps so far (`Loose`, `ComingAt`, `TakenAt`), which are fewer than
  `Tries`.  So a chunk given up is one the server has, and the file goes on.  `Results` carries that to
  the disk: the files before the one the client is at are whole, or empty with their name still under way.

### Only model-checked

- Everything about liveness and fairness: tlapm cannot reason about ENABLED.
- `NoTriangle` and `NoHalfArcsLeft` of `CloudMod`.  They are statements about three boxes, and about one
  swap.  `NoTriangle` is false with four boxes, as TLC
  shows: let A-B, B-C and A-K be arcs.  C swaps its arc to B for one to K; A, which still
  has C's beacons from B, swaps its arc to B for one to C; and A, K and C are a triangle.  Each
  swap is right by the beacons its box has seen.

## 6. What is not modelled

Listed with reasons under `components` in `PROJECT.json`: displays, configuration scripts, the
readers of hardware beacons, pipes, counters, encryption and formatting have no protocol state or
only input and output.  Of the modelled parts: unicast packets of clients (one lookup and one send),
fetching a file and log files over the link-level shell, the argument parsing of `main`.
