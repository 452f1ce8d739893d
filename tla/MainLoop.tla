-------------------------------- MODULE MainLoop --------------------------------
(***************************************************************************)
(* One box between its two halves: the main loop of merge_cloud.c, and the *)
(* SIGALRM handler of timer.c that may run between any two of its steps.   *)
(* The handler does no work; it raises flags (got_interrupt), sets the next*)
(* alarm and writes a byte to a pipe on which the loop's select waits. The *)
(* loop calls set_next_alarm too, whenever it sets a timer, and so may     *)
(* raise flags itself, with no byte in the pipe.                           *)
(*                                                                         *)
(* Time is counted in ticks still to go. A timer is due when it is past,   *)
(* never at the very instant; set_alarm asks for at least one tick.        *)
(***************************************************************************)
EXTENDS Integers, Sequences, FiniteSets

CONSTANTS Lock,       \* entries of the lists of locks
          StpWait,    \* what neg_exp may give, added up until it is not past
          EthWait,    \* intervals[process_eth_beacon]
          AckWait, PingWait, PrintWait, DisableWait, ScanWait,
          LockWait,   \* RECV_TIMEOUT_USEC
          Scenarios   \* what Init chooses from

Periodic == {"send_stp", "process_eth_beacon"}
OneShot  == {"noncloud_message", "lockable_timeout", "print_cloud", "ping_neighbors",
             "disable_print_cloud", "wifi_scan"}
Timer    == Periodic \cup OneShot
Command  == {"i", "d", "t"}
Scenario == [used : {u \in SUBSET Timer : Periodic \subseteq u},
             commands : SUBSET Command, typed : Nat]

ASSUME ConstAssumption ==
  /\ StpWait # {} /\ StpWait \subseteq Nat
  /\ {EthWait, AckWait, PingWait, PrintWait, DisableWait, ScanWait, LockWait}
       \subseteq Nat \ {0}
  /\ Scenarios \subseteq Scenario
  \* a display that may be turned on has the timer that ends it
  /\ \A x \in Scenarios : "d" \in x.commands => "disable_print_cloud" \in x.used

Past == -1
Off  == -2               \* tv_sec is -1
Gone == -(LockWait + 1)  \* a lock this old is deleted
None == Gone - 1         \* no such lock

Wait == [t \in OneShot |-> CASE t = "noncloud_message"    -> AckWait
                             [] t = "lockable_timeout"    -> LockWait
                             [] t = "print_cloud"         -> PrintWait
                             [] t = "ping_neighbors"      -> PingWait
                             [] t = "disable_print_cloud" -> DisableWait
                             [] t = "wifi_scan"           -> ScanWait]

VARIABLES
  scenario,   \* what Init chose
  typed,      \* commands the operator may still give
  pc,         \* where the main loop is
  times,      \* times[]
  got,        \* got_interrupt[]
  alarm,      \* the interval timer, until it expires
  signal,     \* it has expired and SIGALRM is pending, whatever is set since
  bytes,      \* interrupt_pipe is readable
  readBytes,  \* FD_ISSET(interrupt_pipe[0]) when select returned
  readInput,  \* some other descriptor was readable
  token,      \* bytes in the pipe of the critical section
  fake,       \* fake_interrupt
  arming,     \* timers the running handler has still to set, in order
  half,       \* the first of them holds the time of now, its wait to be added
  locks,      \* per lock, until it times out
  awaiting,   \* awaiting_ack()
  display,    \* db[38] or db[30]
  answers,    \* neighbors have still to answer a beacon
  owed        \* history: events raised that no handling has answered yet

envVars  == <<scenario, typed>>
timeVars == <<times, got, alarm, owed>>
readVars == <<bytes, readBytes, readInput>>
armVars  == <<arming, half>>
boxVars  == <<locks, awaiting, display, answers>>
vars == <<envVars, pc, timeVars, signal, readVars, token, fake, armVars, boxVars>>

Using(t) == t \in scenario.used

Points == {"start", "select", "pipe", "eth", "ack", "input", "done", "clear", "post",
           "ping", "disable", "print", "scan", "exit"}

TypeOK ==
  /\ scenario \in Scenario
  /\ typed \in Nat
  /\ pc \in Points
  /\ times \in [Timer -> {n \in Int : n >= Off}]
  /\ got \in [Timer -> BOOLEAN]
  /\ alarm \in Nat
  /\ alarm = 0 => pc = "start" \/ signal
  /\ token \in Nat
  /\ signal \in BOOLEAN /\ bytes \in BOOLEAN /\ readBytes \in BOOLEAN
  /\ readInput \in BOOLEAN /\ fake \in BOOLEAN /\ half \in BOOLEAN
  /\ awaiting \in BOOLEAN /\ display \in BOOLEAN /\ answers \in BOOLEAN
  /\ arming \in Seq(OneShot)
  /\ half => arming # <<>>
  /\ locks \in [Lock -> None .. LockWait]
  /\ owed \in [Timer -> BOOLEAN]

Init ==
  /\ scenario \in Scenarios
  /\ typed = scenario.typed
  /\ pc = "start" /\ signal = FALSE
  /\ times = [t \in Timer |->
                CASE ~ Using(t)                                   -> Off
                  [] t \in {"noncloud_message", "lockable_timeout"} -> Off
                  [] t \in Periodic                               -> 0
                  [] OTHER                                        -> Past]
  /\ got = [t \in Timer |-> FALSE]
  /\ alarm = 0
  /\ bytes = FALSE /\ readBytes = FALSE /\ readInput = FALSE
  /\ token = 1
  /\ fake = FALSE
  /\ arming = <<>> /\ half = FALSE
  /\ locks = [l \in Lock |-> None]
  /\ awaiting = FALSE /\ display = FALSE /\ answers = FALSE
  /\ owed = [t \in Timer |-> FALSE]

-----------------------------------------------------------------------------
(* timer.c                                                                 *)

Due(tm, t) == tm[t] # Off /\ tm[t] < 0

(* The timers the alarm is set for, and set_alarm. AllButAck and SetAlarm0*)
(* are a timer left out, and a request for no time at all.                 *)
Pending(tm)    == {t \in Timer : tm[t] # Off}
AllButAck(tm) == {t \in Timer \ {"noncloud_message"} : tm[t] # Off}
Waiting(tm)    == Pending(tm)
SetAlarm0(n)   == alarm' = n
AtLeastOne(n)  == alarm' = IF n = 0 THEN 1 ELSE n
SetAlarm(n)    == AtLeastOne(n)

(* set_next_alarm, with times[] as tm: what is due is noted and is set     *)
(* again or turned off, and the alarm goes off for the next. (What is noted*)
(* afresh each time, in NotedAnew, forgets what nobody has yet answered.)  *)
Raised(flags, tm) == [t \in Timer |-> flags[t] \/ Due(tm, t)]
NotedAnew(tm)     == [t \in Timer |-> Due(tm, t)]
Noted(tm)         == Raised(got, tm)

SetNextAlarm(tm) ==
  \E w \in StpWait :
    /\ times' = [t \in Timer |-> IF ~ Due(tm, t) THEN tm[t]
                                 ELSE CASE t = "send_stp"           -> w
                                        [] t = "process_eth_beacon" -> EthWait - 1
                                        [] OTHER                    -> Off]
    /\ got'   = Noted(tm)
    /\ owed'  = Raised(owed, tm)
    /\ \E t \in Waiting(times') : /\ \A u \in Waiting(times') : times'[t] <= times'[u]
                                  /\ SetAlarm(times'[t])

(* reset_lock_timer: the lock that times out first sets the timer, even    *)
(* when its time is past.                                                  *)
Held(lk)  == {l \in Lock : lk[l] # None}
First(lk) == {l \in Held(lk) : \A k \in Held(lk) : lk[l] <= lk[k]}
LockTime(lk) == IF Held(lk) = {} THEN {Off}
                ELSE {IF lk[l] < 0 THEN Past ELSE lk[l] : l \in First(lk)}
ResetLockTimer(lk) ==
  /\ locks' = lk
  /\ \E n \in LockTime(lk) : SetNextAlarm([times EXCEPT !["lockable_timeout"] = n])

(* SIGALRM: repeated. Without its byte (NoByte) the loop would sleep on.   *)
NoByte   == bytes' = bytes
WithByte == bytes' = TRUE
SendInterruptPipeChar == WithByte

Repeated ==
  /\ signal
  /\ signal' = FALSE
  /\ SendInterruptPipeChar
  /\ SetNextAlarm(times)
  /\ UNCHANGED <<envVars, pc, token, fake, armVars, boxVars, readBytes,
                 readInput>>

(* The signal is delivered before time goes on.                            *)
Later(n) == IF n = Off THEN Off ELSE IF n > Past THEN n - 1 ELSE Past
Tick ==
  /\ pc # "start" /\ ~ signal
  /\ alarm' = alarm - 1
  /\ signal' = (alarm = 1)
  /\ times' = [t \in Timer |-> Later(times[t])]
  /\ locks' = [l \in Lock |-> IF locks[l] > Gone THEN locks[l] - 1 ELSE locks[l]]
  /\ UNCHANGED <<envVars, pc, readVars, token, fake, armVars, got, owed, awaiting,
                 display, answers>>

-----------------------------------------------------------------------------
(* The timers a handler sets: set_next_ping_alarm, set_next_scan_alarm,    *)
(* update_ack_timer, set_next_cloud_print_alarm. The time of now is stored *)
(* first and the wait is added in a second step: the signal may come in    *)
(* between, find the timer due and turn it off, and what is added to -1    *)
(* seconds is still -1 or, with a carry, long past.                        *)

ArmNow ==
  /\ arming # <<>> /\ ~ half
  /\ LET t == Head(arming) IN
     IF times[t] # Off \/ ~ Using(t)
     THEN arming' = Tail(arming) /\ UNCHANGED <<times, half>>
     ELSE times' = [times EXCEPT ![t] = 0] /\ half' = TRUE /\ UNCHANGED arming
  /\ UNCHANGED <<envVars, pc, signal, readVars, token, fake, boxVars, got,
                 alarm, owed>>

Added(n, wait) == IF n = Off THEN {Off, Past} ELSE {n + wait}
ArmAdd ==
  /\ half
  /\ LET t == Head(arming) IN
     \E n \in Added(times[t], Wait[t]) : SetNextAlarm([times EXCEPT ![t] = n])
  /\ half' = FALSE
  /\ arming' = Tail(arming)
  /\ UNCHANGED <<envVars, pc, signal, readVars, token, fake, boxVars>>

Arm(ts) == arming' = ts
Idle    == arming = <<>>
Answer(ts) == /\ got'  = [t \in Timer |-> got[t] /\ t \notin ts]
              /\ owed' = [t \in Timer |-> owed[t] /\ t \notin ts]

-----------------------------------------------------------------------------
(* merge_cloud.c, main                                                     *)

Start ==
  /\ pc = "start"
  /\ SetNextAlarm(times)
  /\ pc' = "select"
  /\ UNCHANGED <<envVars, signal, readVars, token, fake, armVars, boxVars>>

(* select returns for a byte in the pipe or for input, and the critical    *)
(* section is entered. A signal while it waits (EINTR) makes it wait again.*)
Select(in) ==
  /\ pc = "select" /\ Idle
  /\ bytes \/ in
  /\ readBytes' = bytes
  /\ readInput' = in
  /\ token > 0 /\ token' = token - 1
  /\ pc' = "pipe"
  /\ UNCHANGED <<envVars, timeVars, signal, fake, armVars, boxVars, bytes>>

(* read_all_available; without a byte the flags of this part wait.         *)
ReadPipe ==
  /\ pc = "pipe" /\ Idle
  /\ IF readBytes THEN bytes' = FALSE /\ pc' = "eth" ELSE bytes' = bytes /\ pc' = "input"
  /\ UNCHANGED <<envVars, timeVars, signal, token, fake, armVars, boxVars,
                 readBytes, readInput>>

EthBeacon ==
  /\ pc = "eth" /\ Idle
  /\ Answer({"process_eth_beacon"})
  /\ pc' = "ack"
  /\ UNCHANGED <<envVars, signal, readVars, token, fake, armVars, boxVars,
                 times, alarm>>

(* resend_packets announces the packets that wait again.                   *)
Resend ==
  /\ pc = "ack" /\ Idle
  /\ Answer({"noncloud_message"})
  /\ IF got["noncloud_message"] /\ awaiting THEN Arm(<<"noncloud_message">>)
                                            ELSE arming' = arming
  /\ pc' = "input"
  /\ UNCHANGED <<envVars, signal, readVars, token, fake, boxVars, times,
                 alarm, half>>

InputUnchanged == UNCHANGED <<signal, readVars, token, scenario, half>>
AtInput == pc = "input" /\ Idle /\ pc' = "done"

(* Nothing was read, or nothing that matters to the timers.                *)
NoInput ==
  /\ AtInput
  /\ UNCHANGED <<timeVars, fake, boxVars, typed, arming>>
  /\ InputUnchanged

(* A message grants, takes or gives back a lock: set_lock_timer.           *)
LockMessage ==
  /\ AtInput /\ readInput /\ Using("lockable_timeout")
  /\ \E l \in Lock :
       ResetLockTimer([locks EXCEPT ![l] = IF locks[l] = None THEN LockWait ELSE None])
  /\ UNCHANGED <<fake, typed, arming, awaiting, display, answers>>
  /\ InputUnchanged

(* A neighbor has had our beacon (process_stp_beacon_recv_msg): nothing of *)
(* ours waits for that, but the timer of the locks is set again.           *)
BeaconAnswer ==
  /\ AtInput /\ readInput /\ answers /\ Using("lockable_timeout")
  /\ answers' = FALSE
  /\ ResetLockTimer(locks)
  /\ UNCHANGED <<fake, typed, arming, awaiting, display>>
  /\ InputUnchanged

(* Flow control: a packet is announced (update_ack_timer), or the last     *)
(* acknowledgement arrives (turn_off_ack_timer).                           *)
Announce ==
  /\ AtInput /\ readInput /\ Using("noncloud_message")
  /\ awaiting' = TRUE
  /\ Arm(<<"noncloud_message">>)
  /\ UNCHANGED <<timeVars, fake, typed, locks, display, answers>>
  /\ InputUnchanged

Acknowledged ==
  /\ AtInput /\ readInput /\ awaiting
  /\ awaiting' = FALSE
  /\ SetNextAlarm([times EXCEPT !["noncloud_message"] = Off])
  /\ UNCHANGED <<fake, typed, arming, locks, display, answers>>
  /\ InputUnchanged

(* Commands of the operator: 'i' forces a round, in the next turn of the   *)
(* loop; 'd 2038' keeps the display of the cloud going                     *)
(* (restart_disable_print_cloud); 't' forgets the locks.                   *)
Type(c) == AtInput /\ readInput /\ typed > 0 /\ typed' = typed - 1 /\ c \in scenario.commands

ForceRound ==
  /\ Type("i")
  /\ got'  = [got EXCEPT !["send_stp"] = TRUE]
  /\ owed' = [owed EXCEPT !["send_stp"] = TRUE]
  /\ fake' = TRUE
  /\ SendInterruptPipeChar
  /\ UNCHANGED <<signal, token, armVars, boxVars, times, alarm, scenario,
                 readBytes, readInput>>

(* set_next_cloud_print_alarm when the display is on. It returns when both *)
(* timers are set; returning when one of them is would be EitherSet.       *)
BothSet(tm)   == tm["print_cloud"] # Off /\ tm["disable_print_cloud"] # Off
EitherSet(tm) == tm["print_cloud"] # Off \/ tm["disable_print_cloud"] # Off
AlreadySet(tm) == BothSet(tm)
ArmPrint(tm) == IF AlreadySet(tm) THEN arming' = arming
                ELSE Arm(<<"print_cloud", "disable_print_cloud">>)

KeepDisplay ==
  /\ Type("d")
  /\ display' = TRUE
  /\ LET tm == [times EXCEPT !["disable_print_cloud"] = Off] IN times' = tm /\ ArmPrint(tm)
  /\ UNCHANGED <<fake, got, alarm, owed, locks, awaiting, answers>>
  /\ InputUnchanged

ForgetLocks ==
  /\ Type("t")
  /\ locks' = [l \in Lock |-> None]
  /\ UNCHANGED <<timeVars, fake, arming, awaiting, display, answers>>
  /\ InputUnchanged

(* The rounds: timeout_lockables and send_stp_beacon, whose                *)
(* ensure_disable_print_cloud looks after the timer of the display.        *)
Rounds == {"send_stp", "lockable_timeout"}

Done ==
  /\ pc = "done" /\ Idle
  /\ pc' = IF ~ fake /\ \E t \in Rounds : got[t] THEN "clear" ELSE "ping"
  /\ UNCHANGED <<envVars, timeVars, signal, readVars, token, fake, armVars, boxVars>>

Clear ==
  /\ pc = "clear" /\ Idle
  /\ got' = [t \in Timer |-> got[t] /\ t \notin Rounds]
  /\ pc' = "post"
  /\ UNCHANGED <<envVars, signal, readVars, token, fake, armVars, boxVars,
                 times, alarm, owed>>

(* timeout_lockable asks for twice the time the timer was set to.          *)
(* (DeletedByTimer would leave it to the timer alone.)                     *)
TooOld(lk)         == {l \in Lock : lk[l] = Gone}
DeletedByTimer(lk) == {l \in TooOld(lk) : times["lockable_timeout"] # Off}
Deleted(lk)        == TooOld(lk)

PostMaintenance ==
  /\ pc = "post" /\ Idle
  /\ locks' = [l \in Lock |-> IF l \in Deleted(locks) THEN None ELSE locks[l]]
  /\ answers' = TRUE
  /\ owed' = [t \in Timer |-> owed[t] /\ t \notin Rounds]
  /\ IF times["disable_print_cloud"] # Off THEN UNCHANGED <<times, arming>>
     ELSE IF display THEN ArmPrint(times) /\ times' = times
     ELSE times' = [times EXCEPT !["print_cloud"] = Off] /\ arming' = arming
  /\ pc' = "ping"
  /\ UNCHANGED <<envVars, signal, readVars, token, fake, got, alarm, half, awaiting,
                 display>>

AtEnd(at, next) == pc = at /\ Idle /\ pc' = next
EndUnchanged == UNCHANGED <<envVars, signal, readVars, fake, alarm, half, locks,
                 awaiting, answers>>

(* do_ping_neighbors                                                       *)
Ping ==
  /\ AtEnd("ping", "disable")
  /\ Answer({"ping_neighbors"})
  /\ IF got["ping_neighbors"] THEN Arm(<<"ping_neighbors">>) ELSE arming' = arming
  /\ UNCHANGED <<token, times, display>>
  /\ EndUnchanged

DisablePrint ==
  /\ AtEnd("disable", "print")
  /\ Answer({"disable_print_cloud"})
  /\ display' = (display /\ ~ got["disable_print_cloud"])
  /\ UNCHANGED <<token, times, arming>>
  /\ EndUnchanged

(* do_print_cloud ends in set_next_cloud_print_alarm.                      *)
PrintCloud ==
  /\ AtEnd("print", "scan")
  /\ Answer({"print_cloud"})
  /\ IF ~ (got["print_cloud"] \/ (display /\ times["print_cloud"] = Off))
     THEN UNCHANGED <<times, arming>>
     ELSE IF display THEN ArmPrint(times) /\ times' = times
     ELSE /\ times' = [times EXCEPT !["print_cloud"] = Off, !["disable_print_cloud"] = Off]
          /\ arming' = arming
  /\ UNCHANGED <<token, display>>
  /\ EndUnchanged

(* scan_timer                                                              *)
Scan ==
  /\ AtEnd("scan", "exit")
  /\ Answer({"wifi_scan"})
  /\ IF got["wifi_scan"] THEN Arm(<<"wifi_scan">>) ELSE arming' = arming
  /\ UNCHANGED <<token, times, display>>
  /\ EndUnchanged

(* The critical section is left, and the next turn begins afresh.          *)
Exit ==
  /\ AtEnd("exit", "select")
  /\ token' = token + 1
  /\ readBytes' = FALSE /\ readInput' = FALSE /\ fake' = FALSE
  /\ UNCHANGED <<envVars, timeVars, signal, armVars, boxVars, bytes>>

-----------------------------------------------------------------------------
Handler == EthBeacon \/ Resend \/ Done \/ Clear \/ PostMaintenance \/ Ping
             \/ DisablePrint \/ PrintCloud \/ Scan
Input == NoInput \/ LockMessage \/ BeaconAnswer \/ Announce \/ Acknowledged
           \/ ForceRound \/ KeepDisplay \/ ForgetLocks
Loop == Start \/ Select(FALSE) \/ ReadPipe \/ Handler \/ Input \/ ArmNow \/ ArmAdd \/ Exit

Next == Repeated \/ Tick \/ Loop \/ Select(TRUE)

(* Time passes, signals are delivered and the process is scheduled; input  *)
(* need not come.                                                          *)
Fairness == WF_vars(Tick) /\ WF_vars(Repeated) /\ WF_vars(Loop)
Spec == Init /\ [][Next]_vars /\ Fairness

-----------------------------------------------------------------------------
(* Properties                                                              *)

(* set_next_alarm runs in the handler and in the loop, at any time: the    *)
(* alarm never comes later than the first timer that waits (a timer due    *)
(* now, at the next tick).                                                 *)
AlarmCovers ==
  pc # "start" => \A t \in Timer : times[t] # Off /\ ~ (half /\ t = Head(arming)) =>
                    signal \/ alarm <= IF times[t] > 0 THEN times[t] ELSE 1

(* An event that was raised (by the handler, by the loop itself between two*)
(* of its steps, or by the operator) stays raised until its handling       *)
(* begins, whatever order flags are set and cleared in.                    *)
NothingForgotten ==
  \A t \in Timer : owed[t] => got[t] \/ (t \in Rounds /\ pc = "post")

(* When the loop goes to sleep, what must go on by itself is still under   *)
(* way: pings and scans have a timer or an event to come, a display has one*)
(* that ends it, an announced packet one that repeats it.                  *)
Underway(t) == times[t] # Off \/ got[t]
NothingStops ==
  pc = "select" /\ Idle =>
    /\ \A t \in {"ping_neighbors", "wifi_scan"} : Using(t) => Underway(t)
    /\ display => Underway("disable_print_cloud")
    /\ awaiting => Underway("noncloud_message")

(* Every event raised is handled, also one raised with no byte in the pipe *)
(* while no input comes.                                                   *)
Handled == \A t \in Timer : owed[t] ~> ~ owed[t]

(* A lock that nobody gives back disappears; its own timer does not do     *)
(* that, the beacons' does.                                                *)
LocksExpire == \A l \in Lock : locks[l] # None ~> locks[l] = None
=============================================================================
