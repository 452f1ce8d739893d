---------------------------- MODULE MainLoop_proofs ----------------------------
(* What holds of MainLoop for all waits, all sets of timers and any number  *)
(* of locks, wherever the signal comes.                                     *)
EXTENDS MainLoop, TLAPS

Times == [Timer -> {n \in Int : n >= Off}]
Flags == [Timer -> BOOLEAN]

(* What one call of set_next_alarm leaves behind, by itself.                *)
Covered == \A t \in Timer : times[t] # Off =>
                              alarm <= IF times[t] > 0 THEN times[t] ELSE 1

LEMMA WaitsPositive ==
  /\ \A t \in OneShot : Wait[t] \in Nat \ {0}
  /\ StpWait \subseteq Nat /\ EthWait - 1 \in Nat
  /\ LockWait \in Nat
  /\ None \in Int /\ Gone \in Int /\ None < Gone /\ Gone < 0
BY ConstAssumption DEF OneShot, Wait, None, Gone

LEMMA AlarmSet ==
  ASSUME TypeOK, NEW tm \in Times, SetNextAlarm(tm)
  PROVE  /\ times' \in Times /\ got' \in Flags /\ owed' \in Flags
         /\ alarm' \in Nat \ {0}
         /\ Covered'
         /\ \A t \in Timer : (owed[t] => got[t]) => (owed'[t] => got'[t])
         /\ \A t \in Timer : owed'[t] /\ ~ got'[t] => owed[t] /\ ~ got[t]
<1>1. PICK w \in StpWait :
        times' = [t \in Timer |-> IF ~ Due(tm, t) THEN tm[t]
                                  ELSE CASE t = "send_stp"           -> w
                                         [] t = "process_eth_beacon" -> EthWait - 1
                                         [] OTHER                    -> Off]
  BY DEF SetNextAlarm
<1>2. \A t \in Timer : times'[t] \in Nat \cup {Off}
  BY <1>1, WaitsPositive DEF Due, Times, Off
<1>3. times' \in Times
  BY <1>1, <1>2 DEF Times, Off
<1>4. /\ got' = [t \in Timer |-> got[t] \/ Due(tm, t)]
      /\ owed' = [t \in Timer |-> owed[t] \/ Due(tm, t)]
  BY DEF SetNextAlarm, Noted, Raised
<1>5. got \in Flags /\ owed \in Flags
  BY DEF TypeOK, Flags
<1>6. got' \in Flags /\ owed' \in Flags
  BY <1>4, <1>5 DEF Flags, Due
<1>7. PICK t \in Timer : /\ times'[t] # Off
                         /\ \A u \in Timer : times'[u] # Off => times'[t] <= times'[u]
                         /\ alarm' = IF times'[t] = 0 THEN 1 ELSE times'[t]
  BY DEF SetNextAlarm, Waiting, Pending, SetAlarm, AtLeastOne
<1>8. alarm' \in Nat \ {0} /\ Covered'
  BY <1>2, <1>7 DEF Covered, Off
<1>9. /\ \A u \in Timer : (owed[u] => got[u]) => (owed'[u] => got'[u])
      /\ \A u \in Timer : owed'[u] /\ ~ got'[u] => owed[u] /\ ~ got[u]
  BY <1>4, <1>5 DEF Flags
<1> QED BY <1>3, <1>6, <1>8, <1>9

LEMMA Kinds ==
  /\ Rounds \subseteq Timer /\ OneShot \subseteq Timer
  /\ \A t \in {"noncloud_message", "lockable_timeout", "print_cloud", "ping_neighbors",
               "disable_print_cloud", "wifi_scan"} : t \in OneShot
BY DEF Rounds, OneShot, Timer, Periodic

LEMMA ArmTypes ==
  /\ <<>> \in Seq(OneShot)
  /\ <<"noncloud_message">> \in Seq(OneShot) /\ <<"ping_neighbors">> \in Seq(OneShot)
  /\ <<"wifi_scan">> \in Seq(OneShot)
  /\ <<"print_cloud", "disable_print_cloud">> \in Seq(OneShot)
BY DEF OneShot

LEMMA ChangedTimes ==
  ASSUME NEW tm \in Times, NEW t, NEW n \in Int, n >= Off
  PROVE  [tm EXCEPT ![t] = n] \in Times
BY DEF Times

LEMMA OffOK == Off \in Int /\ Off >= Off /\ Past \in Int /\ Past >= Off
BY DEF Off, Past

LEMMA LockTimeOK ==
  ASSUME NEW lk \in [Lock -> None .. LockWait], NEW n \in LockTime(lk)
  PROVE  n \in Int /\ n >= Off
<1>1. \A l \in Lock : lk[l] \in Int
  BY WaitsPositive
<1>2. First(lk) \subseteq Lock
  BY DEF First, Held
<1>3. CASE Held(lk) = {}
  BY <1>3, OffOK DEF LockTime
<1>4. CASE Held(lk) # {}
  <2>1. PICK l \in First(lk) : n = IF lk[l] < 0 THEN Past ELSE lk[l]
    BY <1>4 DEF LockTime
  <2> QED BY <2>1, <1>1, <1>2, OffOK DEF Off
<1> QED BY <1>3, <1>4

(* The invariant of the three theorems.                                     *)
Inv == TypeOK /\ AlarmCovers /\ NothingForgotten

LEMMA InitOK == Init => Inv
<1> SUFFICES ASSUME Init PROVE Inv
  OBVIOUS
<1>1. scenario \in Scenario /\ typed \in Nat
  BY ConstAssumption DEF Init, Scenario
<1>2. times \in [Timer -> {n \in Int : n >= Off}]
  BY DEF Init, Off, Past
<1>3. locks \in [Lock -> None .. LockWait]
  BY WaitsPositive DEF Init
<1>5. arming \in Seq(OneShot)
  BY ArmTypes DEF Init
<1>6. TypeOK
  BY <1>1, <1>2, <1>3, <1>5 DEF Init, TypeOK, Points
<1>7. AlarmCovers /\ NothingForgotten
  BY DEF Init, AlarmCovers, NothingForgotten
<1> QED BY <1>6, <1>7 DEF Inv

(* A step that calls set_next_alarm, leaving the other types alone, keeps   *)
(* the invariant.                                                           *)
LEMMA AfterSetNextAlarm ==
  ASSUME Inv, NEW tm \in Times, SetNextAlarm(tm), TypeOK',
         pc' = "post" \/ pc # "post"
  PROVE  AlarmCovers' /\ NothingForgotten'
<1>1. TypeOK /\ NothingForgotten
  BY DEF Inv
<1>2. /\ Covered'
      /\ \A t \in Timer : owed'[t] /\ ~ got'[t] => owed[t] /\ ~ got[t]
  BY <1>1, AlarmSet
<1>3. AlarmCovers'
  BY <1>2 DEF Covered, AlarmCovers
<1>4. NothingForgotten'
  BY <1>1, <1>2 DEF NothingForgotten
<1> QED BY <1>3, <1>4

(* A step of the loop that only turns timers off.                           *)
LEMMA AfterTurningOff ==
  ASSUME Inv, Idle, pc # "start", alarm' = alarm, signal' = signal, half' = half,
         \A t \in Timer : times'[t] = times[t] \/ times'[t] = Off
  PROVE  AlarmCovers'
<1>1. ~ half
  BY DEF Inv, TypeOK, Idle
<1> QED BY <1>1 DEF Inv, AlarmCovers

LEMMA NextOK == Inv /\ [Next]_vars => Inv'
<1> SUFFICES ASSUME Inv, [Next]_vars PROVE Inv'
  OBVIOUS
<1> USE DEF Inv
<1>t. times \in Times /\ got \in Flags /\ owed \in Flags
  BY DEF TypeOK, Times, Flags
<1>1. CASE Repeated
  <2>1. SetNextAlarm(times)
    BY <1>1 DEF Repeated
  <2>2. times' \in Times /\ got' \in Flags /\ owed' \in Flags /\ alarm' \in Nat \ {0}
    BY <2>1, <1>t, AlarmSet
  <2>3. TypeOK'
    BY <1>1, <2>2 DEF Repeated, SendInterruptPipeChar, WithByte, TypeOK, Times, Flags,
                      envVars, armVars, boxVars
  <2> QED BY <1>1, <1>t, <2>1, <2>3, AfterSetNextAlarm DEF Repeated
<1>2. CASE Tick
  <2>1. alarm \in Nat \ {0}
    BY <1>2 DEF Tick, TypeOK
  <2>2. times' \in Times
    BY <1>2, <1>t DEF Tick, Later, Times, Off, Past
  <2>3. locks' \in [Lock -> None .. LockWait]
    BY <1>2, WaitsPositive DEF Tick, TypeOK
  <2>x. alarm' = alarm - 1 /\ signal' = (alarm = 1)
    BY <1>2 DEF Tick
  <2>y. alarm' \in Nat /\ (alarm' = 0 => alarm = 1)
    BY <2>1, <2>x, SMT
  <2>z. signal' \in BOOLEAN /\ (alarm = 1 => signal')
    BY <2>x, Zenon
  <2>a. alarm' \in Nat /\ (alarm' = 0 => signal') /\ signal' \in BOOLEAN
    BY <2>y, <2>z
  <2>4. TypeOK'
    BY <1>2, <2>2, <2>3, <2>a DEF Tick, TypeOK, Times, envVars, readVars, armVars
  <2>5. AlarmCovers'
    <3> SUFFICES ASSUME NEW t \in Timer, times'[t] # Off, ~ (half /\ t = Head(arming)),
                        alarm # 1
                 PROVE  alarm' <= IF times'[t] > 0 THEN times'[t] ELSE 1
      BY <1>2 DEF Tick, AlarmCovers, armVars
    <3>1. times'[t] = Later(times[t]) /\ times[t] \in Int /\ times[t] # Off
      BY <1>2, <1>t DEF Tick, Later, Times
    <3>2. alarm <= IF times[t] > 0 THEN times[t] ELSE 1
      BY <1>2, <3>1 DEF Tick, AlarmCovers
    <3> QED BY <1>2, <2>1, <3>1, <3>2 DEF Tick, Later, Past
  <2>6. NothingForgotten'
    BY <1>2 DEF Tick, NothingForgotten
  <2> QED BY <2>4, <2>5, <2>6
<1>3. CASE NoInput
  <2>1. times' \in Times /\ got' \in Flags /\ owed' \in Flags
    BY <1>3, <1>t DEF NoInput, Answer, Times, Flags, Off, AtInput, InputUnchanged, timeVars
  <2>2. arming' \in Seq(OneShot) /\ locks' \in [Lock -> None .. LockWait]
    BY <1>3, ArmTypes, WaitsPositive
       DEF NoInput, TypeOK, Arm, AtInput, InputUnchanged, armVars, boxVars
  <2>3. TypeOK'
    BY <1>3, <2>1, <2>2, WaitsPositive
       DEF NoInput, TypeOK, Points, Times, Flags, Idle, envVars, timeVars, readVars,
           armVars, boxVars, AtInput, InputUnchanged
  <2>4. AlarmCovers'
    BY <1>3, <1>t, AfterTurningOff
       DEF NoInput, Answer, Times, timeVars, armVars, AtInput, InputUnchanged
  <2>5. NothingForgotten'
    BY <1>3, <1>t DEF NoInput, Answer, NothingForgotten, Rounds, Flags, timeVars, AtInput, InputUnchanged
  <2> QED BY <2>3, <2>4, <2>5
<1>4. CASE Announce
  <2>1. times' \in Times /\ got' \in Flags /\ owed' \in Flags
    BY <1>4, <1>t DEF Announce, Answer, Times, Flags, Off, AtInput, InputUnchanged, timeVars
  <2>2. arming' \in Seq(OneShot) /\ locks' \in [Lock -> None .. LockWait]
    BY <1>4, ArmTypes, WaitsPositive
       DEF Announce, TypeOK, Arm, AtInput, InputUnchanged, armVars, boxVars
  <2>3. TypeOK'
    BY <1>4, <2>1, <2>2, WaitsPositive
       DEF Announce, TypeOK, Points, Times, Flags, Idle, envVars, timeVars, readVars,
           armVars, boxVars, AtInput, InputUnchanged
  <2>4. AlarmCovers'
    BY <1>4, <1>t, AfterTurningOff
       DEF Announce, Answer, Times, timeVars, armVars, AtInput, InputUnchanged
  <2>5. NothingForgotten'
    BY <1>4, <1>t DEF Announce, Answer, NothingForgotten, Rounds, Flags, timeVars, AtInput, InputUnchanged
  <2> QED BY <2>3, <2>4, <2>5
<1>5. CASE ForceRound
  <2>1. times' \in Times /\ got' \in Flags /\ owed' \in Flags
    BY <1>5, <1>t DEF ForceRound, Answer, Times, Flags, Off, AtInput, Type, SendInterruptPipeChar, WithByte, timeVars
  <2>2. arming' \in Seq(OneShot) /\ locks' \in [Lock -> None .. LockWait]
    BY <1>5, ArmTypes, WaitsPositive
       DEF ForceRound, TypeOK, Arm, AtInput, Type, SendInterruptPipeChar, WithByte, armVars, boxVars
  <2>3. TypeOK'
    BY <1>5, <2>1, <2>2, WaitsPositive
       DEF ForceRound, TypeOK, Points, Times, Flags, Idle, envVars, timeVars, readVars,
           armVars, boxVars, AtInput, Type, SendInterruptPipeChar, WithByte
  <2>4. AlarmCovers'
    BY <1>5, <1>t, AfterTurningOff
       DEF ForceRound, Answer, Times, timeVars, armVars, AtInput, Type, SendInterruptPipeChar, WithByte
  <2>5. NothingForgotten'
    BY <1>5, <1>t DEF ForceRound, Answer, NothingForgotten, Rounds, Flags, timeVars, AtInput, Type, SendInterruptPipeChar, WithByte
  <2> QED BY <2>3, <2>4, <2>5
<1>6. CASE KeepDisplay
  <2>0. /\ times' = [times EXCEPT !["disable_print_cloud"] = Off]
        /\ got' = got /\ owed' = owed
    BY <1>6 DEF KeepDisplay
  <2>1. times' \in Times /\ got' \in Flags /\ owed' \in Flags
    BY <2>0, <1>t, ChangedTimes, OffOK
  <2>2. arming' \in Seq(OneShot) /\ locks' \in [Lock -> None .. LockWait]
    BY <1>6, ArmTypes, WaitsPositive
       DEF KeepDisplay, TypeOK, Arm, AtInput, InputUnchanged, Type, ArmPrint, armVars, boxVars
  <2>3. TypeOK'
    BY <1>6, <2>1, <2>2, WaitsPositive
       DEF KeepDisplay, TypeOK, Points, Times, Flags, Idle, envVars, timeVars, readVars,
           armVars, boxVars, AtInput, InputUnchanged, Type, ArmPrint
  <2>4. AlarmCovers'
    BY <1>6, <1>t, AfterTurningOff
       DEF KeepDisplay, Answer, Times, timeVars, armVars, AtInput, InputUnchanged, Type, ArmPrint
  <2>5. NothingForgotten'
    BY <1>6, <1>t DEF KeepDisplay, Answer, NothingForgotten, Rounds, Flags, timeVars, AtInput, InputUnchanged, Type, ArmPrint
  <2> QED BY <2>3, <2>4, <2>5
<1>7. CASE ForgetLocks
  <2>1. times' \in Times /\ got' \in Flags /\ owed' \in Flags
    BY <1>7, <1>t DEF ForgetLocks, Answer, Times, Flags, Off, AtInput, InputUnchanged, Type, timeVars
  <2>2. arming' \in Seq(OneShot) /\ locks' \in [Lock -> None .. LockWait]
    BY <1>7, ArmTypes, WaitsPositive
       DEF ForgetLocks, TypeOK, Arm, AtInput, InputUnchanged, Type, armVars, boxVars
  <2>3. TypeOK'
    BY <1>7, <2>1, <2>2, WaitsPositive
       DEF ForgetLocks, TypeOK, Points, Times, Flags, Idle, envVars, timeVars, readVars,
           armVars, boxVars, AtInput, InputUnchanged, Type
  <2>4. AlarmCovers'
    BY <1>7, <1>t, AfterTurningOff
       DEF ForgetLocks, Answer, Times, timeVars, armVars, AtInput, InputUnchanged, Type
  <2>5. NothingForgotten'
    BY <1>7, <1>t DEF ForgetLocks, Answer, NothingForgotten, Rounds, Flags, timeVars, AtInput, InputUnchanged, Type
  <2> QED BY <2>3, <2>4, <2>5
<1>8. CASE ReadPipe
  <2>1. times' \in Times /\ got' \in Flags /\ owed' \in Flags
    BY <1>8, <1>t DEF ReadPipe, Answer, Times, Flags, Off, timeVars
  <2>2. arming' \in Seq(OneShot) /\ locks' \in [Lock -> None .. LockWait]
    BY <1>8, ArmTypes, WaitsPositive
       DEF ReadPipe, TypeOK, Arm, armVars, boxVars
  <2>3. TypeOK'
    BY <1>8, <2>1, <2>2, WaitsPositive
       DEF ReadPipe, TypeOK, Points, Times, Flags, Idle, envVars, timeVars, readVars,
           armVars, boxVars
  <2>4. AlarmCovers'
    BY <1>8, <1>t, AfterTurningOff
       DEF ReadPipe, Answer, Times, timeVars, armVars
  <2>5. NothingForgotten'
    BY <1>8, <1>t DEF ReadPipe, Answer, NothingForgotten, Rounds, Flags, timeVars
  <2> QED BY <2>3, <2>4, <2>5
<1>9. CASE EthBeacon
  <2>1. times' \in Times /\ got' \in Flags /\ owed' \in Flags
    BY <1>9, <1>t DEF EthBeacon, Answer, Times, Flags, Off, timeVars
  <2>2. arming' \in Seq(OneShot) /\ locks' \in [Lock -> None .. LockWait]
    BY <1>9, ArmTypes, WaitsPositive
       DEF EthBeacon, TypeOK, Arm, armVars, boxVars
  <2>3. TypeOK'
    BY <1>9, <2>1, <2>2, WaitsPositive
       DEF EthBeacon, TypeOK, Points, Times, Flags, Idle, envVars, timeVars, readVars,
           armVars, boxVars
  <2>4. AlarmCovers'
    BY <1>9, <1>t, AfterTurningOff
       DEF EthBeacon, Answer, Times, timeVars, armVars
  <2>5. NothingForgotten'
    BY <1>9, <1>t DEF EthBeacon, Answer, NothingForgotten, Rounds, Flags, timeVars
  <2> QED BY <2>3, <2>4, <2>5
<1>10. CASE Resend
  <2>1. times' \in Times /\ got' \in Flags /\ owed' \in Flags
    BY <1>10, <1>t DEF Resend, Answer, Times, Flags, Off, timeVars
  <2>2. arming' \in Seq(OneShot) /\ locks' \in [Lock -> None .. LockWait]
    BY <1>10, ArmTypes, WaitsPositive
       DEF Resend, TypeOK, Arm, armVars, boxVars
  <2>3. TypeOK'
    BY <1>10, <2>1, <2>2, WaitsPositive
       DEF Resend, TypeOK, Points, Times, Flags, Idle, envVars, timeVars, readVars,
           armVars, boxVars
  <2>4. AlarmCovers'
    BY <1>10, <1>t, AfterTurningOff
       DEF Resend, Answer, Times, timeVars, armVars
  <2>5. NothingForgotten'
    BY <1>10, <1>t DEF Resend, Answer, NothingForgotten, Rounds, Flags, timeVars
  <2> QED BY <2>3, <2>4, <2>5
<1>11. CASE Done
  <2>1. times' \in Times /\ got' \in Flags /\ owed' \in Flags
    BY <1>11, <1>t DEF Done, Answer, Times, Flags, Off, timeVars
  <2>2. arming' \in Seq(OneShot) /\ locks' \in [Lock -> None .. LockWait]
    BY <1>11, ArmTypes, WaitsPositive
       DEF Done, TypeOK, Arm, armVars, boxVars
  <2>3. TypeOK'
    BY <1>11, <2>1, <2>2, WaitsPositive
       DEF Done, TypeOK, Points, Times, Flags, Idle, envVars, timeVars, readVars,
           armVars, boxVars
  <2>4. AlarmCovers'
    BY <1>11, <1>t, AfterTurningOff
       DEF Done, Answer, Times, timeVars, armVars
  <2>5. NothingForgotten'
    BY <1>11, <1>t DEF Done, Answer, NothingForgotten, Rounds, Flags, timeVars
  <2> QED BY <2>3, <2>4, <2>5
<1>12. CASE Clear
  <2>1. times' \in Times /\ got' \in Flags /\ owed' \in Flags
    BY <1>12, <1>t DEF Clear, Answer, Times, Flags, Off, timeVars
  <2>2. arming' \in Seq(OneShot) /\ locks' \in [Lock -> None .. LockWait]
    BY <1>12, ArmTypes, WaitsPositive
       DEF Clear, TypeOK, Arm, armVars, boxVars
  <2>3. TypeOK'
    BY <1>12, <2>1, <2>2, WaitsPositive
       DEF Clear, TypeOK, Points, Times, Flags, Idle, envVars, timeVars, readVars,
           armVars, boxVars
  <2>4. AlarmCovers'
    BY <1>12, <1>t, AfterTurningOff
       DEF Clear, Answer, Times, timeVars, armVars
  <2>5. NothingForgotten'
    BY <1>12, <1>t DEF Clear, Answer, NothingForgotten, Rounds, Flags, timeVars
  <2> QED BY <2>3, <2>4, <2>5
<1>13. CASE PostMaintenance
  <2>1. times' \in Times /\ got' \in Flags /\ owed' \in Flags
    BY <1>13, <1>t DEF PostMaintenance, Answer, Times, Flags, Off, ArmPrint, timeVars
  <2>a. arming' \in Seq(OneShot)
    BY <1>13, ArmTypes DEF PostMaintenance, TypeOK, Arm, ArmPrint
  <2>b. None \in None .. LockWait
    BY WaitsPositive
  <2>2. arming' \in Seq(OneShot) /\ locks' \in [Lock -> None .. LockWait]
    BY <1>13, <2>a, <2>b DEF PostMaintenance, TypeOK
  <2>3. TypeOK'
    BY <1>13, <2>1, <2>2, WaitsPositive
       DEF PostMaintenance, TypeOK, Points, Times, Flags, Idle, envVars, timeVars, readVars,
           armVars, boxVars, ArmPrint
  <2>4. AlarmCovers'
    BY <1>13, <1>t, AfterTurningOff
       DEF PostMaintenance, Answer, Times, timeVars, armVars, ArmPrint
  <2>5. NothingForgotten'
    BY <1>13, <1>t DEF PostMaintenance, Answer, NothingForgotten, Rounds, Flags, timeVars, ArmPrint
  <2> QED BY <2>3, <2>4, <2>5
<1>14. CASE Ping
  <2>1. times' \in Times /\ got' \in Flags /\ owed' \in Flags
    BY <1>14, <1>t DEF Ping, Answer, Times, Flags, Off, AtEnd, EndUnchanged, timeVars
  <2>2. arming' \in Seq(OneShot) /\ locks' \in [Lock -> None .. LockWait]
    BY <1>14, ArmTypes, WaitsPositive
       DEF Ping, TypeOK, Arm, AtEnd, EndUnchanged, armVars, boxVars
  <2>3. TypeOK'
    BY <1>14, <2>1, <2>2, WaitsPositive
       DEF Ping, TypeOK, Points, Times, Flags, Idle, envVars, timeVars, readVars,
           armVars, boxVars, AtEnd, EndUnchanged
  <2>4. AlarmCovers'
    BY <1>14, <1>t, AfterTurningOff
       DEF Ping, Answer, Times, timeVars, armVars, AtEnd, EndUnchanged
  <2>5. NothingForgotten'
    BY <1>14, <1>t DEF Ping, Answer, NothingForgotten, Rounds, Flags, timeVars, AtEnd, EndUnchanged
  <2> QED BY <2>3, <2>4, <2>5
<1>15. CASE DisablePrint
  <2>1. times' \in Times /\ got' \in Flags /\ owed' \in Flags
    BY <1>15, <1>t DEF DisablePrint, Answer, Times, Flags, Off, AtEnd, EndUnchanged, timeVars
  <2>2. arming' \in Seq(OneShot) /\ locks' \in [Lock -> None .. LockWait]
    BY <1>15, ArmTypes, WaitsPositive
       DEF DisablePrint, TypeOK, Arm, AtEnd, EndUnchanged, armVars, boxVars
  <2>3. TypeOK'
    BY <1>15, <2>1, <2>2, WaitsPositive
       DEF DisablePrint, TypeOK, Points, Times, Flags, Idle, envVars, timeVars, readVars,
           armVars, boxVars, AtEnd, EndUnchanged
  <2>4. AlarmCovers'
    BY <1>15, <1>t, AfterTurningOff
       DEF DisablePrint, Answer, Times, timeVars, armVars, AtEnd, EndUnchanged
  <2>5. NothingForgotten'
    BY <1>15, <1>t DEF DisablePrint, Answer, NothingForgotten, Rounds, Flags, timeVars, AtEnd, EndUnchanged
  <2> QED BY <2>3, <2>4, <2>5
<1>16. CASE PrintCloud
  <2>1. times' \in Times /\ got' \in Flags /\ owed' \in Flags
    BY <1>16, <1>t DEF PrintCloud, Answer, Times, Flags, Off, AtEnd, EndUnchanged, ArmPrint, timeVars
  <2>2. arming' \in Seq(OneShot) /\ locks' \in [Lock -> None .. LockWait]
    BY <1>16, ArmTypes, WaitsPositive
       DEF PrintCloud, TypeOK, Arm, AtEnd, EndUnchanged, ArmPrint, armVars, boxVars
  <2>3. TypeOK'
    BY <1>16, <2>1, <2>2, WaitsPositive
       DEF PrintCloud, TypeOK, Points, Times, Flags, Idle, envVars, timeVars, readVars,
           armVars, boxVars, AtEnd, EndUnchanged, ArmPrint
  <2>4. AlarmCovers'
    BY <1>16, <1>t, AfterTurningOff
       DEF PrintCloud, Answer, Times, timeVars, armVars, AtEnd, EndUnchanged, ArmPrint
  <2>5. NothingForgotten'
    BY <1>16, <1>t DEF PrintCloud, Answer, NothingForgotten, Rounds, Flags, timeVars, AtEnd, EndUnchanged, ArmPrint
  <2> QED BY <2>3, <2>4, <2>5
<1>17. CASE Scan
  <2>1. times' \in Times /\ got' \in Flags /\ owed' \in Flags
    BY <1>17, <1>t DEF Scan, Answer, Times, Flags, Off, AtEnd, EndUnchanged, timeVars
  <2>2. arming' \in Seq(OneShot) /\ locks' \in [Lock -> None .. LockWait]
    BY <1>17, ArmTypes, WaitsPositive
       DEF Scan, TypeOK, Arm, AtEnd, EndUnchanged, armVars, boxVars
  <2>3. TypeOK'
    BY <1>17, <2>1, <2>2, WaitsPositive
       DEF Scan, TypeOK, Points, Times, Flags, Idle, envVars, timeVars, readVars,
           armVars, boxVars, AtEnd, EndUnchanged
  <2>4. AlarmCovers'
    BY <1>17, <1>t, AfterTurningOff
       DEF Scan, Answer, Times, timeVars, armVars, AtEnd, EndUnchanged
  <2>5. NothingForgotten'
    BY <1>17, <1>t DEF Scan, Answer, NothingForgotten, Rounds, Flags, timeVars, AtEnd, EndUnchanged
  <2> QED BY <2>3, <2>4, <2>5
<1>18. CASE Exit
  <2>1. times' \in Times /\ got' \in Flags /\ owed' \in Flags
    BY <1>18, <1>t DEF Exit, Answer, Times, Flags, Off, AtEnd, timeVars
  <2>2. arming' \in Seq(OneShot) /\ locks' \in [Lock -> None .. LockWait]
    BY <1>18, ArmTypes, WaitsPositive
       DEF Exit, TypeOK, Arm, AtEnd, armVars, boxVars
  <2>a. token' \in Nat
    BY <1>18 DEF Exit, AtEnd, TypeOK
  <2>3. TypeOK'
    BY <1>18, <2>1, <2>2, <2>a
       DEF Exit, TypeOK, Points, Times, Flags, Idle, envVars, timeVars, readVars,
           armVars, boxVars, AtEnd
  <2>4. AlarmCovers'
    BY <1>18, <1>t, AfterTurningOff
       DEF Exit, Answer, Times, timeVars, armVars, AtEnd
  <2>5. NothingForgotten'
    BY <1>18, <1>t DEF Exit, Answer, NothingForgotten, Rounds, Flags, timeVars, AtEnd
  <2> QED BY <2>3, <2>4, <2>5
<1>19. CASE Select(FALSE) \/ Select(TRUE)
  <2>1. times' \in Times /\ got' \in Flags /\ owed' \in Flags
    BY <1>19, <1>t DEF Select, Answer, Times, Flags, Off, timeVars
  <2>2. arming' \in Seq(OneShot) /\ locks' \in [Lock -> None .. LockWait]
    BY <1>19, ArmTypes, WaitsPositive
       DEF Select, TypeOK, Arm, armVars, boxVars
  <2>a. token' \in Nat
    BY <1>19 DEF Select, TypeOK
  <2>x. readInput' \in BOOLEAN
    <3>1. CASE Select(FALSE)
      BY <3>1, Zenon DEF Select
    <3>2. CASE Select(TRUE)
      BY <3>2, Zenon DEF Select
    <3> QED BY <1>19, <3>1, <3>2
  <2>y. readBytes' = bytes /\ bytes \in BOOLEAN
    BY <1>19 DEF Select, TypeOK
  <2>b. readInput' \in BOOLEAN /\ readBytes' \in BOOLEAN
    BY <2>x, <2>y
  <2>3. TypeOK'
    <3>1. /\ UNCHANGED <<scenario, typed, times, got, alarm, owed, signal, fake, arming>>
          /\ UNCHANGED <<half, locks, awaiting, display, answers, bytes>>
          /\ pc' = "pipe"
      <4>1. CASE Select(FALSE)
        BY <4>1 DEF Select, envVars, timeVars, armVars, boxVars
      <4>2. CASE Select(TRUE)
        BY <4>2 DEF Select, envVars, timeVars, armVars, boxVars
      <4> QED BY <1>19, <4>1, <4>2
    <3>2. /\ pc' \in Points /\ (half' => arming' # <<>>) /\ (alarm' = 0 => signal')
      BY <3>1, <1>19 DEF TypeOK, Points, Select
    <3>3. /\ scenario' \in Scenario /\ typed' \in Nat /\ alarm' \in Nat /\ signal' \in BOOLEAN
          /\ bytes' \in BOOLEAN /\ fake' \in BOOLEAN /\ half' \in BOOLEAN
          /\ awaiting' \in BOOLEAN /\ display' \in BOOLEAN /\ answers' \in BOOLEAN
      BY <3>1 DEF TypeOK
    <3> QED BY <3>2, <3>3, <2>1, <2>2, <2>a, <2>b DEF TypeOK, Times, Flags
  <2>4. AlarmCovers'
    BY <1>19, <1>t, AfterTurningOff
       DEF Select, Answer, Times, timeVars, armVars
  <2>5. NothingForgotten'
    BY <1>19, <1>t DEF Select, Answer, NothingForgotten, Rounds, Flags, timeVars
  <2> QED BY <2>3, <2>4, <2>5
<1>20. CASE Start
  <2>1. PICK tm \in Times : SetNextAlarm(tm)
    BY <1>20, <1>t, WaitsPositive DEF Start, Times, Off, Past
  <2>2. times' \in Times /\ got' \in Flags /\ owed' \in Flags /\ alarm' \in Nat \ {0}
    BY <2>1, AlarmSet
  <2>3. TypeOK'
    BY <1>20, <2>2, WaitsPositive
       DEF Start, TypeOK, Points, Times, Flags, Idle, envVars, readVars, armVars, boxVars
  <2> QED BY <1>20, <2>1, <2>3, AfterSetNextAlarm DEF Start
<1>21. CASE LockMessage
  <2>a. PICK lk \in [Lock -> None .. LockWait] : ResetLockTimer(lk)
    <3>1. PICK l \in Lock :
            ResetLockTimer([locks EXCEPT ![l] = IF locks[l] = None THEN LockWait ELSE None])
      BY <1>21 DEF LockMessage
    <3>2. None \in None .. LockWait /\ LockWait \in None .. LockWait
      BY WaitsPositive
    <3> DEFINE new == [locks EXCEPT ![l] = IF locks[l] = None THEN LockWait ELSE None]
    <3>3. new \in [Lock -> None .. LockWait]
      BY <3>2 DEF TypeOK
    <3> QED BY <3>1, <3>3
  <2>b. PICK n \in LockTime(lk) : SetNextAlarm([times EXCEPT !["lockable_timeout"] = n])
    BY <2>a DEF ResetLockTimer
  <2>c. [times EXCEPT !["lockable_timeout"] = n] \in Times
    BY <1>t, ChangedTimes, LockTimeOK
  <2>1. PICK tm \in Times : SetNextAlarm(tm)
    BY <2>b, <2>c
  <2>d. locks' = lk
    BY <2>a DEF ResetLockTimer
  <2>2. times' \in Times /\ got' \in Flags /\ owed' \in Flags /\ alarm' \in Nat \ {0}
    BY <2>1, AlarmSet
  <2>3. TypeOK'
    BY <1>21, <2>2, <2>d
       DEF LockMessage, TypeOK, Points, Times, Flags, Idle, envVars, readVars, armVars, boxVars, AtInput, InputUnchanged
  <2> QED BY <1>21, <2>1, <2>3, AfterSetNextAlarm DEF LockMessage, AtInput, InputUnchanged
<1>22. CASE BeaconAnswer
  <2>a. PICK lk \in [Lock -> None .. LockWait] : ResetLockTimer(lk)
    BY <1>22 DEF BeaconAnswer, TypeOK
  <2>b. PICK n \in LockTime(lk) : SetNextAlarm([times EXCEPT !["lockable_timeout"] = n])
    BY <2>a DEF ResetLockTimer
  <2>c. [times EXCEPT !["lockable_timeout"] = n] \in Times
    BY <1>t, ChangedTimes, LockTimeOK
  <2>1. PICK tm \in Times : SetNextAlarm(tm)
    BY <2>b, <2>c
  <2>d. locks' = lk
    BY <2>a DEF ResetLockTimer
  <2>2. times' \in Times /\ got' \in Flags /\ owed' \in Flags /\ alarm' \in Nat \ {0}
    BY <2>1, AlarmSet
  <2>3. TypeOK'
    BY <1>22, <2>2, <2>d
       DEF BeaconAnswer, TypeOK, Points, Times, Flags, Idle, envVars, readVars, armVars, boxVars, AtInput, InputUnchanged
  <2> QED BY <1>22, <2>1, <2>3, AfterSetNextAlarm DEF BeaconAnswer, AtInput, InputUnchanged
<1>23. CASE Acknowledged
  <2>a. SetNextAlarm([times EXCEPT !["noncloud_message"] = Off])
    BY <1>23 DEF Acknowledged
  <2>1. PICK tm \in Times : SetNextAlarm(tm)
    BY <2>a, <1>t, ChangedTimes, OffOK
  <2>2. times' \in Times /\ got' \in Flags /\ owed' \in Flags /\ alarm' \in Nat \ {0}
    BY <2>1, AlarmSet
  <2>3. TypeOK'
    BY <1>23, <2>2, WaitsPositive
       DEF Acknowledged, TypeOK, Points, Times, Flags, Idle, envVars, readVars, armVars, boxVars, AtInput, InputUnchanged
  <2> QED BY <1>23, <2>1, <2>3, AfterSetNextAlarm DEF Acknowledged, AtInput, InputUnchanged
<1>24. CASE ArmAdd
  <2> DEFINE t == Head(arming)
  <2>a. half /\ arming \in Seq(OneShot) /\ arming # <<>>
    BY <1>24 DEF ArmAdd, TypeOK
  <2>b. t \in OneShot /\ Tail(arming) \in Seq(OneShot)
    BY <2>a
  <2>c. PICK n \in Added(times[t], Wait[t]) : SetNextAlarm([times EXCEPT ![t] = n])
    BY <1>24 DEF ArmAdd
  <2>d. n \in Int /\ n >= Off
    <3>1. Wait[t] \in Nat /\ t \in Timer
      BY <2>b, WaitsPositive, Kinds
    <3>2. times[t] \in Int /\ times[t] >= Off
      BY <3>1, <1>t DEF Times
    <3> QED BY <2>c, <3>1, <3>2, OffOK DEF Added, Off, Past
  <2>1. PICK tm \in Times : SetNextAlarm(tm)
    BY <2>c, <2>d, <1>t, ChangedTimes
  <2>2. times' \in Times /\ got' \in Flags /\ owed' \in Flags /\ alarm' \in Nat \ {0}
    BY <2>1, AlarmSet
  <2>3. TypeOK'
    BY <1>24, <2>2, <2>b DEF ArmAdd, TypeOK, Times, Flags, envVars, readVars, boxVars
  <2> QED BY <1>24, <2>1, <2>3, AfterSetNextAlarm DEF ArmAdd
<1>25. CASE ArmNow
  <2> DEFINE t == Head(arming)
  <2>1. t \in OneShot /\ Tail(arming) \in Seq(OneShot) /\ ~ half
    BY <1>25 DEF ArmNow, TypeOK
  <2>2. times' \in Times
    BY <1>25, <1>t, <2>1 DEF ArmNow, Times, Off
  <2>3. TypeOK'
    BY <1>25, <2>1, <2>2 DEF ArmNow, TypeOK, Times, envVars, readVars, boxVars
  <2>4. AlarmCovers'
    BY <1>25, <1>t, <2>1 DEF ArmNow, AlarmCovers, Times
  <2>5. NothingForgotten'
    BY <1>25 DEF ArmNow, NothingForgotten
  <2> QED BY <2>3, <2>4, <2>5
<1>26. CASE UNCHANGED vars
  BY <1>26 DEF vars, TypeOK, AlarmCovers, NothingForgotten, envVars, timeVars, readVars,
               armVars, boxVars
<1> QED
  BY <1>1, <1>2, <1>3, <1>4, <1>5, <1>6, <1>7, <1>8, <1>9, <1>10, <1>11, <1>12, <1>13, <1>14, <1>15, <1>16, <1>17, <1>18, <1>19, <1>20, <1>21, <1>22, <1>23, <1>24, <1>25, <1>26
     DEF Next, Loop, Handler, Input

(* The types hold. *)
THEOREM TypesKept == Spec => []TypeOK
<1>1. Inv => TypeOK
  BY DEF Inv
<1> QED BY <1>1, InitOK, NextOK, PTL DEF Spec

(* Whenever the signal comes between two steps of the loop, also in the middle *)
(* of setting a timer, the alarm is early enough for every timer. *)
THEOREM AlarmNeverLate == Spec => []AlarmCovers
<1>1. Inv => AlarmCovers
  BY DEF Inv
<1> QED BY <1>1, InitOK, NextOK, PTL DEF Spec

(* No event is lost between the handler that raises it and the loop that *)
(* handles it. *)
THEOREM EventsKept == Spec => []NothingForgotten
<1>1. Inv => NothingForgotten
  BY DEF Inv
<1> QED BY <1>1, InitOK, NextOK, PTL DEF Spec

-----------------------------------------------------------------------------
(* What goes on by itself: a timer that has neither a time nor an event to  *)
(* come is among those that the running handler has still to set, and not   *)
(* the one it is setting now, which has a time, or had one and was found    *)
(* due between the two steps that set it.                                   *)
Listed(t)   == \E k \in 1 .. Len(arming) : arming[k] = t /\ (half => k > 1)
OnItsWay(t) == Underway(t) \/ Listed(t)
Repeating == {"ping_neighbors", "wifi_scan"}
GoesOn ==
  /\ \A t \in Repeating : Using(t) => OnItsWay(t)
  /\ display => Using("disable_print_cloud") /\ OnItsWay("disable_print_cloud")
  /\ awaiting => Using("noncloud_message") /\ OnItsWay("noncloud_message")
  /\ "d" \in scenario.commands => Using("disable_print_cloud")
Watched == {"ping_neighbors", "wifi_scan", "disable_print_cloud", "noncloud_message"}

LEMMA WatchedKinds ==
  /\ Watched \subseteq OneShot /\ Watched \subseteq Timer /\ Repeating \subseteq Watched
  /\ "disable_print_cloud" \in Watched /\ "noncloud_message" \in Watched
  /\ \A t \in Watched : t \notin Rounds /\ t # "lockable_timeout" /\ t # "process_eth_beacon"
                        /\ t # "send_stp" /\ t # "print_cloud"
BY DEF Watched, OneShot, Timer, Periodic, Rounds, Repeating

(* set_next_alarm turns a timer off only when it raises its event.          *)
LEMMA AlarmKeeps ==
  ASSUME TypeOK, NEW tm \in Times, SetNextAlarm(tm), NEW t \in Timer,
         tm[t] # Off \/ got[t]
  PROVE  Underway(t)'
<1>1. PICK w \in StpWait :
        times' = [u \in Timer |-> IF ~ Due(tm, u) THEN tm[u]
                                  ELSE CASE u = "send_stp"           -> w
                                         [] u = "process_eth_beacon" -> EthWait - 1
                                         [] OTHER                    -> Off]
  BY DEF SetNextAlarm
<1>2. got'[t] = (got[t] \/ Due(tm, t))
  BY DEF SetNextAlarm, Noted, Raised
<1>3. got[t] \in BOOLEAN
  BY DEF TypeOK
<1>4. CASE ~ Due(tm, t)
  <2>1. times'[t] = tm[t]
    BY <1>1, <1>4 DEF Due
  <2> QED BY <1>2, <1>3, <2>1 DEF Underway
<1>5. CASE Due(tm, t)
  BY <1>2, <1>5 DEF Underway
<1> QED BY <1>4, <1>5

LEMMA IdleUnderway ==
  ASSUME TypeOK, Idle
  PROVE  /\ ~ half /\ arming = <<>>
         /\ \A t : OnItsWay(t) => Underway(t)
<1>1. arming = <<>> /\ Len(<<>>) = 0
  BY DEF Idle
<1>2. ~ half
  BY <1>1 DEF TypeOK
<1> QED BY <1>1, <1>2 DEF OnItsWay, Listed

(* A step that arms nothing and only begins to wait for what it has set.    *)
LEMMA StaysOn ==
  ASSUME GoesOn, scenario' = scenario, arming' = arming, half' = half,
         \A t \in Watched : Underway(t) => Underway(t)',
         display' => display, awaiting' => awaiting
  PROVE  GoesOn'
<1>1. \A t \in Watched : OnItsWay(t) => OnItsWay(t)'
  BY DEF OnItsWay, Listed
<1>2. \A t : Using(t)' = Using(t)
  BY DEF Using
<1> QED BY <1>1, <1>2, WatchedKinds DEF GoesOn

(* A step at which no timer is being set.                                   *)
LEMMA IdleStep ==
  ASSUME TypeOK, Idle, GoesOn, scenario' = scenario, half' = half,
         \A t \in Repeating : Using(t) /\ Underway(t) => OnItsWay(t)',
         display' => /\ Using("disable_print_cloud")
                     /\ display /\ Underway("disable_print_cloud")
                          => OnItsWay("disable_print_cloud")'
                     /\ ~ display => OnItsWay("disable_print_cloud")',
         awaiting' => /\ Using("noncloud_message")
                      /\ awaiting /\ Underway("noncloud_message")
                           => OnItsWay("noncloud_message")'
                      /\ ~ awaiting => OnItsWay("noncloud_message")'
  PROVE  GoesOn'
<1>1. \A t : Using(t)' = Using(t)
  BY DEF Using
<1>2. \A t : OnItsWay(t) => Underway(t)
  BY IdleUnderway
<1>3. \A t \in Repeating : Using(t) => OnItsWay(t)'
  BY <1>2 DEF GoesOn
<1>4. display' => Using("disable_print_cloud") /\ OnItsWay("disable_print_cloud")'
  BY <1>2 DEF GoesOn
<1>5. awaiting' => Using("noncloud_message") /\ OnItsWay("noncloud_message")'
  BY <1>2 DEF GoesOn
<1> QED BY <1>1, <1>3, <1>4, <1>5 DEF GoesOn

LEMMA NowListed ==
  ASSUME ~ half', NEW t,
         \/ arming' = <<t>>
         \/ \E u : arming' = <<u, t>>
  PROVE  OnItsWay(t)'
<1>1. CASE arming' = <<t>>
  <2>1. 1 \in 1 .. Len(arming') /\ arming'[1] = t
    BY <1>1
  <2> QED BY <2>1 DEF OnItsWay, Listed
<1>2. CASE \E u : arming' = <<u, t>>
  <2>1. 2 \in 1 .. Len(arming') /\ arming'[2] = t
    BY <1>2
  <2> QED BY <2>1 DEF OnItsWay, Listed
<1> QED BY <1>1, <1>2

LEMMA InitGoesOn == ASSUME Init PROVE GoesOn
<1>1. /\ Off # Past /\ ~ display /\ ~ awaiting
  BY DEF Init, Off, Past
<1>2. \A t \in Repeating : Using(t) => times[t] = Past
  BY DEF Init, Repeating, Timer, OneShot, Periodic
<1>3. "d" \in scenario.commands => Using("disable_print_cloud")
  BY ConstAssumption DEF Init, Using
<1> QED BY <1>1, <1>2, <1>3 DEF GoesOn, OnItsWay, Underway

LEMMA NextGoesOn ==
  ASSUME TypeOK, GoesOn, [Next]_vars
  PROVE  GoesOn'
<1> DEFINE P == "ping_neighbors"
           S == "wifi_scan"
           D == "disable_print_cloud"
           A == "noncloud_message"
<1>1. /\ times \in Times /\ got \in Flags /\ scenario \in Scenario
      /\ arming \in Seq(OneShot)
  BY DEF TypeOK, Times, Flags
<1>2. /\ P \in Watched /\ S \in Watched /\ D \in Watched /\ A \in Watched
      /\ Repeating = {P, S}
  BY DEF Watched, Repeating
<1>3. \A t \in Watched : t \in Timer
  BY WatchedKinds
<1>4. ASSUME NEW tm \in Times, SetNextAlarm(tm), NEW t \in Watched, tm[t] = times[t],
             Underway(t)
      PROVE  Underway(t)'
  BY <1>3, <1>4, AlarmKeeps DEF Underway
<1>5. CASE Repeated \/ Start
  <2>1. /\ SetNextAlarm(times)
        /\ UNCHANGED <<scenario, arming, half, display, awaiting>>
    BY <1>5 DEF Repeated, Start, envVars, armVars, boxVars
  <2>2. \A t \in Watched : Underway(t) => Underway(t)'
    BY <1>1, <1>4, <2>1
  <2> QED BY <2>1, <2>2, StaysOn
<1>6. CASE Tick
  <2>1. /\ times' = [t \in Timer |-> Later(times[t])] /\ got' = got
        /\ UNCHANGED <<scenario, arming, half, display, awaiting>>
    BY <1>6 DEF Tick, envVars, armVars
  <2>2. \A n \in Int : n # Off /\ n >= Off => Later(n) # Off
    BY DEF Later, Off, Past
  <2>3. \A t \in Watched : Underway(t) => Underway(t)'
    BY <1>1, <1>3, <2>1, <2>2 DEF Underway, Times
  <2> QED BY <2>1, <2>3, StaysOn
<1>7. CASE \/ Select(FALSE) \/ Select(TRUE) \/ ReadPipe \/ NoInput \/ ForgetLocks
           \/ Done \/ Exit \/ UNCHANGED vars
  <2>1. UNCHANGED <<scenario, arming, half, display, awaiting, times, got>>
    BY <1>7 DEF Select, ReadPipe, NoInput, ForgetLocks, Done, Exit, InputUnchanged, vars,
                envVars, armVars, boxVars, timeVars, Type
  <2>2. \A t \in Watched : Underway(t) => Underway(t)'
    BY <2>1 DEF Underway
  <2> QED BY <2>1, <2>2, StaysOn
<1>8. CASE EthBeacon \/ Clear \/ ForceRound
  <2>1. /\ UNCHANGED <<scenario, arming, half, display, awaiting, times>>
        /\ \/ got' = [t \in Timer |-> got[t] /\ t \notin {"process_eth_beacon"}]
           \/ got' = [t \in Timer |-> got[t] /\ t \notin Rounds]
           \/ got' = [got EXCEPT !["send_stp"] = TRUE]
    BY <1>8 DEF EthBeacon, Clear, ForceRound, Answer, envVars, armVars, boxVars
  <2>2. \A t \in Watched : got[t] => got'[t]
    BY <1>1, <1>3, <2>1, WatchedKinds DEF Flags
  <2>3. \A t \in Watched : Underway(t) => Underway(t)'
    BY <2>1, <2>2 DEF Underway
  <2> QED BY <2>1, <2>3, StaysOn
<1>9. CASE LockMessage \/ BeaconAnswer
  <2>1. /\ UNCHANGED <<scenario, arming, half, display, awaiting>>
        /\ \E lk : /\ lk \in [Lock -> None .. LockWait]
                   /\ ResetLockTimer(lk)
    <3>1. locks \in [Lock -> None .. LockWait]
      BY DEF TypeOK
    <3>2. \A l \in Lock : [locks EXCEPT ![l] = IF locks[l] = None THEN LockWait ELSE None]
                            \in [Lock -> None .. LockWait]
      BY <3>1, WaitsPositive
    <3>3. CASE LockMessage
      BY <3>2, <3>3 DEF LockMessage, InputUnchanged
    <3>4. CASE BeaconAnswer
      BY <3>1, <3>4 DEF BeaconAnswer, InputUnchanged
    <3> QED BY <1>9, <3>3, <3>4
  <2>2. PICK lk \in [Lock -> None .. LockWait] : ResetLockTimer(lk)
    BY <2>1
  <2>3. PICK n \in LockTime(lk) : SetNextAlarm([times EXCEPT !["lockable_timeout"] = n])
    BY <2>2 DEF ResetLockTimer
  <2> DEFINE tm == [times EXCEPT !["lockable_timeout"] = n]
  <2>4. n \in Int /\ n >= Off
    BY LockTimeOK
  <2>5. tm \in Times
    BY <1>1, <2>4, ChangedTimes
  <2>6. \A t \in Watched : tm[t] = times[t]
    BY <1>1, <1>3, WatchedKinds DEF Times
  <2> HIDE DEF tm
  <2>7. SetNextAlarm(tm)
    BY <2>3 DEF tm
  <2>8. \A t \in Watched : Underway(t) => Underway(t)'
    BY <1>4, <2>5, <2>6, <2>7
  <2> QED BY <2>1, <2>8, StaysOn
<1>10. CASE Acknowledged
  <2> DEFINE tm == [times EXCEPT ![A] = Off]
  <2>1. /\ UNCHANGED <<scenario, half, display, arming>> /\ awaiting' = FALSE
        /\ SetNextAlarm(tm) /\ Idle
    BY <1>10 DEF Acknowledged, AtInput, InputUnchanged
  <2>2. tm \in Times
    BY <1>1, OffOK, ChangedTimes
  <2>3. \A t \in {P, S, D} : tm[t] = times[t]
    BY <1>1, <1>2, <1>3 DEF Times
  <2> HIDE DEF tm
  <2>4. \A t \in {P, S, D} : Underway(t) => OnItsWay(t)'
    BY <1>2, <1>4, <2>1, <2>2, <2>3 DEF OnItsWay
  <2>5. display' => Using(D) /\ display
    BY <2>1 DEF GoesOn
  <2> QED BY <1>2, <2>1, <2>4, <2>5, IdleStep
<1>11. \A t \in Watched : times'[t] = times[t] /\ (got[t] => got'[t]) /\ Underway(t)
                         => OnItsWay(t)'
  BY DEF Underway, OnItsWay
<1>12. CASE Resend
  <2>1. /\ UNCHANGED <<scenario, half, display, awaiting, times>> /\ Idle
        /\ got' = [t \in Timer |-> got[t] /\ t \notin {A}]
        /\ got[A] /\ awaiting => arming' = <<A>>
    BY <1>12 DEF Resend, Arm, Answer, boxVars, envVars
  <2>2. ~ half'
    BY <2>1, IdleUnderway
  <2>3. \A t \in {P, S, D} : Underway(t) => OnItsWay(t)'
    BY <1>1, <1>2, <1>3, <1>11, <2>1 DEF Flags
  <2>4. awaiting /\ Underway(A) => OnItsWay(A)'
    <3>1. CASE awaiting /\ got[A]
      BY <2>1, <2>2, <3>1, NowListed
    <3>2. CASE awaiting /\ ~ got[A]
      BY <2>1, <3>2 DEF OnItsWay, Underway
    <3> QED BY <3>1, <3>2
  <2>5. /\ display' => Using(D) /\ display
        /\ awaiting' => Using(A) /\ awaiting
    BY <2>1 DEF GoesOn
  <2> QED BY <1>2, <2>1, <2>3, <2>4, <2>5, IdleStep
<1>13. CASE Announce
  <2>1. /\ UNCHANGED <<scenario, half, display, times, got>> /\ Idle /\ Using(A)
        /\ arming' = <<A>>
    BY <1>13 DEF Announce, Arm, AtInput, InputUnchanged, timeVars
  <2>2. ~ half'
    BY <2>1, IdleUnderway
  <2>3. \A t \in {P, S, D} : Underway(t) => OnItsWay(t)'
    BY <1>2, <1>11, <2>1
  <2>4. OnItsWay(A)'
    BY <2>1, <2>2, NowListed
  <2>5. display' => Using(D) /\ display
    BY <2>1 DEF GoesOn
  <2> QED BY <1>2, <2>1, <2>3, <2>4, <2>5, IdleStep
<1>14. CASE KeepDisplay
  <2> DEFINE tm == [times EXCEPT ![D] = Off]
  <2>1. /\ UNCHANGED <<scenario, half, awaiting, got>> /\ Idle /\ "d" \in scenario.commands
        /\ times' = tm /\ ArmPrint(tm)
    BY <1>14 DEF KeepDisplay, Type, AtInput, InputUnchanged
  <2>2. tm[D] = Off /\ \A t \in {P, S, A} : tm[t] = times[t]
    BY <1>1, <1>2, <1>3 DEF Times
  <2>3. arming' = <<"print_cloud", D>>
    BY <2>1, <2>2 DEF ArmPrint, AlreadySet, BothSet, Arm
  <2>4. OnItsWay(D)'
    <3>1. ~ half'
      BY <2>1, IdleUnderway
    <3> QED BY <2>3, <3>1, NowListed
  <2>5. \A t \in {P, S, A} : Underway(t) => OnItsWay(t)'
    BY <1>2, <1>11, <2>1, <2>2
  <2>6. Using(D) /\ (awaiting' => Using(A) /\ awaiting)
    BY <2>1 DEF GoesOn
  <2> QED BY <1>2, <2>1, <2>4, <2>5, <2>6, IdleStep
<1>15. CASE PostMaintenance
  <2>1. /\ UNCHANGED <<scenario, half, awaiting, got, display>> /\ Idle
        /\ IF times[D] # Off THEN times' = times /\ arming' = arming
           ELSE IF display THEN ArmPrint(times) /\ times' = times
           ELSE times' = [times EXCEPT !["print_cloud"] = Off] /\ arming' = arming
    BY <1>15 DEF PostMaintenance, envVars
  <2>2. \A t \in Watched : times'[t] = times[t]
    BY <1>1, <1>3, <2>1, WatchedKinds DEF Times
  <2>3. \A t \in Watched : Underway(t) => OnItsWay(t)'
    BY <1>11, <2>1, <2>2
  <2>4. /\ display' => Using(D) /\ display
        /\ awaiting' => Using(A) /\ awaiting
    BY <2>1 DEF GoesOn
  <2> QED BY <1>2, <2>1, <2>3, <2>4, IdleStep
<1>16. CASE Ping \/ Scan
  <2>1. PICK t \in {P, S} :
          /\ UNCHANGED <<scenario, half, awaiting, display, times>> /\ Idle
          /\ got' = [u \in Timer |-> got[u] /\ u \notin {t}]
          /\ got[t] => arming' = <<t>>
    BY <1>16 DEF Ping, Scan, AtEnd, EndUnchanged, Answer, Arm, envVars
  <2>2. ~ half'
    BY <2>1, IdleUnderway
  <2>3. \A u \in Watched \ {t} : Underway(u) => OnItsWay(u)'
    BY <1>1, <1>3, <1>11, <2>1 DEF Flags
  <2>4. Underway(t) => OnItsWay(t)'
    <3>1. CASE got[t]
      BY <2>1, <2>2, <3>1, NowListed
    <3>2. CASE ~ got[t]
      BY <2>1, <3>2 DEF OnItsWay, Underway
    <3> QED BY <3>1, <3>2
  <2>5. /\ display' => Using(D) /\ display
        /\ awaiting' => Using(A) /\ awaiting
    BY <2>1 DEF GoesOn
  <2>6. \A u \in Watched : Underway(u) => OnItsWay(u)'
    BY <2>3, <2>4
  <2> QED BY <1>2, <2>1, <2>5, <2>6, IdleStep
<1>17. CASE DisablePrint
  <2>1. /\ UNCHANGED <<scenario, half, awaiting, times>> /\ Idle
        /\ got' = [u \in Timer |-> got[u] /\ u \notin {D}]
        /\ display' = (display /\ ~ got[D])
    BY <1>17 DEF DisablePrint, AtEnd, EndUnchanged, Answer, envVars
  <2>2. \A t \in {P, S, A} : Underway(t) => OnItsWay(t)'
    BY <1>1, <1>2, <1>3, <1>11, <2>1 DEF Flags
  <2>3. display' /\ Underway(D) => OnItsWay(D)'
    BY <2>1 DEF OnItsWay, Underway
  <2>4. /\ display' => Using(D) /\ display
        /\ awaiting' => Using(A) /\ awaiting
    BY <2>1 DEF GoesOn
  <2> QED BY <1>2, <2>1, <2>2, <2>3, <2>4, IdleStep
<1>18. CASE PrintCloud
  <2>1. /\ UNCHANGED <<scenario, half, awaiting, display>> /\ Idle
        /\ got' = [u \in Timer |-> got[u] /\ u \notin {"print_cloud"}]
        /\ \/ times' = times
           \/ ~ display /\ times' = [times EXCEPT !["print_cloud"] = Off, ![D] = Off]
    BY <1>18 DEF PrintCloud, AtEnd, EndUnchanged, Answer, envVars
  <2>2. \A t \in Watched : got[t] => got'[t]
    BY <1>1, <1>3, <2>1, WatchedKinds DEF Flags
  <2>3. \A t \in {P, S, A} : times'[t] = times[t]
    BY <1>1, <1>2, <1>3, <2>1, WatchedKinds DEF Times
  <2>4. \A t \in {P, S, A} : Underway(t) => OnItsWay(t)'
    BY <1>2, <1>11, <2>2, <2>3
  <2>5. display /\ Underway(D) => OnItsWay(D)'
    BY <1>2, <1>11, <2>1, <2>2
  <2>6. /\ display' => Using(D) /\ display
        /\ awaiting' => Using(A) /\ awaiting
    BY <2>1 DEF GoesOn
  <2> QED BY <1>2, <2>1, <2>4, <2>5, <2>6, IdleStep
<1>19. ASSUME NEW u, NEW k \in 1 .. Len(arming), arming[k] = u, k > 1,
              arming' = Tail(arming), ~ half'
       PROVE  OnItsWay(u)'
  <2>1. Len(arming) \in Nat /\ k \in Int
    BY <1>1
  <2>2. arming # <<>>
    BY <2>1
  <2>3. /\ Len(Tail(arming)) = Len(arming) - 1
        /\ \A a \in 1 .. Len(arming) - 1 : Tail(arming)[a] = arming[a + 1]
    BY <1>1, <2>2
  <2>4. k - 1 \in 1 .. Len(arming) - 1 /\ (k - 1) + 1 = k
    BY <1>19, <2>1
  <2>5. k - 1 \in 1 .. Len(arming') /\ arming'[k - 1] = u
    BY <1>19, <2>3, <2>4
  <2> QED BY <1>19, <2>5 DEF OnItsWay, Listed
<1>20. ASSUME UNCHANGED <<scenario, display, awaiting>>,
              \A t \in Watched : Using(t) /\ OnItsWay(t) => OnItsWay(t)'
       PROVE  GoesOn'
  BY <1>2, <1>20 DEF GoesOn, Using
<1>21. CASE ArmNow
  <2> DEFINE t == Head(arming)
  <2>1. /\ arming # <<>> /\ ~ half /\ got' = got
        /\ UNCHANGED <<scenario, display, awaiting>>
        /\ IF times[t] # Off \/ ~ Using(t)
           THEN arming' = Tail(arming) /\ UNCHANGED <<times, half>>
           ELSE times' = [times EXCEPT ![t] = 0] /\ half' = TRUE /\ UNCHANGED arming
    BY <1>21 DEF ArmNow, envVars, boxVars
  <2>2. t = arming[1] /\ t \in Timer
    <3>1. t \in OneShot /\ t = arming[1]
      BY <1>1, <2>1
    <3> QED BY <3>1, Kinds
  <2> HIDE DEF t
  <2>3. ASSUME NEW u \in Watched, Using(u), OnItsWay(u) PROVE OnItsWay(u)'
    <3>1. CASE Underway(u)
      <4>1. CASE times' = times
        BY <2>1, <3>1, <4>1 DEF OnItsWay, Underway
      <4>2. CASE times' = [times EXCEPT ![t] = 0]
        <5>1. u \in Timer /\ 0 # Off
          BY <1>3 DEF Off
        <5>2. times'[u] # Off \/ got'[u]
          BY <1>1, <2>1, <3>1, <4>2, <5>1 DEF Underway, Times
        <5> QED BY <5>2 DEF OnItsWay, Underway
      <4> QED BY <2>1, <4>1, <4>2
    <3>2. ASSUME NEW k \in 1 .. Len(arming), arming[k] = u PROVE OnItsWay(u)'
      <4>1. CASE times[t] # Off \/ ~ Using(t)
        <5>1. CASE k = 1
          BY <2>1, <2>2, <2>3, <3>2, <4>1, <5>1 DEF OnItsWay, Underway
        <5>2. CASE k # 1
          <6>1. k > 1
            BY <1>1, <5>2
          <6> QED BY <1>19, <2>1, <3>2, <4>1, <6>1
        <5> QED BY <5>1, <5>2
      <4>2. CASE ~ (times[t] # Off \/ ~ Using(t))
        <5>1. times' = [times EXCEPT ![t] = 0] /\ arming' = arming
          BY <2>1, <4>2
        <5>2. CASE u = t
          <6>1. times'[u] # Off
            BY <1>1, <2>2, <5>1, <5>2 DEF Times, Off
          <6> QED BY <6>1 DEF OnItsWay, Underway
        <5>3. CASE u # t
          <6>1. k # 1
            BY <2>2, <3>2, <5>3
          <6>2. k > 1
            BY <1>1, <6>1
          <6> QED BY <3>2, <5>1, <6>2 DEF OnItsWay, Listed
        <5> QED BY <5>2, <5>3
      <4> QED BY <4>1, <4>2
    <3> QED BY <2>3, <3>1, <3>2 DEF OnItsWay, Listed
  <2> QED BY <1>20, <2>1, <2>3
<1>22. CASE ArmAdd
  <2> DEFINE t == Head(arming)
  <2>1. /\ half /\ ~ half' /\ arming' = Tail(arming) /\ arming # <<>>
        /\ UNCHANGED <<scenario, display, awaiting>>
    BY <1>22 DEF ArmAdd, TypeOK, envVars, boxVars
  <2>2. PICK n \in Added(times[t], Wait[t]) : SetNextAlarm([times EXCEPT ![t] = n])
    BY <1>22 DEF ArmAdd
  <2>3. t \in OneShot /\ t \in Timer
    <3>1. t \in OneShot
      BY <1>1, <2>1
    <3> QED BY <3>1, Kinds
  <2> DEFINE tm == [times EXCEPT ![t] = n]
  <2> HIDE DEF t
  <2>4. /\ Wait[t] \in Nat \ {0} /\ times[t] \in Int /\ times[t] >= Off
    BY <1>1, <2>3, WaitsPositive DEF Times
  <2>5. /\ n \in Int /\ n >= Off
        /\ times[t] # Off => n # Off
    BY <2>2, <2>4 DEF Added, Off, Past
  <2>6. tm \in Times
    BY <1>1, <2>5, ChangedTimes
  <2>7. \A u \in Timer : times[u] # Off => tm[u] # Off
    BY <1>1, <2>3, <2>5 DEF Times
  <2>8. SetNextAlarm(tm)
    BY <2>2
  <2> HIDE DEF tm
  <2>9. ASSUME NEW u \in Watched, OnItsWay(u) PROVE OnItsWay(u)'
    <3>1. CASE Underway(u)
      <4>1. u \in Timer /\ (tm[u] # Off \/ got[u])
        BY <1>3, <2>7, <3>1 DEF Underway
      <4> QED BY <2>6, <2>8, <4>1, AlarmKeeps DEF OnItsWay
    <3>2. ASSUME NEW k \in 1 .. Len(arming), arming[k] = u, k > 1 PROVE OnItsWay(u)'
      BY <1>19, <2>1, <3>2
    <3> QED BY <2>1, <2>9, <3>1, <3>2 DEF OnItsWay, Listed
  <2> QED BY <1>20, <2>1, <2>9
<1> QED
  BY <1>5, <1>6, <1>7, <1>8, <1>9, <1>10, <1>12, <1>13, <1>14, <1>15, <1>16, <1>17, <1>18,
     <1>21, <1>22 DEF Next, Loop, Handler, Input

(* Whenever the loop goes to sleep, pings and scans, the end of a display   *)
(* and the repetition of an announced packet have a timer or an event to    *)
(* come, for all waits and wherever the signal came.                        *)
THEOREM LoopNeverStops == Spec => []NothingStops
<1>1. Init => Inv /\ GoesOn
  BY InitOK, InitGoesOn
<1>2. Inv /\ GoesOn /\ [Next]_vars => Inv' /\ GoesOn'
  <2> SUFFICES ASSUME Inv, GoesOn, [Next]_vars PROVE Inv' /\ GoesOn'
    OBVIOUS
  <2>1. Inv'
    BY NextOK
  <2> QED BY <2>1, NextGoesOn DEF Inv
<1>3. Inv /\ GoesOn => NothingStops
  <2> SUFFICES ASSUME TypeOK, GoesOn, Idle
               PROVE  /\ \A t \in Repeating : Using(t) => Underway(t)
                      /\ display => Underway("disable_print_cloud")
                      /\ awaiting => Underway("noncloud_message")
    BY DEF Inv, NothingStops, Repeating
  <2> QED BY IdleUnderway DEF GoesOn
<1> QED BY <1>1, <1>2, <1>3, PTL DEF Spec
=============================================================================
