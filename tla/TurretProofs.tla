---------------------------- MODULE TurretProofs ----------------------------
(***************************************************************************)
(* Proofs about Turret, for any number of patrol tasks, any sweep, any     *)
(* number of tries and any length of burst.                                *)
(*                                                                         *)
(* The flag m_bIsRunningState is the only thing stop() looks at, and a     *)
(* patrol that was created but has not begun does not show in it.  The     *)
(* invariant says what the flags mean all the same: a patrol that has      *)
(* begun is marked, and one that has not will find m_bStopFlag set once    *)
(* the game has called stop().                                             *)
(***************************************************************************)
EXTENDS Turret, Radar, SequenceTheorems, TLAPS

Begun(t) == task[t] \notin {"none", "born"}

(* m_bIsRunningState is set exactly while a patrol has begun. *)
Marked ==
    /\ \A t \in Tasks : Begun(t) => running
    /\ running => \E t \in Tasks : Begun(t)

(* Only a patrol at work keeps the weapon powered and the LED on. *)
Powered == weapon => \E t \in Tasks : task[t] \in {"test"} \cup AtWork
Alerted == alert => \E t \in Tasks : task[t] \in {"lit", "cease"}

(* From stop() to the next start() the flag stays set for a patrol that    *)
(* has not begun, and once the servos are parked nothing is at work.       *)
Stopped ==
    /\ ctl["game"] = "poll" => stopFlag
    /\ ctl["game"] \in {"settle", "out", "announce"} =>
         /\ servo # "swing"
         /\ \A t \in Tasks : task[t] \notin AtWork /\ (task[t] # "none" => stopFlag)

(* A scan counts no more reports than it has taken. *)
Counted == \A t \in Tasks : task[t] = "scan" => left <= Tries /\ found + left <= Tries

IInv == TypeOK /\ OnePatrol /\ Marked /\ Powered /\ Alerted /\ Stopped /\ Counted

-----------------------------------------------------------------------------
LEMMA Midway == 90 \in RangeH /\ 90 \in RangeV
<1>1. 90 = 10 * 9 /\ 9 \in 3 .. 15 /\ 90 = 2 * 45 /\ 45 \in 43 .. 48
    OBVIOUS
<1> QED BY <1>1 DEF RangeH, RangeV

LEMMA Initially == Init => IInv
<1> SUFFICES ASSUME Init PROVE IInv
    OBVIOUS
<1> USE DEF Init
<1>2. TypeOK
  <2>1. task \in [Tasks -> {"none", "born", "test", "leave"} \cup AtWork]
      OBVIOUS
  <2>2. ctl \in [Controllers -> {"out", "announce", "play", "poll", "settle", "wait"}]
      OBVIOUS
  <2>3. 0 \in 0 .. Sweep + Tries + Burst + 1 /\ 0 \in 0 .. Tries + 1
      BY TurretAssumption
  <2> QED BY Midway, <2>1, <2>2, <2>3 DEF TypeOK
<1>3. OnePatrol /\ Marked /\ Counted /\ Powered /\ Alerted
    BY DEF OnePatrol, Marked, Begun, Counted, Powered, Alerted
<1>4. Stopped
    BY DEF Stopped, AtWork, Controllers
<1> QED BY <1>2, <1>3, <1>4 DEF IInv

(* The angles stay in their range: a move turns round at its ends. *)
LEMMA TurnsH ==
    ASSUME NEW d \in RangeH, NEW up \in BOOLEAN
    PROVE  LET u == Turns(d, up, 30, 150)
           IN  u \in BOOLEAN /\ (IF u THEN d + 10 ELSE d - 10) \in RangeH
<1> PICK k \in 3 .. 15 : d = 10 * k
    BY DEF RangeH
<1> DEFINE u == Turns(d, up, 30, 150)
<1>1. u \in BOOLEAN
    BY DEF Turns
<1>2. CASE u
  <2>1. k + 1 \in 3 .. 15 /\ d + 10 = 10 * (k + 1)
      BY <1>2 DEF Turns
  <2> QED BY <1>1, <1>2, <2>1 DEF RangeH
<1>3. CASE ~u
  <2>1. k - 1 \in 3 .. 15 /\ d - 10 = 10 * (k - 1)
      BY <1>3 DEF Turns
  <2> QED BY <1>1, <1>3, <2>1 DEF RangeH
<1> QED BY <1>1, <1>2, <1>3

LEMMA TurnsV ==
    ASSUME NEW d \in RangeV, NEW up \in BOOLEAN
    PROVE  LET u == Turns(d, up, 86, 96)
           IN  u \in BOOLEAN /\ (IF u THEN d + 2 ELSE d - 2) \in RangeV
<1> PICK k \in 43 .. 48 : d = 2 * k
    BY DEF RangeV
<1> DEFINE u == Turns(d, up, 86, 96)
<1>1. u \in BOOLEAN
    BY DEF Turns
<1>2. CASE u
  <2>1. k + 1 \in 43 .. 48 /\ d + 2 = 2 * (k + 1)
      BY <1>2 DEF Turns
  <2> QED BY <1>1, <1>2, <2>1 DEF RangeV
<1>3. CASE ~u
  <2>1. k - 1 \in 43 .. 48 /\ d - 2 = 2 * (k - 1)
      BY <1>3 DEF Turns
  <2> QED BY <1>1, <1>3, <2>1 DEF RangeV
<1> QED BY <1>1, <1>2, <1>3
-----------------------------------------------------------------------------
(* A task that exists is the only one. *)
LEMMA Alone ==
    ASSUME IInv, NEW t \in Tasks, task[t] # "none"
    PROVE  \A u \in Tasks : u # t => task[u] = "none"
BY DEF IInv, OnePatrol

LEMMA TypeStep == IInv /\ [Next]_vars => TypeOK'
<1> SUFFICES ASSUME IInv, [Next]_vars PROVE TypeOK'
    OBVIOUS
<1> USE TurretAssumption DEF IInv, TypeOK, Goto, CtlGoto, flags, aim, radar
<1>1. ASSUME NEW t \in Tasks, PatrolStep(t) PROVE TypeOK'
  <2>1. CASE Begin(t)
      BY <2>1, Midway DEF Begin
  <2>2. CASE TestStop(t)
    <3>1. left' \in 0 .. Sweep + Tries + Burst + 1
        BY <2>2 DEF TestStop
    <3>2. task' \in [Tasks -> {"none", "born", "test", "leave"} \cup AtWork]
        BY <2>2 DEF TestStop, AtWork
    <3> QED BY <2>2, <3>1, <3>2 DEF TestStop
  <2>3. CASE AimH(t)
    <3>1. Turns(degreeH, upH, 30, 150) \in BOOLEAN
          /\ (IF Turns(degreeH, upH, 30, 150) THEN degreeH + 10 ELSE degreeH - 10) \in RangeH
        BY TurnsH
    <3>2. upH' \in BOOLEAN /\ degreeH' \in RangeH
        BY <2>3, <3>1 DEF AimH
    <3> QED BY <2>3, <3>2 DEF AimH, AtWork
  <2>4. CASE AimV(t)
    <3>1. Turns(degreeV, upV, 86, 96) \in BOOLEAN
          /\ (IF Turns(degreeV, upV, 86, 96) THEN degreeV + 2 ELSE degreeV - 2) \in RangeV
        BY TurnsV
    <3>2. upV' \in BOOLEAN /\ degreeV' \in RangeV
        BY <2>4, <3>1 DEF AimV
    <3> QED BY <2>4, <3>2 DEF AimV, AtWork
  <2>5. CASE EnableDetect(t)
    <3>1. left' \in 0 .. Sweep + Tries + Burst + 1 /\ found' \in 0 .. Tries + 1
        BY <2>5 DEF EnableDetect
    <3>2. task' \in [Tasks -> {"none", "born", "test", "leave"} \cup AtWork]
        BY <2>5 DEF EnableDetect, AtWork
    <3> QED BY <2>5, <3>1, <3>2 DEF EnableDetect
  <2>6. CASE Scan(t)
    <3>1. left \in Nat /\ found \in Nat /\ found + left <= Tries
        BY <2>6 DEF Scan, Counted
    <3>2. found' \in 0 .. Tries + 1 /\ distance' \in BOOLEAN
        BY <2>6, <3>1 DEF Scan
    <3>3. left' \in 0 .. Sweep + Tries + Burst + 1
        BY <2>6, <3>1 DEF Scan
    <3> QED BY <2>6, <3>2, <3>3 DEF Scan, AtWork
  <2>7. CASE Shoot(t)
    <3>1. left' \in 0 .. Sweep + Tries + Burst + 1
        BY <2>7 DEF Shoot
    <3>2. task' \in [Tasks -> {"none", "born", "test", "leave"} \cup AtWork]
        BY <2>7 DEF Shoot, AtWork
    <3> QED BY <2>7, <3>1, <3>2 DEF Shoot
  <2>8. CASE Pause(t)
      BY <2>8 DEF Pause, AtWork
  <2>9. CASE Cease(t)
      BY <2>9 DEF Cease
  <2>10. CASE Leave(t)
      BY <2>10 DEF Leave
  <2> QED BY <1>1, <2>1, <2>2, <2>3, <2>4, <2>5, <2>6, <2>7, <2>8, <2>9, <2>10 DEF PatrolStep
<1>2. CASE Announce
    BY <1>2 DEF Announce
<1>3. CASE Start
    BY <1>3 DEF Start
<1>4. CASE DeepSleep
  <2>2. left' \in 0 .. Sweep + Tries + Burst + 1 /\ found' \in 0 .. Tries + 1
      BY <1>4 DEF DeepSleep
  <2> QED BY <1>4, Midway, <2>2 DEF DeepSleep
<1>5. ASSUME NEW c \in Controllers, Stop(c) PROVE TypeOK'
    BY <1>5 DEF Stop
<1>6. ASSUME NEW c \in Controllers, Park(c) PROVE TypeOK'
    BY <1>6 DEF Park
<1>7. ASSUME NEW c \in Controllers, Release(c) PROVE TypeOK'
    BY <1>7 DEF Release
<1>8. CASE UNCHANGED vars
    BY <1>8 DEF vars
<1> QED BY <1>1, <1>2, <1>3, <1>4, <1>5, <1>6, <1>7, <1>8 DEF Next

(* The patrols: how many there are, and what shows that one has begun. *)
LEMMA PatrolsStep ==
    IInv /\ [Next]_vars => OnePatrol' /\ Marked' /\ Powered' /\ Alerted'
<1> SUFFICES ASSUME IInv, [Next]_vars
             PROVE  OnePatrol' /\ Marked' /\ Powered' /\ Alerted'
    OBVIOUS
<1> USE DEF Begun, Goto, CtlGoto, flags, aim, radar, AtWork
<1>0. task \in [Tasks -> {"none", "born", "test", "leave"} \cup AtWork]
    BY DEF IInv, TypeOK
<1>1. ASSUME NEW t \in Tasks, PatrolStep(t)
      PROVE  OnePatrol' /\ Marked' /\ Powered' /\ Alerted'
  <2>0. task[t] # "none" /\ \E s : Goto(t, s) \/ task' = task
      BY <1>1 DEF PatrolStep, Begin, TestStop, AimH, AimV, EnableDetect, Scan, Shoot, Pause, Cease, Leave
  <2>1. \A u \in Tasks : u # t => task[u] = "none" /\ task'[u] = "none"
      BY <1>0, <1>1, <2>0, Alone
         DEF PatrolStep, Begin, TestStop, AimH, AimV, EnableDetect, Scan, Shoot, Pause, Cease, Leave
  <2>2. OnePatrol'
      BY <2>1 DEF OnePatrol
  <2>3. Marked'
      BY <1>0, <1>1, <2>1
         DEF IInv, Marked, PatrolStep, Begin, TestStop, AimH, AimV, EnableDetect, Scan, Shoot, Pause, Cease, Leave
  <2>4. Powered'
      BY <1>0, <1>1, <2>1
         DEF IInv, Powered, PatrolStep, Begin, TestStop, AimH, AimV, EnableDetect, Scan, Shoot, Pause, Cease, Leave
  <2>5. Alerted'
      BY <1>0, <1>1, <2>1
         DEF IInv, Alerted, PatrolStep, Begin, TestStop, AimH, AimV, EnableDetect, Scan, Shoot, Pause, Cease, Leave
  <2> QED BY <2>2, <2>3, <2>4, <2>5
<1>2. CASE Announce
    BY <1>2 DEF Announce, IInv, OnePatrol, Marked, Powered, Alerted
<1>3. CASE Start
  <2>1. CASE task' = task
      BY <1>3, <2>1 DEF Start, IInv, OnePatrol, Marked, Powered, Alerted
  <2>2. ASSUME ~running, NEW t \in Tasks, Goto(t, "born")
        PROVE  OnePatrol' /\ Marked' /\ Powered' /\ Alerted'
    <3>1. \A u \in Tasks : task[u] = "none"
        BY <1>0, <1>3, <2>2 DEF Start, IInv, Marked
    <3>2. \A u \in Tasks : task'[u] = IF u = t THEN "born" ELSE "none"
        BY <1>0, <2>2, <3>1
    <3> QED BY <1>3, <2>2, <3>1, <3>2 DEF Start, IInv, OnePatrol, Marked, Powered, Alerted
  <2> QED BY <1>3, <2>1, <2>2 DEF Start
<1>4. CASE DeepSleep
    BY <1>4 DEF DeepSleep, OnePatrol, Marked, Powered, Alerted
<1>5. ASSUME NEW c \in Controllers, Stop(c) \/ Park(c) \/ Release(c)
      PROVE  OnePatrol' /\ Marked' /\ Powered' /\ Alerted'
  <2>1. task' = task /\ running' = running /\ alert' = alert
      BY <1>5 DEF Stop, Park, Release
  <2>2. weapon' => weapon
      BY <1>5, Zenon DEF Stop, Park, Release
  <2> QED BY <2>1, <2>2 DEF IInv, OnePatrol, Marked, Powered, Alerted
<1>6. CASE UNCHANGED vars
    BY <1>6 DEF vars, IInv, OnePatrol, Marked, Powered, Alerted
<1> QED BY <1>1, <1>2, <1>3, <1>4, <1>5, <1>6 DEF Next

(* The controllers: stop() leaves nothing at work. *)
LEMMA StoppedStep == IInv /\ [Next]_vars => Stopped'
<1> SUFFICES ASSUME IInv, [Next]_vars PROVE Stopped'
    OBVIOUS
<1> USE DEF IInv, Stopped, Goto, CtlGoto, flags, aim, radar, AtWork, Controllers
<1>0. /\ task \in [Tasks -> {"none", "born", "test", "leave"} \cup AtWork]
      /\ ctl \in [Controllers -> {"out", "announce", "play", "poll", "settle", "wait"}]
    BY DEF TypeOK
<1>1. ASSUME NEW t \in Tasks, PatrolStep(t) PROVE Stopped'
  <2>1. ctl' = ctl /\ stopFlag' = stopFlag /\ task[t] # "none"
      BY <1>1 DEF PatrolStep, Begin, TestStop, AimH, AimV, EnableDetect, Scan, Shoot, Pause, Cease, Leave
  <2>2. ASSUME ctl["game"] \in {"settle", "out", "announce"}
        PROVE  /\ servo' # "swing"
               /\ \A u \in Tasks : task'[u] \notin AtWork /\ (task'[u] # "none" => stopFlag)
    <3>1. stopFlag /\ task[t] \in {"born", "test", "leave"}
        BY <1>0, <2>1, <2>2
    <3>2. servo' = servo /\ task' \in {[task EXCEPT ![t] = s] : s \in {"test", "leave", "none"}}
        BY <1>1, <3>1
           DEF PatrolStep, Begin, TestStop, AimH, AimV, EnableDetect, Scan, Shoot, Pause, Cease, Leave
    <3> QED BY <1>0, <2>2, <3>1, <3>2
  <2> QED BY <2>1, <2>2
<1>2. CASE Announce
    BY <1>0, <1>2 DEF Announce
<1>3. CASE Start
    BY <1>0, <1>3 DEF Start
<1>4. CASE DeepSleep
    BY <1>4 DEF DeepSleep
<1>5. ASSUME NEW c \in Controllers, Stop(c) PROVE Stopped'
    BY <1>0, <1>5 DEF Stop
<1>6. ASSUME NEW c \in Controllers, Park(c) PROVE Stopped'
  <2>1. \A t \in Tasks : task[t] \in {"none", "born"}
      BY <1>0, <1>6 DEF Park, Marked, Begun
  <2> QED BY <1>0, <1>6, <2>1 DEF Park
<1>7. ASSUME NEW c \in Controllers, Release(c) PROVE Stopped'
    BY <1>0, <1>7 DEF Release
<1>8. CASE UNCHANGED vars
    BY <1>8 DEF vars
<1> QED BY <1>1, <1>2, <1>3, <1>4, <1>5, <1>6, <1>7, <1>8 DEF Next

LEMMA CountedStep == IInv /\ [Next]_vars => Counted'
<1> SUFFICES ASSUME IInv, [Next]_vars PROVE Counted'
    OBVIOUS
<1> USE TurretAssumption DEF IInv, Counted, Goto, CtlGoto, flags, aim, radar
<1>0. /\ task \in [Tasks -> {"none", "born", "test", "leave"} \cup AtWork]
      /\ left \in Nat /\ found \in Nat
    BY DEF TypeOK
<1>1. ASSUME NEW t \in Tasks, PatrolStep(t) PROVE Counted'
  <2>1. task[t] # "none"
      BY <1>1 DEF PatrolStep, Begin, TestStop, AimH, AimV, EnableDetect, Scan, Shoot, Pause, Cease, Leave
  <2>2. \A u \in Tasks : u # t => task'[u] = "none"
      BY <1>0, <1>1, <2>1, Alone
         DEF PatrolStep, Begin, TestStop, AimH, AimV, EnableDetect, Scan, Shoot, Pause, Cease, Leave
  <2>3. ASSUME task'[t] = "scan" PROVE left' <= Tries /\ found' + left' <= Tries
    <3>1. CASE EnableDetect(t)
      <4>1. left' = Tries /\ found' = 0
          BY <3>1 DEF EnableDetect
      <4> QED BY <4>1
    <3>2. CASE Scan(t)
      <4>1. left <= Tries /\ found + left <= Tries /\ left > 0
          BY <1>0, <2>3, <3>2 DEF Scan
      <4>2. left' = left - 1 /\ found' \in {found, found + 1}
          BY <1>0, <3>2, <4>1 DEF Scan
      <4> HIDE DEF IInv, Counted
      <4>3. left - 1 <= Tries /\ found + (left - 1) <= Tries /\ (found + 1) + (left - 1) <= Tries
          BY <1>0, <4>1
      <4> QED BY <4>2, <4>3
    <3>3. CASE ~EnableDetect(t) /\ ~Scan(t)
        BY <1>0, <1>1, <2>3, <3>3 DEF PatrolStep, Begin, TestStop, AimH, AimV, Shoot, Pause, Cease, Leave
    <3> QED BY <3>1, <3>2, <3>3
  <2> QED BY <2>2, <2>3
<1>2. CASE Announce
    BY <1>2 DEF Announce
<1>3. CASE Start
    BY <1>0, <1>3 DEF Start
<1>4. CASE DeepSleep
    BY <1>4 DEF DeepSleep
<1>5. ASSUME NEW c \in Controllers, Stop(c) \/ Park(c) \/ Release(c) PROVE Counted'
    BY <1>5 DEF Stop, Park, Release
<1>6. CASE UNCHANGED vars
    BY <1>6 DEF vars
<1> QED BY <1>1, <1>2, <1>3, <1>4, <1>5, <1>6 DEF Next

-----------------------------------------------------------------------------
THEOREM Invariance == Spec => []IInv
<1>1. IInv /\ [Next]_vars => IInv'
    BY TypeStep, PatrolsStep, StoppedStep, CountedStep DEF IInv
<1> QED BY Initially, <1>1, PTL DEF Spec

(* The turret's state keeps its types, and no servo is sent out of its     *)
(* range.                                                                  *)
THEOREM TypeCorrect == Spec => []TypeOK
<1>1. IInv => TypeOK
    BY DEF IInv
<1> QED BY Invariance, <1>1, PTL

(* AutoTurret::start and stop never let two patrols exist.                 *)
THEOREM PatrolsExclude == Spec => []OnePatrol
<1>1. IInv => OnePatrol
    BY DEF IInv
<1> QED BY Invariance, <1>1, PTL

(* After stop() has returned to the game nothing moves, scans or shoots,   *)
(* even if the patrol begins only then.                                    *)
THEOREM StopIsFinal == Spec => []QuietWhenStopped
<1>1. IInv => QuietWhenStopped
  <2> SUFFICES ASSUME IInv, ctl["game"] \in {"out", "announce"}
               PROVE  /\ \A t \in Tasks : task[t] \notin AtWork
                      /\ ~alert /\ servo # "swing"
                      /\ weapon => \E t \in Tasks : task[t] = "test"
      BY DEF QuietWhenStopped
  <2>1. (\A t \in Tasks : task[t] \notin AtWork) /\ servo # "swing"
      BY DEF IInv, Stopped
  <2>2. ~alert
      BY <2>1 DEF IInv, Alerted, AtWork
  <2>3. weapon => \E t \in Tasks : task[t] = "test"
      BY <2>1 DEF IInv, Powered
  <2> QED BY <2>1, <2>2, <2>3
<1> QED BY Invariance, <1>1, PTL

-----------------------------------------------------------------------------
(* The radar.  Unless the radar missed the first OPEN or its reply to      *)
(* CLOSE was lost, it is silent before the second OPEN, so what the UART   *)
(* holds when a reply is read is that reply or nothing.                    *)
InStep ==
    /\ pc = "open" => ~misread
    /\ ~unheard =>
         /\ ~misread
         /\ pc \in {"openAgain", "opened", "sweep"} => mode = "command"
         /\ pc = "opened" => rx \in {<<>>, <<"OPEN">>}
         /\ pc = "sweep" => rx = <<>>
         /\ pc = "closed" => rx = <<>> \/ Head(rx) = "CLOSE"

LEMMA InStepAtFirst == RadarInit => InStep
  BY DEF RadarInit, InStep

(* What the UART holds after a command that a silent radar heard, or not. *)
LEMMA SilentCommand ==
    ASSUME NEW cmd \in {"OPEN", "CLOSE"}, NEW heard \in BOOLEAN, NEW acked \in BOOLEAN,
           mode = "command", Command(cmd, <<>>, heard, acked)
    PROVE  /\ mode' = IF heard /\ cmd = "CLOSE" THEN "report" ELSE "command"
           /\ cmd = "OPEN" => rx' \in {<<>>, <<"OPEN">>}
           /\ cmd = "CLOSE" => \/ rx' = <<>>
                               \/ heard /\ ~acked
                               \/ Head(rx') = "CLOSE"
<1> DEFINE ack == IF heard /\ acked THEN <<cmd>> ELSE <<>>
<1>1. mode' = IF heard /\ cmd = "CLOSE" THEN "report" ELSE "command"
    BY DEF Command
<1>2. PICK a \in Chatter(mode') : rx' = <<>> \o <<>> \o ack \o a
    BY DEF Command, Chatter
<1>3. a \in {<<>>, <<"report">>} /\ (mode' = "command" => a = <<>>)
    BY DEF Chatter
<1>4. CASE heard /\ acked
  <2> DEFINE Bytes == {"OPEN", "CLOSE", "report"}
  <2>0. cmd \in Bytes /\ "report" \in Bytes
      OBVIOUS
  <2> HIDE DEF Bytes
  <2>1. <<cmd>> \in Seq(Bytes) /\ a \in Seq(Bytes)
    <3>1. <<>> \in Seq(Bytes) /\ <<"report">> \in Seq(Bytes) /\ <<cmd>> \in Seq(Bytes)
        BY <2>0
    <3>2. CASE a = <<>>
        BY <3>1, <3>2
    <3>3. CASE a = <<"report">>
        BY <3>1, <3>3
    <3> QED BY <1>3, <3>2, <3>3
  <2>2. rx' = <<cmd>> \o a
      BY <1>2, <1>4, <2>1, ConcatEmptySeq
  <2>3. Head(<<cmd>> \o a) = cmd
      BY <2>1
  <2>4. a = <<>> => rx' = <<cmd>>
      BY <2>1, <2>2, ConcatEmptySeq
  <2> QED BY <1>1, <1>3, <1>4, <2>2, <2>3, <2>4
<1>5. CASE ~heard
    BY <1>1, <1>2, <1>3, <1>5
<1>6. CASE heard /\ ~acked
    BY <1>1, <1>2, <1>3, <1>6
<1> QED BY <1>4, <1>5, <1>6

LEMMA InStepKept == InStep /\ [RadarNext]_radarVars => InStep'
<1> SUFFICES ASSUME InStep, [RadarNext]_radarVars PROVE InStep'
    OBVIOUS
<1> USE DEF InStep
<1>1. CASE OpenFirst
  <2>1. PICK heard \in BOOLEAN, acked \in BOOLEAN :
          Command("OPEN", rx, heard, acked) /\ unheard' = ~heard
      BY <1>1 DEF OpenFirst
  <2>2. heard => mode' = "command"
      BY <2>1 DEF Command
  <2> QED BY <1>1, <2>1, <2>2 DEF OpenFirst
<1>2. CASE OpenAgain
  <2>1. PICK heard \in BOOLEAN, acked \in BOOLEAN : Command("OPEN", <<>>, heard, acked)
      BY <1>2 DEF OpenAgain
  <2>2. pc = "openAgain" /\ pc' = "opened" /\ UNCHANGED <<unheard, misread>>
      BY <1>2 DEF OpenAgain
  <2>3. ~unheard => mode' = "command" /\ rx' \in {<<>>, <<"OPEN">>}
      BY <2>1, <2>2, SilentCommand
  <2> QED BY <2>2, <2>3
<1>3. CASE GetReply
  <2>1. UNCHANGED <<mode, unheard>>
      BY <1>3 DEF GetReply
  <2>2. CASE pc = "opened" /\ ReadReply("OPEN") /\ pc' = "sweep"
    <3>1. ASSUME ~unheard PROVE ~misread' /\ rx' = <<>>
      <4>1. rx \in {<<>>, <<"OPEN">>} /\ ~misread
          BY <2>2, <3>1
      <4>2. Head(<<"OPEN">>) = "OPEN" /\ Tail(<<"OPEN">>) = <<>>
          OBVIOUS
      <4> QED BY <2>2, <4>1, <4>2 DEF ReadReply
    <3> QED BY <2>1, <2>2, <3>1
  <2>3. CASE pc = "closed" /\ ReadReply("CLOSE") /\ pc' = "flush"
      BY <2>1, <2>3 DEF ReadReply
  <2> QED BY <1>3, <2>2, <2>3 DEF GetReply
<1>4. CASE Close
  <2>1. PICK heard \in BOOLEAN, acked \in BOOLEAN, b \in Chatter(mode) :
          Command("CLOSE", rx \o b, heard, acked) /\ unheard' = (unheard \/ (heard /\ ~acked))
      BY <1>4 DEF Close
  <2>2. pc = "sweep" /\ pc' = "closed" /\ misread' = misread
      BY <1>4 DEF Close
  <2>3. ASSUME ~unheard' PROVE rx' = <<>> \/ Head(rx') = "CLOSE"
    <3>1. ~unheard /\ ~(heard /\ ~acked)
        BY <2>1, <2>3
    <3>2. mode = "command" /\ rx = <<>> /\ b = <<>>
        BY <2>2, <3>1 DEF Chatter
    <3>3. Command("CLOSE", <<>>, heard, acked)
        BY <2>1, <3>2
    <3> QED BY <3>1, <3>2, <3>3, SilentCommand
  <2> QED BY <2>1, <2>2, <2>3
<1>5. CASE Flush
    BY <1>5 DEF Flush
<1>6. CASE ScanStep
    BY <1>6 DEF ScanStep, SendLine, LoseByte, Silence, HearByte, EndLine, OneTryLess, wire
<1>7. CASE Decide
    BY <1>7 DEF Decide
<1>8. CASE UNCHANGED radarVars
    BY <1>8 DEF radarVars
<1> QED BY <1>1, <1>2, <1>3, <1>4, <1>5, <1>6, <1>7, <1>8 DEF RadarNext

(* sendCmdPacket takes nothing but the reply to its own command for it,    *)
(* unless the radar missed the first OPEN of the round or its reply to     *)
(* CLOSE was lost: for any word, any buffer and any number of lost bytes.  *)
THEOREM RepliesAreOwn == RadarSpec => []RepliesInStep
<1>1. InStep => RepliesInStep
    BY DEF InStep, RepliesInStep
<1> QED BY <1>1, InStepAtFirst, InStepKept, PTL DEF RadarSpec

-----------------------------------------------------------------------------
(* What the radar counts.  Every "ON" that scan may still count stands for *)
(* a line "ON" of its own that was sent since the flush: its "N" is still  *)
(* to come, to a place where it may be counted, or is in the buffer, and   *)
(* the line it was read into has not ended.                                *)
OnAir == Letter \cup {"O", "N", "F", "CR", "LF", " ", "0", "d"}
InBuf == OnAir \cup {"NUL", "b", "x"}

Wired ==
    /\ air \in Seq(OnAir) /\ p \in Cells /\ buf \in [Cells -> InBuf]
    /\ n \in Nat /\ sentOn \in Nat
    /\ \A i, j \in DOMAIN air : air[i] = "N" /\ air[j] = "N" => i = j

ToCome(a, q) == \E i \in DOMAIN a : a[i] = "N" /\ ~(q = 0 /\ i = 1)
Kept(b, q)   == q >= 2 /\ b[1] = "N"
One(claim)   == IF claim THEN 1 ELSE 0

Covered ==
    pc \in {"scan", "decide"} => n + One(ToCome(air, p)) + One(Kept(buf, p)) <= sentOn

(* A digit in the buffer is of this scan, unless it is an "x"; and that is *)
(* there only if bytes of lines were read as a reply in this round.        *)
Fresh ==
    ~misread =>
        /\ pc \in {"sweep", "closed", "flush"} => \A i \in Cells : buf[i] \notin {"d", "x"}
        /\ pc \in {"scan", "decide"} => /\ \A i \in Cells : buf[i] # "x"
                                        /\ reading \in {"0", "fresh"}

LEMMA RadarAtFirst == RadarInit => Wired /\ Covered /\ Fresh
<1> SUFFICES ASSUME RadarInit PROVE Wired /\ Covered /\ Fresh
    OBVIOUS
<1>1. 0 \in Cells
    BY RadarAssumption DEF Cells
<1>2. buf \in [Cells -> InBuf]
    BY DEF RadarInit, InBuf
<1>3. Wired
    BY <1>1, <1>2 DEF RadarInit, Wired
<1> QED BY <1>3 DEF RadarInit, Covered, Fresh

LEMMA Elements ==
    ASSUME NEW S, NEW s \in Seq(S)
    PROVE  \A i \in DOMAIN s : s[i] \in S
  OBVIOUS

(* Only the line "ON" has an "N", and as its second byte. *)
LEMMA LinesAreSound ==
    ASSUME NEW l \in Lines
    PROVE  /\ l \in Seq(OnAir)
           /\ \A i \in DOMAIN l : l[i] = "N" => i = 2 /\ l = <<"O", "N", "CR", "LF">>
<1>1. CASE l = <<"O", "N", "CR", "LF">>
    BY <1>1 DEF OnAir
<1>2. CASE l = <<"O", "F", "F", "CR", "LF">>
    BY <1>2 DEF OnAir
<1>3. ASSUME NEW t \in Seq({" ", "0", "d", "CR", "LF"}), l = RangeWord \o t
      PROVE  l \in Seq(OnAir) /\ \A i \in DOMAIN l : l[i] # "N"
  <2>1. l \in Seq(Letter \cup {" ", "0", "d", "CR", "LF"})
    <3>1. RangeWord \in Seq(Letter \cup {" ", "0", "d", "CR", "LF"})
        BY RadarAssumption, SeqMonotonic
    <3>2. t \in Seq(Letter \cup {" ", "0", "d", "CR", "LF"})
        BY <1>3, SeqMonotonic
    <3> QED BY <1>3, <3>1, <3>2, ConcatProperties
  <2>2. l \in Seq(OnAir)
      BY <2>1, SeqMonotonic DEF OnAir
  <2>3. \A i \in DOMAIN l : l[i] \in Letter \cup {" ", "0", "d", "CR", "LF"}
      BY <2>1, Elements
  <2>4. "N" \notin Letter \cup {" ", "0", "d", "CR", "LF"}
      BY DEF Letter
  <2> QED BY <2>2, <2>3, <2>4
<1>4. <<" ", "0", "CR", "LF">> \in Seq({" ", "0", "d", "CR", "LF"})
    OBVIOUS
<1>5. <<" ", "d", "d", "CR", "LF">> \in Seq({" ", "0", "d", "CR", "LF"})
    OBVIOUS
<1> QED BY <1>1, <1>2, <1>3, <1>4, <1>5 DEF Lines

(* atoi makes something of an "x" only if there is one. *)
LEMMA AtoiIsFresh ==
    ASSUME NEW b, \A i \in Cells : b[i] # "x"
    PROVE  Atoi(b) \in {"0", "fresh"}
<1>1. Len(RangeWord) \in Nat /\ Last \in Nat
    BY RadarAssumption
<1>2. \A i \in Len(RangeWord) + 1 .. Last : b[i] # "x"
    BY <1>1 DEF Cells
<1> QED BY <1>2 DEF Atoi

LEMMA EndLineKept ==
    ASSUME Wired, Covered, Fresh, EndLine
    PROVE  Wired' /\ Covered' /\ Fresh'
<1> USE DEF Wired
<1>1. /\ air \in Seq(OnAir) /\ air # <<>> /\ air' = Tail(air) /\ pc = "scan"
      /\ pc' \in {"scan", "decide"} /\ p' = 0 /\ misread' = misread /\ sentOn' = sentOn
    BY DEF EndLine, OneTryLess
<1>2. /\ Tail(air) \in Seq(OnAir)
      /\ \A i \in DOMAIN Tail(air) : i + 1 \in DOMAIN air /\ Tail(air)[i] = air[i + 1] /\ i \in Nat \ {0}
    BY <1>1
<1>3. buf' = [i \in Cells |-> IF i = p THEN "LF" ELSE IF i = p - 1 THEN "NUL" ELSE buf[i]]
    BY DEF EndLine
<1>4. 0 \in Cells /\ Last \in Nat
    BY RadarAssumption DEF Cells
<1>5. buf' \in [Cells -> InBuf]
    BY <1>3 DEF InBuf, OnAir
<1>6. Begins(buf', <<"O", "N">>) => Kept(buf, p)
  <2> SUFFICES ASSUME buf'[0] = "O", buf'[1] = "N" PROVE Kept(buf, p)
      BY DEF Begins
  <2>1. p # 0 /\ p # 1
      BY <1>3, <1>4
  <2>2. p >= 2 /\ 1 \in Cells
      BY <2>1, <1>4 DEF Cells
  <2>3. p # 2 /\ buf[1] = "N"
      BY <1>3, <2>2 DEF Cells
  <2> QED BY <2>2, <2>3 DEF Kept
<1>7. n' = IF Begins(buf', <<"O", "N">>) THEN n + 1 ELSE n
    BY DEF EndLine
<1>8. ToCome(air', p') => ToCome(air, p)
    BY <1>1, <1>2 DEF ToCome
<1>9. ~Kept(buf', p')
    BY <1>1 DEF Kept
<1>10. n' + One(ToCome(air', p')) + One(Kept(buf', p')) <= sentOn'
    BY <1>1, <1>6, <1>7, <1>8, <1>9 DEF Covered, One
<1>11. Wired'
    BY <1>1, <1>2, <1>4, <1>5, <1>7
<1>12. Fresh'
  <2> SUFFICES ASSUME ~misread PROVE /\ \A i \in Cells : buf'[i] # "x"
                                     /\ reading' \in {"0", "fresh"}
      BY <1>1 DEF Fresh
  <2>1. \A i \in Cells : buf'[i] # "x"
      BY <1>1, <1>3 DEF Fresh
  <2>2. reading' = IF Begins(buf', RangeWord) THEN Atoi(buf') ELSE reading
      BY DEF EndLine
  <2> QED BY <1>1, <2>1, <2>2, AtoiIsFresh DEF Fresh
<1> QED BY <1>10, <1>11, <1>12 DEF Covered

LEMMA HearByteKept ==
    ASSUME Wired, Covered, Fresh, HearByte
    PROVE  Wired' /\ Covered' /\ Fresh'
<1> USE DEF Wired
<1>1. /\ air \in Seq(OnAir) /\ air # <<>> /\ air' = Tail(air) /\ pc = "scan" /\ pc' = pc
      /\ p' = IF p = Last THEN 0 ELSE p + 1
      /\ UNCHANGED <<n, reading, sentOn, misread>>
    BY DEF HearByte
<1>2. /\ Tail(air) \in Seq(OnAir)
      /\ \A i \in DOMAIN Tail(air) : i + 1 \in DOMAIN air /\ Tail(air)[i] = air[i + 1] /\ i \in Nat \ {0}
      /\ 1 \in DOMAIN air /\ Head(air) = air[1] /\ air[1] \in OnAir
    BY <1>1
<1>3. buf' = [buf EXCEPT ![p] = air[1]]
    BY <1>2 DEF HearByte
<1>4. 0 \in Cells /\ Last \in Nat /\ p' \in Cells
    BY <1>1, RadarAssumption DEF Cells
<1>5. buf' \in [Cells -> InBuf]
    BY <1>2, <1>3 DEF InBuf
<1>6. Wired'
    BY <1>1, <1>2, <1>4, <1>5
<1>7. ToCome(air', p') => ToCome(air, p)
    BY <1>1, <1>2 DEF ToCome
<1>8. ASSUME Kept(buf', p') PROVE Kept(buf, p) \/ (ToCome(air, p) /\ ~ToCome(air', p') /\ ~Kept(buf, p))
  <2>1. p' >= 2 /\ p' = p + 1 /\ p >= 1 /\ 1 \in Cells
      BY <1>1, <1>4, <1>8 DEF Kept, Cells
  <2>2. CASE p = 1
    <3>1. air[1] = "N"
        BY <1>3, <1>8, <2>1, <2>2 DEF Kept
    <3>2. ToCome(air, p) /\ ~Kept(buf, p)
        BY <1>2, <2>2, <3>1 DEF ToCome, Kept
    <3>3. ~ToCome(air', p')
        BY <1>1, <1>2, <3>1 DEF ToCome
    <3> QED BY <3>2, <3>3
  <2>3. CASE p >= 2
      BY <1>3, <1>8, <2>1, <2>3 DEF Kept
  <2> QED BY <2>1, <2>2, <2>3 DEF Cells
<1>9. Covered'
    BY <1>1, <1>7, <1>8 DEF Covered, One
<1>10. Fresh'
  <2>1. air[1] # "x"
      BY <1>2 DEF OnAir, Letter
  <2> QED BY <1>1, <1>3, <2>1 DEF Fresh
<1> QED BY <1>6, <1>9, <1>10

LEMMA FlushKept ==
    ASSUME Wired, Fresh, Flush
    PROVE  Wired' /\ Covered' /\ Fresh'
<1> USE DEF Wired
<1>1. /\ p' = 0 /\ n' = 0 /\ reading' = "0" /\ sentOn' = 0 /\ pc = "flush" /\ pc' = "scan"
      /\ misread' = misread
      /\ buf' = [i \in Cells |-> IF buf[i] = "d" THEN "x" ELSE buf[i]]
    BY DEF Flush
<1>2. 0 \in Cells
    BY RadarAssumption DEF Cells
<1>3. air' \in Seq(OnAir) /\ \A i \in DOMAIN air' : air'[i] = "N" => i = 1
  <2>1. CASE mode = "command"
      BY <2>1 DEF Flush
  <2>2. CASE mode # "command"
    <3>1. PICK l \in Lines : \E k \in 1 .. Len(l) : air' = SubSeq(l, k + 1, Len(l))
        BY <2>2 DEF Flush
    <3>2. PICK k \in 1 .. Len(l) : air' = SubSeq(l, k + 1, Len(l))
        BY <3>1
    <3>3. l \in Seq(OnAir)
        BY LinesAreSound
    <3>4. air' \in Seq(OnAir) /\ \A i \in DOMAIN air' : /\ i \in Nat \ {0}
                                                       /\ i + k \in DOMAIN l
                                                       /\ air'[i] = l[i + k]
        BY <3>2, <3>3
    <3> QED BY <3>2, <3>3, <3>4, LinesAreSound
  <2> QED BY <2>1, <2>2
<1>4. buf' \in [Cells -> InBuf]
    BY <1>1 DEF InBuf
<1>5. Wired'
    BY <1>1, <1>2, <1>3, <1>4
<1>6. Covered'
    BY <1>1, <1>3 DEF Covered, One, ToCome, Kept
<1>7. Fresh'
    BY <1>1 DEF Fresh
<1> QED BY <1>5, <1>6, <1>7

LEMMA RadarKept ==
    Wired /\ Covered /\ Fresh /\ [RadarNext]_radarVars => (Wired /\ Covered /\ Fresh)'
<1> SUFFICES ASSUME Wired, Covered, Fresh, [RadarNext]_radarVars
             PROVE  Wired' /\ Covered' /\ Fresh'
    OBVIOUS
<1>1. CASE OpenFirst
    BY <1>1 DEF OpenFirst, Wired, Covered, Fresh, scan
<1>2. CASE OpenAgain
    BY <1>2 DEF OpenAgain, Wired, Covered, Fresh, scan
<1>3. CASE Close
    BY <1>3 DEF Close, Wired, Covered, Fresh, scan
<1>4. CASE GetReply
  <2>1. /\ UNCHANGED <<air, p, n, sentOn>> /\ pc' \in {"sweep", "flush"}
        /\ \E cmd \in {"OPEN", "CLOSE"} : ReadReply(cmd)
        /\ pc \in {"opened", "closed"}
      BY <1>4 DEF GetReply, scan
  <2>2. buf' \in [Cells -> InBuf] /\ (~misread' => \A i \in Cells : buf'[i] \notin {"d", "x"})
    <3>1. PICK cmd \in {"OPEN", "CLOSE"} : ReadReply(cmd)
        BY <2>1
    <3>2. CASE buf' = Cleared
        BY <3>2 DEF Cleared, InBuf
    <3>3. CASE buf' = Reply(Cleared)
        BY <3>3 DEF Reply, Cleared, InBuf
    <3>4. CASE buf' = [i \in Cells |-> "x"] /\ misread'
        BY <3>4 DEF InBuf
    <3> QED BY <3>1, <3>2, <3>3, <3>4 DEF ReadReply
  <2> QED BY <2>1, <2>2 DEF Wired, Covered, Fresh
<1>5. CASE Flush
    BY <1>5, FlushKept
<1>6. CASE SendLine
  <2>1. /\ air = <<>> /\ air' \in Lines /\ UNCHANGED <<p, n, buf, pc, reading, misread>>
        /\ sentOn' = IF air' = <<"O", "N", "CR", "LF">> THEN sentOn + 1 ELSE sentOn
      BY <1>6 DEF SendLine
  <2>2. /\ air' \in Seq(OnAir)
        /\ \A i \in DOMAIN air' : air'[i] = "N" => i = 2 /\ air' = <<"O", "N", "CR", "LF">>
      BY <2>1, LinesAreSound
  <2>3. ~ToCome(air, p) /\ (ToCome(air', p') => sentOn' = sentOn + 1)
      BY <2>1, <2>2 DEF ToCome
  <2> QED BY <2>1, <2>2, <2>3 DEF Wired, Covered, Fresh, One
<1>7. CASE LoseByte
  <2>1. /\ air \in Seq(OnAir) /\ air # <<>> /\ air' = Tail(air)
        /\ UNCHANGED <<p, n, buf, pc, reading, misread, sentOn>>
      BY <1>7 DEF LoseByte, Wired
  <2>2. /\ Tail(air) \in Seq(OnAir)
        /\ \A i \in DOMAIN Tail(air) : i + 1 \in DOMAIN air /\ Tail(air)[i] = air[i + 1] /\ i \in Nat \ {0}
      BY <2>1
  <2>3. ToCome(air', p') => ToCome(air, p)
      BY <2>1, <2>2 DEF ToCome
  <2> QED BY <2>1, <2>2, <2>3 DEF Wired, Covered, Fresh, One
<1>8. CASE Silence
    BY <1>8 DEF Silence, OneTryLess, Wired, Covered, Fresh
<1>9. CASE HearByte
    BY <1>9, HearByteKept
<1>10. CASE EndLine
    BY <1>10, EndLineKept
<1>11. CASE Decide
  <2>1. air' = <<>> /\ p' = 0 /\ n' = 0 /\ sentOn' = 0 /\ buf' = buf /\ pc' = "open"
      BY <1>11 DEF Decide
  <2>2. 0 \in Cells
      BY RadarAssumption DEF Cells
  <2> QED BY <2>1, <2>2 DEF Wired, Covered, Fresh
<1>12. CASE UNCHANGED radarVars
    BY <1>12 DEF radarVars, Wired, Covered, Fresh
<1> QED BY <1>1, <1>2, <1>3, <1>4, <1>5, <1>6, <1>7, <1>8, <1>9, <1>10, <1>11, <1>12
        DEF RadarNext, ScanStep

(* Whatever bytes are cut off or lost, the turret counts no movement that  *)
(* was not reported since the flush, and takes no distance from before it, *)
(* unless a reply was misread: for any word, buffer and number of tries.   *)
THEOREM ShotsHaveTargets == RadarSpec => []SightingsAreFresh
<1>1. Wired /\ Covered /\ Fresh => SightingsAreFresh
    BY DEF Wired, Covered, Fresh, One, SightingsAreFresh, Fires
<1> QED BY <1>1, RadarAtFirst, RadarKept, PTL DEF RadarSpec
=============================================================================
