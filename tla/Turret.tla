-------------------------------- MODULE Turret --------------------------------
(***************************************************************************)
(* The automatic turret: the patrol task of main/AutoTurret.cpp and the    *)
(* radar's scan (main/RadarMgr.cpp) that it waits for.  Two tasks control  *)
(* it: the game ADVATTACK (main/EpicBase.cpp) starts it and stops it, and  *)
(* the power monitor (main/PowerMonitor.cpp) stops it before deep sleep.   *)
(* They share two flags and nothing else with the patrol.                  *)
(*                                                                         *)
(* A patrol task that was created may begin late, but before the ten       *)
(* seconds of the next game's announcement are over.                       *)
(***************************************************************************)
EXTENDS Integers, FiniteSets

CONSTANTS
    Tasks,      \* patrol tasks that can exist at a time
    Sweep,      \* horizontal moves of a sweep: 2
    Tries,      \* nTimes of scan: 3
    Burst       \* shots of a burst: 10

ASSUME TurretAssumption ==
    /\ Tasks # {} /\ IsFiniteSet(Tasks)
    /\ Sweep \in Nat /\ Tries \in Nat /\ Burst \in Nat

Controllers == {"game", "sleep"}

VARIABLES
    task,       \* where each patrol task is
    left,       \* moves, reports or shots that the present loop has left
    found,      \* reports of movement in the present scan
    distance,   \* was the last distance reported positive?
    degreeH, degreeV,       \* m_degreeH, m_degreeV
    upH, upV,   \* m_angleIncreaseH, m_angleIncreaseV
    stopFlag,   \* m_bStopFlag
    running,    \* m_bIsRunningState
    servo,      \* the PWM of both servos: who has set it last
    weapon,     \* GPIO_WEAPONPWR_EN
    alert,      \* GPIO_TURRET_ALERT_LED
    ctl         \* where each controller is

flags == <<stopFlag, running>>
aim   == <<degreeH, degreeV, upH, upV>>
radar == <<found, distance>>
vars  == <<task, left, radar, aim, flags, servo, weapon, alert, ctl>>

AtWork == {"aimH", "aimV", "look", "scan", "burst", "lit", "cease"}

RangeH == {10 * k : k \in 3 .. 15}     \* 30 to 150 degrees
RangeV == {2 * k : k \in 43 .. 48}     \* 86 to 96 degrees

(* The servos are never sent further than the turret can turn.             *)
TypeOK ==
    /\ task \in [Tasks -> {"none", "born", "test", "leave"} \cup AtWork]
    /\ left \in 0 .. Sweep + Tries + Burst + 1
    /\ found \in 0 .. Tries + 1 /\ distance \in BOOLEAN
    /\ degreeH \in RangeH /\ degreeV \in RangeV
    /\ upH \in BOOLEAN /\ upV \in BOOLEAN
    /\ stopFlag \in BOOLEAN /\ running \in BOOLEAN
    /\ servo \in {"swing", "parked", "off"}
    /\ weapon \in BOOLEAN /\ alert \in BOOLEAN
    /\ ctl \in [Controllers -> {"out", "announce", "play", "poll", "settle", "wait"}]

(* init() *)
Init ==
    /\ task = [t \in Tasks |-> "none"] /\ left = 0
    /\ found = 0 /\ distance = FALSE
    /\ degreeH = 90 /\ degreeV = 90 /\ upH = FALSE /\ upV = FALSE
    /\ stopFlag = FALSE /\ running = FALSE
    /\ servo = "off" /\ weapon = FALSE /\ alert = FALSE
    /\ ctl = [c \in Controllers |-> "out"]

-----------------------------------------------------------------------------
(* The patrol task. *)
Goto(t, p) == task' = [task EXCEPT ![t] = p]

(* (A fault: the flag is set by nobody.) *)
BeginUnmarked(t) ==
    /\ task[t] = "born"
    /\ degreeH' = 90 /\ degreeV' = 90 /\ upH' = FALSE /\ upV' = FALSE
    /\ weapon' = TRUE
    /\ Goto(t, "test")
    /\ UNCHANGED <<left, radar, flags, servo, alert, ctl>>

Begin(t) ==
    /\ task[t] = "born"
    /\ running' = TRUE
    /\ degreeH' = 90 /\ degreeV' = 90 /\ upH' = FALSE /\ upV' = FALSE
    /\ weapon' = TRUE
    /\ Goto(t, "test")
    /\ UNCHANGED <<left, radar, stopFlag, servo, alert, ctl>>

(* The loop of doPatrol. *)
TestStop(t) ==
    /\ task[t] = "test"
    /\ IF stopFlag
       THEN /\ weapon' = FALSE
            /\ Goto(t, "leave")
            /\ UNCHANGED left
       ELSE /\ left' = Sweep
            /\ Goto(t, "aimH")
            /\ UNCHANGED weapon
    /\ UNCHANGED <<radar, aim, flags, servo, alert, ctl>>

Turns(degree, up, low, high) ==
    IF degree <= low THEN TRUE ELSE IF degree >= high THEN FALSE ELSE up

(* doPatrolH and doPatrolV look at the flag before each move. *)
AimH(t) ==
    /\ task[t] = "aimH"
    /\ IF left > 0 /\ ~stopFlag
       THEN /\ servo' = "swing"
            /\ upH' = Turns(degreeH, upH, 30, 150)
            /\ degreeH' = IF upH' THEN degreeH + 10 ELSE degreeH - 10
            /\ left' = left - 1
            /\ UNCHANGED task
       ELSE /\ Goto(t, "aimV")
            /\ UNCHANGED <<servo, upH, degreeH, left>>
    /\ UNCHANGED <<radar, degreeV, upV, flags, weapon, alert, ctl>>

AimV(t) ==
    /\ task[t] = "aimV"
    /\ IF stopFlag
       THEN UNCHANGED <<servo, upV, degreeV>>
       ELSE /\ servo' = "swing"
            /\ upV' = Turns(degreeV, upV, 86, 96)
            /\ degreeV' = IF upV' THEN degreeV + 2 ELSE degreeV - 2
    /\ Goto(t, "look")
    /\ UNCHANGED <<left, radar, degreeH, upH, flags, weapon, alert, ctl>>

(* enableDetect: the radar is told to report again.  Its answer, if it     *)
(* comes, is ignored; what it has reported before is flushed.              *)
EnableDetect(t) ==
    /\ task[t] = "look"
    /\ left' = Tries
    /\ found' = 0 /\ distance' = FALSE
    /\ Goto(t, "scan")
    /\ UNCHANGED <<aim, flags, servo, weapon, alert, ctl>>
(* scan: a line of the radar, or 200 ms without one, Tries + 1 times.      *)
Reports == {"ON", "OFF", "far", "zero", "nothing"}

Scan(t) ==
    /\ task[t] = "scan"
    /\ \E report \in Reports :
         /\ found' = IF report = "ON" THEN found + 1 ELSE found
         /\ distance' = (report = "far" \/ (distance /\ report # "zero"))
    /\ IF left > 0
       THEN /\ left' = left - 1
            /\ UNCHANGED task
       ELSE IF found' >= 2 /\ distance'
       THEN /\ left' = Burst
            /\ Goto(t, "burst")
       ELSE /\ Goto(t, "test")
            /\ UNCHANGED left
    /\ UNCHANGED <<aim, flags, servo, weapon, alert, ctl>>

(* A shot, and the alert LED with it. *)
Shoot(t) ==
    /\ task[t] = "burst"
    /\ IF left > 0
       THEN /\ alert' = TRUE
            /\ left' = left - 1
            /\ Goto(t, IF stopFlag THEN "cease" ELSE "lit")
       ELSE /\ Goto(t, "cease")
            /\ UNCHANGED <<alert, left>>
    /\ UNCHANGED <<radar, aim, flags, servo, weapon, ctl>>

Pause(t) ==
    /\ task[t] = "lit"
    /\ alert' = FALSE
    /\ Goto(t, IF stopFlag THEN "cease" ELSE "burst")
    /\ UNCHANGED <<left, radar, aim, flags, servo, weapon, ctl>>

Cease(t) ==
    /\ task[t] = "cease"
    /\ alert' = FALSE
    /\ Goto(t, "test")
    /\ UNCHANGED <<left, radar, aim, flags, servo, weapon, ctl>>

(* (A fault: a patrol that was stopped is still marked as running.) *)
LeaveMarked(t) ==
    /\ task[t] = "leave"
    /\ Goto(t, "none")
    /\ UNCHANGED <<left, radar, aim, flags, servo, weapon, alert, ctl>>

Leave(t) ==
    /\ task[t] = "leave"
    /\ running' = FALSE
    /\ Goto(t, "none")
    /\ UNCHANGED <<left, radar, aim, stopFlag, servo, weapon, alert, ctl>>

PatrolStep(t) ==
    \/ Begin(t) \/ TestStop(t) \/ AimH(t) \/ AimV(t) \/ EnableDetect(t) \/ Scan(t)
    \/ Shoot(t) \/ Pause(t) \/ Cease(t) \/ Leave(t)

-----------------------------------------------------------------------------
(* The controllers. *)
CtlGoto(c, p) == ctl' = [ctl EXCEPT ![c] = p]

(* EpicAdvAttack::proc announces the game for ten seconds ...              *)
Announce ==
    /\ ctl["game"] = "out"
    /\ CtlGoto("game", "announce")
    /\ UNCHANGED <<task, left, radar, aim, flags, servo, weapon, alert>>

(* ... and calls start().  (xTaskCreate may fail; its result is ignored.)  *)
Start ==
    /\ ctl["game"] = "announce"
    /\ \A t \in Tasks : task[t] # "born"
    /\ IF running
       THEN UNCHANGED <<task, stopFlag>>
       ELSE /\ stopFlag' = FALSE
            /\ \/ \E t \in Tasks : task[t] = "none" /\ Goto(t, "born")
               \/ UNCHANGED task
    /\ CtlGoto("game", "play")
    /\ UNCHANGED <<left, radar, aim, running, servo, weapon, alert>>

(* stop(): by the game when it ends, by the power monitor at any time.     *)
Stop(c) ==
    /\ ctl[c] = IF c = "game" THEN "play" ELSE "out"
    /\ stopFlag' = TRUE
    /\ CtlGoto(c, "poll")
    /\ UNCHANGED <<task, left, radar, aim, running, servo, weapon, alert>>

(* (A fault: stop() does not wait for the patrol.) *)
ParkAtOnce(c) ==
    /\ ctl[c] = "poll"
    /\ servo' = "parked"
    /\ CtlGoto(c, "settle")
    /\ UNCHANGED <<task, left, radar, aim, flags, weapon, alert>>

Park(c) ==
    /\ ctl[c] = "poll" /\ ~running
    /\ servo' = "parked"
    /\ CtlGoto(c, "settle")
    /\ UNCHANGED <<task, left, radar, aim, flags, weapon, alert>>

(* A second later the servos are released; tryDeepSleep cuts the power of  *)
(* the weapon after that.                                                  *)
Release(c) ==
    /\ ctl[c] = "settle"
    /\ servo' = "off"
    /\ weapon' = (weapon /\ c = "game")
    /\ CtlGoto(c, IF c = "game" THEN "out" ELSE "wait")
    /\ UNCHANGED <<task, left, radar, aim, flags, alert>>

(* Deep sleep ends with a reset. *)
DeepSleep ==
    /\ ctl["sleep"] = "wait"
    /\ task' = [t \in Tasks |-> "none"] /\ left' = 0
    /\ found' = 0 /\ distance' = FALSE
    /\ degreeH' = 90 /\ degreeV' = 90 /\ upH' = FALSE /\ upV' = FALSE
    /\ stopFlag' = FALSE /\ running' = FALSE
    /\ servo' = "off" /\ weapon' = FALSE /\ alert' = FALSE
    /\ ctl' = [c \in Controllers |-> "out"]

Next ==
    \/ \E t \in Tasks : PatrolStep(t)
    \/ Announce \/ Start \/ DeepSleep
    \/ \E c \in Controllers : Stop(c) \/ Park(c) \/ Release(c)

Spec == Init /\ [][Next]_vars

(* Tasks run, games end, and 20 ms polls cannot miss the eleven seconds    *)
(* that lie between two patrols.                                           *)
Fairness ==
    /\ \A t \in Tasks : WF_vars(PatrolStep(t))
    /\ WF_vars(Start) /\ WF_vars(Stop("game"))
    /\ \A c \in Controllers : SF_vars(Park(c)) /\ WF_vars(Release(c))

FairSpec == Spec /\ Fairness

-----------------------------------------------------------------------------
(* No two patrols ever turn the same servos: a patrol that was stopped is  *)
(* over before start() can make another one, although the flag that says   *)
(* so is only set when the task has begun.                                 *)
OnePatrol ==
    \A t, u \in Tasks : t # u =>
        "none" \in {task[t], task[u]}

(* Between two games nothing turns, scans or shoots, the LED is dark, and  *)
(* only a patrol about to leave may have the weapon powered - whatever the *)
(* power monitor does meanwhile.                                           *)
QuietWhenStopped ==
    ctl["game"] \in {"out", "announce"} =>
        /\ \A t \in Tasks : task[t] \notin AtWork
        /\ ~alert /\ servo # "swing"
        /\ weapon => \E t \in Tasks : task[t] = "test"

(* stop() returns, to the game and to the power monitor (unless the device *)
(* is asleep by then).                                                     *)
StopEnds == \A c \in Controllers : ctl[c] = "poll" ~> ctl[c] # "poll"
=============================================================================
