----------------------------- MODULE PowerMonitor -----------------------------
(***************************************************************************)
(* The power monitor: main/PowerMonitor.cpp.  Once a minute its task reads *)
(* the battery, warns, and decides whether to put the device to deep       *)
(* sleep: because the battery is low, or because nobody has shot or spoken *)
(* for five minutes.  Sleep begins ten seconds after the devices have been *)
(* switched off, and no other task is told.                                *)
(*                                                                         *)
(* Time is counted in rounds of one minute; the seconds that a round takes *)
(* beside its delay are left out.                                          *)
(***************************************************************************)
EXTENDS Integers, FiniteSets

CONSTANTS Pin,          \* results of adc_read_voltage, in mV; negative: failed
          IdleLimit,    \* minutes without input before sleep: 5
          WarnEvery,    \* rounds between two warnings: 5
          LowRounds     \* low rounds that are let pass before sleep: 3

ASSUME PowerAssumption ==
    /\ Pin \subseteq Int /\ Pin # {}
    /\ IdleLimit \in Nat \ {0} /\ WarnEvery \in Nat \ {0} /\ LowRounds \in Nat

VARIABLES
    pc,         \* where the task is
    pin,        \* the last reading
    percent,    \* m_nPowerPercentage
    lowCount,   \* nLowPowerCount
    runCount,   \* m_nTimerRunCount, modulo WarnEvery
    forced,     \* bForceSleep of the last tryDeepSleep
    age,        \* minutes since the last input, IdleLimit + 1 for more
    storing,    \* a task is between the two words of m_nLastInputActivityTime
    lowRun,     \* history: low or failed readings in a row, capped
    quietRun    \* history: rounds in a row at 30% or less without a warning, capped

monitorVars == <<pc, pin, percent, lowCount, runCount, forced, age, storing,
                 lowRun, quietRun>>

-----------------------------------------------------------------------------
(* battery_capacity_tables_li *)
CapacityTable == <<
    [capacity |->   0, min |->    0, max |-> 3426],
    [capacity |->   1, min |-> 3427, max |-> 3638],
    [capacity |->  10, min |-> 3639, max |-> 3697],
    [capacity |->  20, min |-> 3698, max |-> 3729],
    [capacity |->  30, min |-> 3730, max |-> 3748],
    [capacity |->  40, min |-> 3749, max |-> 3776],
    [capacity |->  50, min |-> 3777, max |-> 3827],
    [capacity |->  60, min |-> 3828, max |-> 3895],
    [capacity |->  70, min |-> 3896, max |-> 3954],
    [capacity |->  80, min |-> 3955, max |-> 4050],
    [capacity |->  90, min |-> 4051, max |-> 4119],
    [capacity |-> 100, min |-> 4120, max |-> 4240]>>

(* The rows that find_item_by_voltage looks at. *)
RowsSearched == 1 .. 11

FindItemByVoltage(mv) ==
    LET rows == {i \in RowsSearched : CapacityTable[i].min <= mv /\ mv <= CapacityTable[i].max}
    IN  IF rows = {} THEN -1
        ELSE CapacityTable[CHOOSE i \in rows : \A j \in rows : i <= j].capacity

(* read_battery_voltage: a divider by two, and the offset of the ADC. *)
Battery(p) == (p - 30) * 2

GetPowerPercentage(p) ==
    IF p < 0 \/ Battery(p) < 0 THEN -1 ELSE FindItemByVoltage(Battery(p))

Percents == {-1} \cup {CapacityTable[i].capacity : i \in RowsSearched}

TypeOK ==
    /\ pc \in {"check", "try", "sleep", "dark", "asleep", "wait"}
    /\ pin \in Pin /\ percent \in Percents
    /\ lowCount \in 0 .. LowRounds
    /\ runCount \in 0 .. WarnEvery - 1
    /\ forced \in BOOLEAN
    /\ age \in 0 .. IdleLimit + 1 /\ storing \in BOOLEAN
    /\ lowRun \in 0 .. LowRounds + 1 /\ quietRun \in 0 .. WarnEvery

(* start() has just stored the time and created the task. *)
MonitorInit ==
    /\ pc = "check"
    /\ pin \in Pin /\ percent = 0       \* nothing read yet
    /\ lowCount = 0 /\ runCount = 0 /\ forced = FALSE
    /\ age = 0 /\ storing = FALSE
    /\ lowRun = 0 /\ quietRun = 0

-----------------------------------------------------------------------------
Capped(n, cap) == IF n > cap THEN cap ELSE n

Low(percentage)   == percentage <= 10
(* (A fault: exactly 30% is not low.) *)
WarnsBelow(percentage) == percentage < 30 /\ runCount % WarnEvery = 0

Warns(percentage) == percentage <= 30 /\ runCount % WarnEvery = 0

(* nLowPowerCount after a reading.  (A fault: it is never reset.) *)
NextLowCountNoReset(pct) == IF ~Low(pct) THEN lowCount ELSE Capped(lowCount + 1, LowRounds)

NextLowCount(pct) == IF ~Low(pct) THEN 0 ELSE Capped(lowCount + 1, LowRounds)

(* A round of vTimerCallback, up to its decision on the battery. *)
CheckBattery ==
    /\ pc = "check"
    /\ \E p \in Pin :
         LET pct == GetPowerPercentage(p)
         IN  /\ pin' = p
             /\ percent' = pct
             /\ forced' = (Low(pct) /\ lowCount >= LowRounds)
             /\ lowCount' = NextLowCount(pct)
             /\ lowRun' = IF ~Low(pct) THEN 0 ELSE Capped(lowRun + 1, LowRounds + 1)
             /\ quietRun' = IF pct <= 30 /\ ~Warns(pct)
                            THEN Capped(quietRun + 1, WarnEvery) ELSE 0
    /\ pc' = IF forced' THEN "sleep" ELSE "try"
    /\ runCount' = IF forced' THEN runCount ELSE (runCount + 1) % WarnEvery
    /\ UNCHANGED <<age, storing>>

(* tryDeepSleep(false).  A 64-bit time that another task is storing is     *)
(* read in two halves: the difference can come out as anything.            *)
IdleTooLong == age >= IdleLimit

(* (A fault: the announcement counts as an input.) *)
DecideSleepTouches ==
    /\ pc = "try"
    /\ \/ (IdleTooLong \/ storing) /\ pc' = "sleep"
       \/ (~IdleTooLong \/ storing) /\ pc' = "wait"
    /\ age' = 0
    /\ UNCHANGED <<pin, percent, lowCount, runCount, forced, storing, lowRun, quietRun>>

DecideSleep ==
    /\ pc = "try"
    /\ \/ (IdleTooLong \/ storing) /\ pc' = "sleep"
       \/ (~IdleTooLong \/ storing) /\ pc' = "wait"
    /\ UNCHANGED <<pin, percent, lowCount, runCount, forced, age, storing, lowRun, quietRun>>

(* The rest of tryDeepSleep: announce, stop the turret, and switch off     *)
(* (device by device in PowerCycle).                                      *)
SwitchOff ==
    /\ pc = "sleep"
    /\ pc' = "dark"
    /\ UNCHANGED <<pin, percent, lowCount, runCount, forced, age, storing, lowRun, quietRun>>

(* Ten seconds later. *)
FallAsleep ==
    /\ pc = "dark"
    /\ pc' = "asleep"
    /\ UNCHANGED <<pin, percent, lowCount, runCount, forced, age, storing, lowRun, quietRun>>

Minute ==
    /\ pc = "wait"
    /\ pc' = "check"
    /\ age' = Capped(age + 1, IdleLimit + 1)
    /\ UNCHANGED <<pin, percent, lowCount, runCount, forced, storing, lowRun, quietRun>>

-----------------------------------------------------------------------------
(* Other tasks.  A shot or a spoken command stores the time.               *)
StoreHalf ==
    /\ pc # "asleep" /\ ~storing
    /\ storing' = TRUE
    /\ UNCHANGED <<pc, pin, percent, lowCount, runCount, forced, age,
                   lowRun, quietRun>>

StoreRest ==
    /\ pc # "asleep" /\ storing
    /\ storing' = FALSE /\ age' = 0
    /\ UNCHANGED <<pc, pin, percent, lowCount, runCount, forced,
                   lowRun, quietRun>>

Monitor == CheckBattery \/ DecideSleep \/ SwitchOff \/ FallAsleep \/ Minute

MonitorNext == Monitor \/ StoreHalf \/ StoreRest

(* The task has the lowest priority of the application, but every other    *)
(* task blocks on a queue or a delay, so it does run.                      *)
MonitorFairness == WF_monitorVars(Monitor) /\ WF_monitorVars(StoreRest)

MonitorSpec     == MonitorInit /\ [][MonitorNext]_monitorVars
MonitorFairSpec == MonitorSpec /\ MonitorFairness

-----------------------------------------------------------------------------
(* Sleep is forced by low readings only when more than LowRounds of them   *)
(* came in a row: a weak moment of the battery does not end a game.        *)
ForcedSleepIsEarned == pc = "sleep" /\ forced => lowRun > LowRounds

(* "warning every 5min": while the battery is at 30% or less, one of any   *)
(* five rounds in a row warns.                                             *)
LowBatteryIsTold == quietRun < WarnEvery

(* A device left alone goes to sleep. *)
LeftAloneItSleeps == []<>storing \/ <>(pc = "asleep")

(* "power is too low. sleep immediately": sleep is forced when the battery *)
(* is at 10% or less, or cannot be read.                                   *)
ForcedOnlyWhenLow ==
    pc = "sleep" /\ forced /\ pin >= 0 => Battery(pin) <= CapacityTable[3].max

=============================================================================
