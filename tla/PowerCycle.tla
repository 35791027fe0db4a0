------------------------------ MODULE PowerCycle ------------------------------
(***************************************************************************)
(* From power on to deep sleep: app_main (main/app_main.cpp) makes the     *)
(* parts one after another, and some of them have a task that may call a   *)
(* part not yet made; tryDeepSleep (main/PowerMonitor.cpp) switches off    *)
(* one device after another while every task goes on using them, and cuts  *)
(* the processor's power ten seconds later.                                *)
(*                                                                         *)
(* A part is made when its queue exists.  A send to a queue that does not  *)
(* exist fails an assertion of FreeRTOS: the processor restarts.           *)
(*                                                                         *)
(* Bound: from one power on to the next the tasks use one group of devices *)
(* (Groups); the groups share nothing but the monitor.                     *)
(***************************************************************************)
EXTENDS TargetServo, SegWire, RmtChannel

CONSTANTS SpeechQueue   \* phrases the player's queue takes: 2

ASSUME CycleAssumption == SpeechQueue \in Nat \ {0}

Groups == {"servo", "display", "sound", "lights"}

VARIABLES
    boot,       \* how many of BootOrder have been made
    early,      \* history: whose call to a part not yet made ended the last boot
    monitor,    \* where tryDeepSleep is
    group,      \* the devices used since power on
    phrases,    \* phrases queued for the player
    speaking,   \* the player plays one
    mic,        \* the recogniser: "on", "off", "asleep"
    blinking,   \* where the LED task is, at a blink or another command
    patrol,     \* the turret's task is at work
    pauses,     \* the 120 ms pauses that are left after a shot of its burst
    weapon,     \* GPIO_WEAPONPWR_EN
    used        \* history: devices used since their switch-off, or during it

sound  == <<phrases, speaking, mic>>
lights == <<rmtVars, blinking, patrol, pauses, weapon>>
vars   == <<servoVars, wireVars, sound, lights, boot, early, monitor, group, used>>

(* (A fault: the monitor is started before the player.) *)
MonitorFirst == <<"ble", "monitor", "sound", "receiver", "strip", "servo", "display",
                  "radar", "turret", "voice", "manager">>

(* app_main *)
BootOrder == <<"ble", "sound", "monitor", "receiver", "strip", "servo", "display",
               "radar", "turret", "voice", "manager">>

Booted  == boot = Len(BootOrder)
Made(d) == \E i \in 1 .. boot : BootOrder[i] = d

(* Whom each task may call while the boot is still going on: a shot's      *)
(* verdict and a hit come by Bluetooth; the player mutes the recogniser;   *)
(* the monitor warns in its first round, and puts the device to sleep      *)
(* minutes later.  The game's task is the manager's child.                 *)
Calls == [ble |-> {"sound", "manager"},
          sound |-> {"voice"},
          monitor |-> {"sound"},
          voice |-> {"sound", "manager", "display"}]

(* Parts called through a queue; the recogniser is called through its UART,*)
(* and looks for itself whether that has been set up: m_bUartInit.         *)
Queued == {"sound", "display", "manager"}

SoundStarts(ph, sp, mc)      == ph = 0 /\ sp = FALSE /\ mc = "on"
LightsStart(bl, pt, pa, wp)  == bl = "no" /\ pt = FALSE /\ pa = 0 /\ wp = FALSE
CycleStarts(bt, mn, gr, us)  == bt = 0 /\ mn = "watch" /\ gr \in Groups /\ us = {}

Init ==
    /\ ServoInit /\ WireInit /\ RmtInit
    /\ SoundStarts(phrases, speaking, mic)
    /\ LightsStart(blinking, patrol, pauses, weapon)
    /\ CycleStarts(boot, monitor, group, used)
    /\ early = "nobody"

(* Everything but the history begins again. *)
Restart ==
    /\ ServoReset /\ WireReset /\ RmtReset
    /\ SoundStarts(phrases', speaking', mic')
    /\ LightsStart(blinking', patrol', pauses', weapon')
    /\ CycleStarts(boot', monitor', group', used')

-----------------------------------------------------------------------------
(* Boot.  The welcome is queued as soon as there is a player.              *)
BootStep ==
    /\ ~Booted
    /\ boot' = boot + 1
    /\ phrases' = IF BootOrder[boot'] = "sound" THEN 1 ELSE phrases
    /\ early' = "nobody"
    /\ UNCHANGED <<servoVars, wireVars, lights, speaking, mic, monitor, group, used>>

EarlyCall(t, d) ==
    /\ Made(t) /\ d \in Calls[t] \cap Queued /\ ~Made(d)
    /\ early' = t
    /\ Restart

-----------------------------------------------------------------------------
(* What the tasks do with the devices.                                     *)
Use(d) == used' = used \cup {d}

UseServo ==
    /\ Booted /\ group = "servo"
    /\ ServoUse \/ ServoTick
    /\ IF power' THEN Use("servo") ELSE UNCHANGED used
    /\ UNCHANGED <<wireVars, sound, lights>>

(* The display's task: the number 99 at boot, scores, blinks of a number.  *)
UseDisplay ==
    /\ Made("display") /\ group = "display"
    /\ \/ AirEnds /\ UNCHANGED used
       \/ Writing("task") /\ UNCHANGED used
       \/ \E n \in Number \cup {Digits0} : BeginWrite("task", n) /\ Use("display")
    /\ UNCHANGED <<servoVars, sound, lights>>

(* A phrase: the player mutes the recogniser, speaks, and lets it listen   *)
(* again; nothing is sent before the recogniser's UART is set up.  What a  *)
(* recogniser that sleeps does with either command is not known.           *)
Tell(m) == mic' \in IF ~Made("voice") THEN {mic}
                    ELSE IF mic = "asleep" THEN {"asleep", m} ELSE {m}

Say ==
    /\ Made("sound") /\ phrases < SpeechQueue
    /\ phrases' = phrases + 1
    /\ Use("mic")
    /\ UNCHANGED <<speaking, mic>>

BeginPhrase ==
    /\ ~speaking /\ phrases > 0
    /\ speaking' = TRUE /\ phrases' = phrases - 1
    /\ Tell("off")
    /\ UNCHANGED used

EndPhrase ==
    /\ speaking
    /\ speaking' = FALSE
    /\ Tell("on")
    /\ UNCHANGED <<phrases, used>>

UseSound ==
    /\ group = "sound"
    /\ Say \/ BeginPhrase \/ EndPhrase
    /\ UNCHANGED <<servoVars, wireVars, lights>>

(* LEDs that blink, or stay: new pixels, and update().                     *)
Led(b1, b2) == blinking = b1 /\ blinking' = b2

Blinks ==
    /\ \/ Led("no", "write") /\ Use("strip") /\ UNCHANGED rmtVars
       \/ Led("write", "send") /\ lit' \in BOOLEAN /\ UNCHANGED <<chan, shown, used>>
       \/ Led("send", "wait") /\ RmtTransmit("strip") /\ UNCHANGED <<lit, shown, used>>
       \/ /\ Led("wait", "write") \/ Led("wait", "no")
          /\ AllDone("strip")
          /\ UNCHANGED <<rmtVars, used>>
    /\ UNCHANGED <<patrol, pauses, weapon>>

(* A patrol has the weapon's power on.  It does not begin within a second  *)
(* of the last one's end.                                                  *)
BeginPatrol ==
    /\ ~patrol /\ AllDone("ir")
    /\ patrol' = TRUE /\ weapon' = TRUE
    /\ Use("weapon")
    /\ UNCHANGED <<rmtVars, pauses>>

(* Ten shots: an infrared frame, 120 ms with the alert LED, 120 without.   *)
Shot ==
    /\ patrol /\ pauses = 0
    /\ RmtTransmit("ir")
    /\ pauses' = 2
    /\ UNCHANGED <<lit, shown, patrol, weapon, used>>

(* A frame, of 16 short and 16 long bits whatever its address and command, *)
(* takes 101 ms.                                                           *)
PauseEnds ==
    /\ pauses > 0 /\ AllDone("ir")
    /\ pauses' = pauses - 1
    /\ UNCHANGED <<rmtVars, patrol, weapon, used>>

(* m_bStopFlag ends a burst in any of its pauses. *)
EndPatrol ==
    /\ patrol
    /\ patrol' = FALSE /\ weapon' = FALSE /\ pauses' = 0
    /\ UNCHANGED <<rmtVars, used>>

Patrols == (BeginPatrol \/ Shot \/ PauseEnds \/ EndPatrol) /\ UNCHANGED blinking

UseLights ==
    /\ Booted /\ group = "lights"
    /\ \/ Blinks
       \/ Patrols
       \/ RmtStep /\ UNCHANGED <<blinking, patrol, pauses, weapon, used>>
    /\ UNCHANGED <<servoVars, wireVars, sound>>

Tasks ==
    /\ monitor # "asleep"
    /\ UseServo \/ UseDisplay \/ UseSound \/ UseLights
    /\ UNCHANGED <<boot, early, monitor, group>>

-----------------------------------------------------------------------------
(* tryDeepSleep, once a round has decided for it (PowerMonitor): not before*)
(* the fourth minute, when the boot is over.                               *)
At(m, n) == monitor = m /\ monitor' = n

(* A device switched off counts as used only if somebody is still at it.   *)
OffUnless(d, inUse) == used' = (used \ {d}) \cup (IF inUse THEN {d} ELSE {})

Announce ==
    /\ Booted /\ At("watch", "turret")
    /\ phrases' = IF phrases < SpeechQueue THEN phrases + 1 ELSE phrases
    /\ UNCHANGED <<servoVars, wireVars, speaking, mic, lights, used>>

StopTurret ==
    /\ At("turret", "mic") /\ ~patrol
    /\ UNCHANGED <<servoVars, wireVars, sound, lights, used>>

SleepMic ==
    /\ At("mic", "display")
    /\ mic' = "asleep"
    /\ OffUnless("mic", speaking \/ phrases > 0)
    /\ UNCHANGED <<servoVars, wireVars, phrases, speaking, lights>>

ClearDisplay ==
    \/ /\ At("display", "clearing")
       /\ BeginWrite("monitor", Digits0)
       /\ OffUnless("display", AtWork("task"))
       /\ UNCHANGED <<servoVars, sound, lights>>
    \/ /\ At("clearing", "clearing")
       /\ Writing("monitor") \/ AirEnds
       /\ UNCHANGED <<servoVars, sound, lights, used>>
    \/ /\ At("clearing", "strip") /\ ~AtWork("monitor")
       /\ UNCHANGED <<servoVars, wireVars, sound, lights, used>>

(* (A fault: the pixels are cleared and not sent.) *)
ClearUnsent ==
    /\ \/ /\ At("strip", "unsent")
          /\ lit' = FALSE
          /\ OffUnless("strip", blinking # "no")
          /\ UNCHANGED <<chan, shown>>
       \/ At("unsent", "servo") /\ UNCHANGED <<rmtVars, used>>
    /\ UNCHANGED <<servoVars, wireVars, sound, blinking, patrol, pauses, weapon>>

ClearStrip ==
    /\ \/ /\ At("strip", "unsent")
          /\ lit' = FALSE
          /\ OffUnless("strip", blinking # "no")
          /\ UNCHANGED <<chan, shown>>
       \/ At("unsent", "sent") /\ RmtTransmit("strip") /\ UNCHANGED <<lit, shown, used>>
       \/ At("sent", "sent") /\ group # "lights" /\ RmtStep /\ UNCHANGED used
       \/ At("sent", "servo") /\ AllDone("strip") /\ UNCHANGED <<rmtVars, used>>
    /\ UNCHANGED <<servoVars, wireVars, sound, blinking, patrol, pauses, weapon>>

CutServo ==
    /\ At("servo", "weapon")
    /\ PowerOffTgtServo
    /\ OffUnless("servo", FALSE)
    /\ UNCHANGED <<wireVars, sound, lights>>

CutWeapon ==
    /\ At("weapon", "dark")
    /\ weapon' = FALSE
    /\ OffUnless("weapon", FALSE)
    /\ UNCHANGED <<servoVars, wireVars, sound, rmtVars, blinking, patrol, pauses>>

(* Ten seconds later. *)
DeepSleep ==
    /\ At("dark", "asleep")
    /\ UNCHANGED <<servoVars, wireVars, sound, lights, used>>

TryDeepSleep ==
    /\ \/ Announce \/ StopTurret \/ SleepMic \/ ClearDisplay \/ ClearStrip
       \/ CutServo \/ CutWeapon \/ DeepSleep
    /\ UNCHANGED <<boot, early, group>>

(* The reset button: no source of wake-up is set. *)
PowerOn == monitor = "asleep" /\ Restart /\ UNCHANGED early

Next ==
    \/ BootStep
    \/ \E t \in DOMAIN Calls : \E d \in Calls[t] : EarlyCall(t, d)
    \/ Tasks
    \/ TryDeepSleep
    \/ PowerOn

Spec == Init /\ [][Next]_vars

(* Nothing keeps the main task from the next part for ever: the tasks it   *)
(* has made wait for something most of the time.                           *)
FairSpec == Spec /\ WF_vars(BootStep)

-----------------------------------------------------------------------------
(* The boot ends, unless messages or commands from outside keep coming     *)
(* early: a weapon's shot or hit before there is a player or a manager, or *)
(* a game asked for by voice before there is a manager.  No call that the  *)
(* device makes of its own accord, such as the warning of a low battery    *)
(* that the monitor gives at every power on, makes it restart for ever.    *)
BootEnds == []<>(Booted \/ early \in {"ble", "voice"})

(* "turn off segment display", "turn off LED Strip", "turn off target      *)
(* servo", "make ASR MCU sleep": at deep sleep, a device is on only if a   *)
(* task was at it while it was switched off or took it up in the seconds   *)
(* after that.  For the recogniser it is enough that a phrase was not yet  *)
(* over, as that of tryDeepSleep itself.                                   *)
OnAtSleep ==
    UNION { IF mic # "asleep" THEN {"mic"} ELSE {},
            IF digits # Digits0 THEN {"display"} ELSE {},
            IF shown # {FALSE} THEN {"strip"} ELSE {},
            IF power THEN {"servo"} ELSE {},
            IF weapon THEN {"weapon"} ELSE {} }

SleepsDark == monitor = "asleep" => OnAtSleep \subseteq used
=============================================================================
