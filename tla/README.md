# LaserTarget: specification, model checking, proofs

This directory models the firmware of a laser-shooting target (ESP32, FreeRTOS,
NimBLE; C++ in `src/main`, C in `src/components`) in TLA+. TLC checks the models
on small instances; TLAPS proves part of the properties for every value of the
constants. Every definition is translated from the source; `PROJECT.json`
(`map`) names the file and lines behind each of them.

Contents: [the system](#1-the-system) - [hard behaviours](#2-what-is-hard-here) -
[modules](#3-modules-and-the-code) - [runs](#4-the-runs) -
[fairness](#5-fairness) - [proofs](#6-proofs) -
[what the code does that a reader may not expect](#7-observations) -
[limits](#8-what-is-not-modelled) - [plan](#9-plan).

To repeat a run: `tlc -config X.cfg M`; to repeat a proof: `tlapm MProofs.tla`.

## 1. The system

A box with a laser receiver, a target on a servo, eight LEDs, a two-digit
display, a loudspeaker, a speech recogniser on a UART, a radar on another UART,
a turret with a weapon on two servos, and a Bluetooth link to up to three
"weapons". A player asks for a game by voice; the game runs in a task of its own.
A library beside it, `smart_utilities`, brings a node onto a Wi-Fi network,
finds a server to log to and a master to obey, and updates the program; it is
linked, and nothing in the repository calls it yet.

| Component | State | Operations | Talks to |
|---|---|---|---|
| **boot** (`app_main.cpp`) | how far it is | makes the parts one after another | every part; some have a task that runs at once |
| **EpicMgr** (`EpicMgr.cpp`), the main task | command queue (2), `m_curEpic`, hit count (16 bit) | `run`, `sendCmd`, `switchEpic`, `informHitTarget` | starts, stops and deletes games through two flags shared without a lock |
| **EpicBase** and six games (`EpicBase.cpp`) | `m_bIsRunning`, `m_bStopFlag`; per game counters, clocks, slots; two records in NVS | `start`, `stop`, `proc` of each game, `makeRandomCase`, `checkHistoryRecord` | receiver, sounds, LEDs, display, servo, turret |
| **LaserReceiver_IS0803** | queue (2), time of the last trigger | interrupt handler, `getCmd`, `resetQueue` | filled by interrupt, emptied by the game |
| **LedStrip**, `led_strip_encoder.c` | queue (2), `m_bStopFlag`, `m_bIsRunning`, pixels; the encoder's part of a frame | `proc`, `sendCmd`, `stop`, blinks, half/one more, `update` | commanded by the game; cleared by the power monitor from its own task |
| **SegDisplay**, `rmt_uart.c` | queue (2), digits; one array of symbols with one index | `displayNum`, `blinkNum`, `proc`, `clear`; conversion and transmission | games and voice task send; the power monitor clears |
| **TargetServo** | time of the last move, power pin | `setUp`, `setDown`, `stop`, `powerOffTgtServo` | games, the tail of the game before; power monitor |
| **SoundPlayer** | queue (2), present file | `play` with three priorities, `proc`, `stop`, spoken numbers | every task speaks; mutes the recogniser while it does |
| **ASRCOmmandProc** (voice control) | UART parser, 3-byte command | `uart_cmd_task`, `runCmd`, `processASRCmd`, `sendCmd` | switches games, speaks, asks the battery, sets aiming help |
| **PowerMonitor** | low count, round count, time of last input | one round a minute; `tryDeepSleep`; `inputActivity` | reads the ADC; switches off every other device |
| **AutoTurret**, `IRMTransceiver`, `IRMNECEncoder` | stop flag, running flag, two angles and directions; the frame of a shot | `start`, `stop`, `doPatrol`, sweeps, burst, `send` | started by ADVATTACK, stopped by it and by the power monitor; waits for the radar |
| **RadarMgr** | `cmd_recv`, for replies and lines alike | `enableDetect`, `disableDetect`, `sendCmdPacket`, `scan` | called by the patrol task; the radar reports on its own |
| **BLEMgr** | table of three devices with uids; command queue (5) | `createDevNode`, `delDevNode`, `recvData`, `pingAll`, `setAimHelp`, `proc` | host task fills and clears the table; two other tasks walk over it |
| **ble_net** | scan, connections, `attribute_handle` | GAP events, discovery results, `ble_send_data` | NimBLE host (external) |
| **peer.c** (NimBLE utility, changed) | peers, services, characteristics, descriptors in lists and pools | `peer_add`, `peer_disc_all`, the callbacks, `peer_delete` | host task only |
| **wifi_smartconfig.c**, `nvs_db.c` | credentials in flash and in memory, an event group | `wifi_init`, the event handler, the SmartConfig task, `save_wifi_cred` | three tasks meet in one event group; driver, phone, access point |
| **config_discovery.c, log_client.c** | URL of a server in flash, address and port of the master, sockets | `udp_listen_task`, `udp_send_cmd_to_master`, `log_client_init` | datagrams that anybody sends; a task that listens beside one that sends |
| **ota_updater.cpp, http_cmd.cpp** | two partitions, the one to boot | `ota_check_and_update` | a web server; restarts the node |

What is left (earlier laser receivers, board templates, Python experiments,
audio files) is listed with its reason in `PROJECT.json`, `components`.

### What makes each component correct

* **Games and their manager**: one game on stage at a time; `stop()` is told the
  truth; no game touches the object of another one; a switch ends in the game
  that was asked for, and an ended game is freed.
* **Counting**: a shot counts for the game, and the case, in which it was fired;
  a record is possible; the score that is read is the score.
* **Devices**: after `stop()` the LED strip, or the turret, is quiet; `stop()`
  returns; a move of the target is not cut short; the display comes to rest on
  the score, and its chip gets whole frames, as the LEDs and the turret's
  infrared diode do.
* **Radar**: a reply is taken for the reply to its own command; the turret fires
  only at what was reported in this round.
* **Voice**: the device does not hear itself, does not stay deaf, and runs what
  was said, once and in order, although bytes may be lost.
* **Power, from on to off**: the boot ends, early messages aside; sleep is earned by
  the battery or by idleness, a warning is given, a forgotten device does sleep,
  and then everything nobody was using is off.
* **Bluetooth**: device table, links, peers, memory pools and attribute handles
  agree after any order of events; the search for weapons goes on; a message
  with a uid goes to that uid's owner.
* **Network**: flash holds what the present link was made with; the initialisations come to an end; a
  command goes to the master; an update restarts into a whole and newer program,
  whenever the power fails.

## 2. What is hard here

The full list, at the lines where it bites, is `PROJECT.json`, `hazards`. In short:

* **flags without locks**: `m_bIsRunning`/`m_bStopFlag` exist three times (games,
  LED strip, turret), each with a different protocol and a different race;
* **a task that outlives its object**: the manager deletes a game as soon as it
  sees `m_bIsRunning == false`, the game still has its tail to run;
* **queues of two** with sends that give up: LEDs, display, sounds, laser shots;
* **one counter incremented between its two uses** (RANDOMSHOOT), random times
  that must leave room for a window;
* **one buffer for two**: digits and symbols of the display written by two tasks,
  replies and lines of the radar in `cmd_recv`, and an RMT driver that copies no
  data and reads it when the channel is free;
* **order of the boot**: tasks run before the parts that they call exist;
* **sleep while everything else goes on**: ten seconds pass between switching off
  and deep sleep, and no task is stopped;
* **callbacks in any order**: connections, discoveries and disconnects of several
  devices, with one table, shared pools, and walkers in two other tasks; any call
  may be refused;
* **flash written in two steps**, each of which may fail or be the last before
  the power does; sockets that are opened and never closed;
* **one event bit that two tasks wait for**, and each clears;
* **boundaries**: a table searched one row short, a 64-bit time read in halves,
  `-1` for "failed" compared with "less or equal 10 %", a part of a frame that
  fills the driver's memory to the last symbol.

## 3. Modules and the code

| Module | Models | State / actions |
|---|---|---|
| `EpicSession` | abstract: what the manager promises | requests, for games or anything else (`Other`), in their order; selected game, on stage or not |
| `EpicMgr` | `EpicMgr.cpp`, the life cycle in `EpicBase.cpp` | heap of game objects, one record per task; one action per handler of `run`, per step of a game's head, loop and tail |
| `RandomShoot` | `EpicRandomShoot::proc`, `makeRandomCase` | `tmCount` as (case, tick); `Round` is `makeRandomCase`; `Shot` the judging |
| `SegDisplay`, `ScoreDisplay` | `SegDisplay.cpp`; RANDOMSHOOT and the voice task as its senders | queue, present blink, digits |
| `ShotGames` | the other five games, the laser receiver, the records in NVS | ticks of half a second (the dead time); interrupt, waits, counters |
| `AllGames` | composes the two above: a session plays one or the other | |
| `LedStrip` | `LedStrip.cpp` | LED task step by step around its two flags; LEDs lit or dark |
| `PowerMonitor` | `PowerMonitor.cpp` | rounds of a minute; battery table as in the source |
| `TargetServo` | `TargetServo.cpp` | moves and the wait of `stop()` by two tasks, power as time passes |
| `SegWire` | `_displayNum` and `clear` on `rmt_uart.c` | two writers, one buffer, one array, one index; the channel's queue |
| `RmtChannel` | `led_strip_encoder.c`, `IRMNECEncoder.c`, `update`, `send` | the encoders' parts and positions, the driver's memory |
| `PowerCycle` | `app_main.cpp`, `tryDeepSleep`; composes the three above | boot order, users of the devices, one device after another off, deep sleep, power on |
| `Turret` | `AutoTurret.cpp`, its two controllers | patrol task loop by loop, two flags, angles, weapon, LED |
| `Radar` | `RadarMgr.cpp` as a patrol uses it | bytes in the UART, bytes of lines in the air, `cmd_recv`, `scan` |
| `SoundPlayer`, `VoiceControl` | `SoundPlayer.cpp`; `ASRCommandProc.cpp` | queue, `play()` in its steps; bytes on the wire, the parser |
| `PeerDiscovery` | `peer.c` lists, as operators | insert, find, end handles, what is yet undiscovered |
| `BleNet` | `ble_net.c`, the table of `BLEMgr.cpp`, the callbacks of `peer.c` | link, table, peers, pools, outstanding procedure per handle |
| `BleMgr` | the rest of `BLEMgr.cpp` | command queue, two walkers that read a slot in separate steps |
| `NodeRole` | `g_is_master` | one variable, shared by the next two |
| `WifiSetup` | `wifi_smartconfig.c`, credentials of `nvs_db.c` | main, SmartConfig and event task, event group, flash string by string |
| `LocalServer` | `config_discovery.c`, `log_client.c`, URL of `nvs_db.c` | listening, sending and logging task; sockets |
| `OtaUpdate` | `ota_updater.cpp`, requests of `http_cmd.cpp` | two partitions, part by part |
| `NetworkNode` | composes the three above; the power may fail in any step | `job` |
| `MC*` | instances for TLC | |
| `*Proofs` | theorems, by component: `EpicMgrProofs`, `AllGamesProofs`, `LedStripProofs`, `TurretProofs` (with the radar), `SoundPlayerProofs` (with voice control), `PowerProofs` (monitor, boot and sleep, servo, wires), `BleProofs`, `NetworkProofs` | |

Composition: `EpicMgr` refines `EpicSession` (`INSTANCE ... WITH`);
`ScoreDisplay` composes `RandomShoot` with `SegDisplay`; `PowerCycle` composes
servo, display wire and RMT channels with boot and power monitor; `VoiceControl`
composes the UART with `SoundPlayer`; `BleMgr` composes the manager with
`BleNet`, which uses `PeerDiscovery`; `NetworkNode` composes the network parts
with the loss of power.

Across modules, the assumption of one is a property of another: `LedStrip`,
`ShotGames`, `Turret` and `AllGames` have a single game as client because of
`EpicMgr!OneGameAtATime`; `TargetServo` has a second user, the tail of the game
before, because of `ServoCutOnlyByDoubleShot`: that tail raises the target
(`EpicBase.cpp:226`) and releases it (`:227`), and may do so at any moment of the
next game; `PowerCycle` sends the device to
sleep whenever it likes, `PowerMonitor` says when; `Turret` takes the verdict of
a scan as it comes, `Radar` says what it is worth.

Operators commented as *a fault* (`BlinkEndsDark`, `MonitorFirst`, ...) are
never part of a specification. Each is a plausible bug of the definition after
it; put in its place it makes TLC refute a property (`PROJECT.json`, `mutants`),
which shows that the property depends on the code.

### Abstractions worth knowing

* **EpicMgr** A store through a stale handle is lost when the memory is free and
  hits the new object when the address was given out again (`Store`). The tails
  of the six games differ and are kept apart (`FirstOfTail`, `NextOfTail`). The
  order of the two last stores is the source's; a compiler that merges or swaps
  them gives fewer interleavings, because nobody reads `m_bStopFlag` before
  `m_bIsRunning` is false.
* **RandomShoot** The counter is only ever divided by 60 or reduced modulo 60, so
  it is kept as quotient and remainder. `caseSlot[10]`, past the end of the
  array, is a byte that may hold anything: a store there is kept in `stray`.
* **ShotGames** A tick is half a second. Waits of 200 ms are rounded up to one
  tick; computing time and time blocked on a full sound queue are left out.
  Opening, reading, storing or committing a record may fail; a failed commit may
  leave the new value or the old one.
* **ScoreDisplay** While the game waits 100 ms for a shot the display shows what
  it has got (20 ms), unless a blink, which takes three seconds, keeps it busy;
  this is the guard `Prompt`.
* **PowerMonitor** A round is a minute. The 64-bit time of the last input is
  stored in two halves by another task; a read between them may give any
  difference.
* **TargetServo** A tick is half a second, a move two; what a task does without
  waiting takes none. Either task may move or release the target at any time. The
  64-bit time that one task stores while the other reads it may read as anything
  (`Verdicts`).
* **SegWire** Of a number's six bytes two differ from one number to the next: the
  frame is its command byte and these two, the control frame one byte, and the
  array has room for 4 bytes instead of 10. The order and length of bits on the
  line, and the chip behind it, are left out: a frame is whole or it is not.
* **RmtChannel** Symbols are counted, not shaped. The sizes are the real ones:
  48 symbols of memory, refilled by halves, 193 symbols of a strip of eight, 34 of
  a shot.
* **PowerCycle** From one power on to the next the tasks use one group of devices
  (servo, display, sound, lights); the groups share nothing but the monitor,
  which does not look at them.
* **Turret** The verdict of a scan is nondeterministic; `Radar` models how it is
  reached. A patrol task that was created begins before the announcement of the
  next game (ten seconds) is over.
* **Radar** The radar's word has no letter in common with `ON` and `OFF`. Digits
  are zero, another digit, and another digit that was in the
  buffer before this round; letters stand for themselves. A reply is one item in
  the UART, read whole. Lines that are taken for a reply fill the buffer.
* **SoundPlayer** Names of files, volume and playing time are left out, except
  for the phrases of spoken numbers (`BuildNum`), which are data a player hears.
* **BleNet** The NimBLE host is external and does what the code relies on: it
  refuses to scan while it connects and to connect without a free handle, and any
  call for a reason of its own; it reports attributes in the order of their
  handles; it ends a procedure with an error before it reports the disconnect. A
  database gives each attribute a handle of its own, in the order in which the
  services contain them (`InOrder`), as the attribute protocol prescribes; and
  there is a slot for each connection handle, as in the source (three of each).
  A uid is a taken slot.
* **WifiSetup** A name and its password are one member of `Phone`; flash may hold
  the halves of two. A string is in flash when `nvs_set_str` is back. The driver
  reports an address or a failure of every attempt to join.
  Either half of a save may be refused by itself, and the power may fail between
  the two; `stale` remembers the halves whose last write was refused.
* **LocalServer** A URL has an address and a port, or no port, or is none of that.
  Reading and storing of address and port are separate steps.
* **OtaUpdate** A version is its place in the order of `strcmp`. The checks of
  `esp_ota_end` and `esp_ota_set_boot_partition` are external: an image that is
  not whole does not pass. That the server is asked once in five minutes at most
  only delays `AskVersion`.

## 4. The runs

Ten runs pass and two find what the code does against its own comments.

| Run | Module, cfg | Question | Distinct states |
|---|---|---|---|
| `epicmgr` | MCEpicMgr | games and manager in every interleaving, `xTaskCreate` may fail; switches complete, ended games are freed, the manager implements `EpicSession` | 163,548 |
| `games` | MCAllGames | RANDOMSHOOT's cases, windows and score on the display; whose shots count in the other five, which records are possible | 1,657,251 |
| `random_skip` | RandomShoot, `_skip` | "make a case every 6 seconds" - **violated** | |
| `led_strip` | LedStrip | what `stop()` stops, that it returns | 140,093 |
| `turret` | Turret | one patrol at a time, quiet after `stop()`, `stop()` returns | 286,642 |
| `power_monitor` | MCPowerMonitor | when the device sleeps and warns | 13,020 |
| `power_full_battery` | MCPowerMonitor, `_full` | "power is too low. sleep immediately" - **violated** | |
| `power_cycle` | MCPowerCycle | from boot to deep sleep: that the boot ends, what is on at sleep, and the servo under two tasks, the display's wire and the RMT channels in between | 223,911 |
| `radar` | MCRadar | replies and lines of the radar, byte by byte | 2,784,122 |
| `ble` | MCBleNet | devices, links, peers, memory and messages in any order of events, calls refused | 559,252 |
| `voice` | MCVoiceControl | muting of the recogniser, the UART parser with lost bytes | 5,360,588 |
| `network` | NetworkNode | onto the network, to a server and a master, through an update; the power may fail in any step | 449,543 |

### Properties, and what they would catch

* `OneGameAtATime`, `RunningFlagIsTruthful`, `StaleHandleOnlyInTail`: the
  protocol of the two flags. If a game cleared its flag too early or late, or
  `stop()` did not wait, two games would drive the same devices or a game would
  run on freed memory. `StaleHandleOnlyInTail` also says how much is left: the
  last store `m_bStopFlag = true` does go to freed memory.
  `RunningFlagIsTruthful` is checked in both directions; the one exception is the
  object whose own `xTaskCreate` failed (`taskless`).
* `ServoCutOnlyByDoubleShot`: the late tail of DOUBLESHOT may cut the servo's
  power under the next game's lowered target; nothing else does.
* `SwitchCompletes`, `EndedGameIsReaped`; `ImplementsSession`.
* `ShotsAreJudged`: when a hit is judged, with the counter that has already moved
  on, its case is not over (`HitCreditsItsCase`); so only a wrong shot can be
  stored past the end of `caseSlot` (`StrayIsWrongShot`); and a shot counts only
  with the target up, unless the case before left it down
  (`WindowNeedsTargetUp`). `LiveScoreIsFinal`: the score counted during the game
  is the one counted again at its end. `ScoreIsShown`: it is what the display
  comes to rest on; see section 7.
* `ShotsAreEarned`: no shot from before a game counts in it, and no more than the
  queue holds from its announcement (`OnlyOwnShotsCount`); no record beats the
  dead time (`FastestRecord`).
* `StoppedStripIsQuiet` (up to a blink that had not yet reset the flag),
  `StopReturns`; `OnePatrol`, `QuietWhenStopped`, `StopEnds`.
* `ForcedSleepIsEarned` (four low readings in a row), `LowBatteryIsTold` (one of
  any five rounds), `LeftAloneItSleeps`.
* `MoveIsFinished`: whichever of two tasks releases the servo, its power is not cut
  in a move, unless another task began that while the caller was in `stop()`, or
  was storing its time as `stop()` looked, or the monitor cuts it. `WholeNumbers`:
  the chip shows what was asked for, unless the two writers have met, and no
  left-over of a meeting spoils a later number. `FramesAreWhole`: wherever the
  driver's memory cuts a frame, it goes out whole and in order, and its data is
  read while there is an owner. `BootEnds`: a call to a part that is not yet made
  restarts the device; only messages from outside can bring that about again and
  again, no call that the device makes by itself. `SleepsDark`: what is on at deep
  sleep was in use when it was switched off, or was taken up after that.
* `RepliesInStep`, `SightingsAreFresh`: the radar reports until it is told to be
  silent, so its lines lie in front of the reply that `sendCmdPacket` looks for;
  it is the flush and the second OPEN that bring the two in step. And no byte of
  a former round makes a movement or a distance.
* `TableIsExact`, `DiscoveryOwnsPeer` (no callback meets a freed peer or fails an
  assert), `NoBlockLost`, `AttributeIsCurrent`, `KeepsLooking`.
* `UidsReachTheirOwner`: what the walks over the table may do wrong while the host
  changes it, exactly. A message whose node was removed on the way goes nowhere,
  or to a handle whose device went or came since the uid was tested (`moved`), or,
  its handle read from the node just cleared (`blank`), to the device of handle 0.
  No other device ever gets another's uid; each of the exceptions does happen.
* `RecognizerFollowsSpeech`, `NoPhantomCommand`, `LossCostsTwo`; both up to three
  lost bytes, because four can put two frames together to a third.
* `FlashKeepsLink`: once the address of a link has been handled, flash holds what
  that link was made with - also when the phone sent other credentials before an
  older address was handled, and when the power failed between the two writes. `WifiInitReturns`, `LogInitEnds`: two
  initialisations that other tasks, or the number of sockets, bring to an end.
  `CommandsReachMaster`: address and port are of one declaration, the last.
  `UpdatesRestartIntoNewer`.

### Bounds, and why they are enough

* `EpicMgr`: two heap addresses (one live game and the address it had before, so
  that reuse happens), two tasks (a game and its predecessor's tail), four games,
  one of each shape: no end; tail after the flag; end without a clock; servo tail
  before the flag. The queue holds one command, the hit count wraps at 2. The
  proofs cover any number of tasks and addresses and any length of the queue.
* `RandomShoot`: a case of 7 rounds, window of 3, start times 2..3 of a range of
  4: as in the source, the window fits exactly (`40 + 20 = 60`). Four cases, so
  that there is a first, a last, one skipped and one in the middle. The proof
  covers all lengths.
* `ScoreDisplay`: real queue of two, two blinks instead of five, two questions
  for the battery: enough to fill the queue while a blink holds the task.
* `ShotGames`: announcements, goal, rounds and wrap scaled down; the order of
  their lengths is kept. `MaxTicks` only caps the clock.
* `LedStrip`: four LEDs (two halves, wrap-around), three and two flashes.
* `Turret`: two patrol tasks, two moves, two tries, two shots.
* `PowerMonitor`: readings on both sides of each limit that matters, one below
  the ADC offset, and a failed one; the limits 5, 5, 3 are the real ones.
* `PowerCycle`: both numbers differ from each other in both digits, one has no
  tens; the array has room for one number (4 bytes), and not for one and what
  another writer left, as the real one (10 of 6 and 6). The queue of phrases is
  the real one.
* `Radar`: "Range" is two letters, the buffer in proportion (index 10 instead of
  18): the longest line fits, two do not. Two tries instead of three, three bytes
  lost in a scan.
* `BleNet`: two handles and two slots for four devices with different databases
  (an empty service before the wanted one; two characteristics, one without
  descriptors; the wanted service missing; a service that has room for attributes
  and no characteristic), pools too small for some pairs. One walker and a command
  queue of one: walkers only read, so a second one adds no behaviour.
* `VoiceControl`: queue of two, two callers, three frames whose bytes can be
  mistaken for one another, three lost bytes - the largest number for which
  `NoPhantomCommand` holds.
* `NetworkNode`: one job from one power on to the next, because the jobs share
  only the sockets, of which the logging job can use up all by itself. The
  numbers of sockets (10) and pings (3) are the real ones; two credentials, both of
  which may be accepted or not, so that a newer link can replace an older one
  before its address is handled; three events that wait; two newer versions, an image in two parts.

`CHECK_DEADLOCK FALSE` stands where the system may stop: a failed `xTaskCreate`,
the end of a game, deep sleep without a wake-up.

## 5. Fairness

| Specification | Fair | Because |
|---|---|---|
| `EpicMgr!FairSpec` | WF: main task; entry, lowering, raising, loop test and tail of each game task; the clock of the games that have one | every task blocks or sleeps between its steps, so FreeRTOS runs each one; no fairness for players, hits, voice, or EIGHTSHOT, which waits for shots for ever |
| `LedStrip!FairSpec` | WF: LED task, poll of `stop()` | the same; `BLINK_FLOW` ends after its count (30 hours in the source) |
| `PowerMonitor!FairSpec` | WF: monitor; the second half of a store | the lowest priority of the application, but every other task blocks; a task between two stores is not blocked |
| `BleNet!Fairness` | WF: an attempt to connect is answered (30 s limit given by the code); a procedure reports or fails; a terminated link is reported lost | what the NimBLE host promises (supervision and ATT timeouts); it may still refuse any call |
| `PowerCycle!FairSpec` | WF: the next part that `app_main` makes | the main task waits for nothing during the boot, and the tasks it has made wait most of the time; nothing is asked of players, weapons or the monitor |
| `Turret!FairSpec` | WF: patrol steps, the game's start and stop, the release; SF: `Park` | `stop()` polls every 20 ms; the condition it polls for holds for the eleven seconds at least that lie between two patrols, which a poll cannot miss |
| `NetworkNode!Fairness` | WF: main task, SmartConfig task, event task, logging task; the library's acknowledgement to the phone | the tasks wait with a time limit or for an event; nothing is asked of the access point, the phone, the servers or the datagrams |

## 6. Proofs

All proofs are checked by TLAPS to the last leaf. They hold for every value of
the constants that satisfies the named assumptions, all of which TLC evaluates
on the instances above.

| Module | Theorem | Property | Assumptions |
|---|---|---|---|
| `EpicMgrProofs` | `MutualExclusion`, `NoStaleHandleInGame`, `RunningFlagSound`, `ServoCut` | `OneGameAtATime`, `StaleHandleOnlyInTail`, `RunningFlagIsTruthful`, `ServoCutOnlyByDoubleShot` | `EpicMgrAssumption` |
| | `SessionImplemented` | the safety of `ImplementsSession`: the manager implements `EpicSession` | |
| | `TypeCorrect`, `NoLeakedGame`, `ScoreKept` | types; a game object not in use is freed; the hit count is not reset under a game | |
| `AllGamesProofs` | `JudgedRight`, `ScoreIsFinal` | `ShotsAreJudged`, `LiveScoreIsFinal` | `RandomShootAssumption`: the window fits |
| | `ScoreIsRead` | `ScoreIsShown` | `DispAssumption`; `ScoreAssumption`: 99 cases at most, as the display has two digits |
| | `CountsAreEarned` | `ShotsAreEarned` | `ShotGamesAssumption`: the clock's bound lies beyond announcement and goal |
| `LedStripProofs` | `StopIsObeyed`, `TypeCorrect` | `StoppedStripIsQuiet`; types | `LedStripAssumption` |
| `PowerProofs` | `NoHastySleep`, `WarnedInTime` | `ForcedSleepIsEarned`, `LowBatteryIsTold` | `PowerAssumption` |
| | `SleepIsDark` | `SleepsDark` | `CycleAssumption`, `WireAssumption` |
| | `MovesAreFinished`, `NumbersAreWhole`, `FramesGoOutWhole` | `MoveIsFinished`, `WholeNumbers`, `FramesAreWhole` | `WireAssumption`: the array has room for a number's frame, and what is shown are digits |
| `TurretProofs` | `PatrolsExclude`, `StopIsFinal`, `TypeCorrect` | `OnePatrol`, `QuietWhenStopped`; types | `TurretAssumption` |
| | `RepliesAreOwn`, `ShotsHaveTargets` | `RepliesInStep`, `SightingsAreFresh` | `RadarAssumption`: the word is of letters that are no `O`, `N`, `F` or digit |
| `SoundPlayerProofs` | `HearsOthersOnly`, `NumbersAreRead` | `RecognizerFollowsSpeech`; every number from 0 to 100 is said by the phrases by which one reads it | `SoundAssumption`, `VoiceAssumption` |
| | `DamageRunsNothing`, `LossIsBounded` | `NoPhantomCommand`, `LossCostsTwo` | `VoiceAssumption`: no byte of a command is a mark of a frame |
| `BleProofs` | `TableNeverLies`, `UidsAreTheOwners` | `TableIsExact`, `UidsReachTheirOwner` | `BleNetAssumption`: a slot for each handle; `BleMgrAssumption` |
| | `DiscoveryIsOwned`, `AttributeOfLinked`, `MemoryIsKept` | `DiscoveryOwnsPeer`, `AttributeIsCurrent`, `NoBlockLost` | the same: databases in the order of handles, pools of any size |
| `NetworkProofs` | `CommandsArrive`, `UpdateIsNewer`, `FlashIsOfLink` | `CommandsReachMaster`, `UpdatesRestartIntoNewer`, `FlashKeepsLink` | `ServerAssumption`, `OtaAssumption`, `WifiAssumption` |

**The arguments.** Each theorem follows from an invariant that `Init` satisfies
and every step preserves. A module about several components has one for each; a
lemma says which of a component's steps a step of the whole can be, and the
others stutter.

* *EpicMgr.* `OneGameAtATime` is not inductive: a step of the manager that frees
  the object of a game on stage would break it. `IInv` adds that a task on stage
  plays the current, running object (`PlayInv`), that the heap holds that object
  only (`HeapInv`), that a running object is played unless its task could not be created
  (`PlayedInv`), and which
  tails touch the servo (`TailInv`). So the poll in `stop()` can only succeed
  when nobody is on stage, and a new game starts alone. `Shape` is `IInv` without
  its types; there is one lemma per kind of step (`ShapeSwitchStop`, `ShapeFree`,
  `ShapeStart`, `ShapeMove`, `ShapeClear`).
* *EpicMgr implements EpicSession.* Under the refinement mapping the requests are
  the pending one followed by those of the queue. Step by step: what accepts a
  command is `Ask`; what frees a game is `Dismiss`; what starts one is `Begin`,
  with `IsDud` when no task was created; clearing the flag is `LeaveStage`, and
  the only step of a game task that a player sees (`StageKept`). The invariant is
  `IInv` with the kinds of games in the heap (`MapInv`).
* *RandomShoot.* `WindowInv` says where the window is after each round: it opens
  at the later of its start and the raising of the target, `lastTime` has counted
  every round since and stays below the limit. With start < `StartRange` and
  `StartRange + Window <= CaseLen` it closes before the case ends, so a hit never
  reaches the byte past the array. That the live score is the final one is then
  a fact on cardinality: each counted hit adds one slot to the set of hits.
* *ScoreDisplay.* The newest number in the queue - or the one being blinked or
  shown, when it is empty - is the score, if the last sender was the game and
  nothing was refused (`DisplayInv`). Without a question for the battery nothing
  is: the game alone never has more than one number in the queue, because a hit
  comes after a round that timed out (`QuietInv`).
* *ShotGames.* Shots of the announcement are the first in the queue (`EarlyInv`).
  `Pace`: every counted or waiting shot but those that waited at the start has had
  a dead time of its own; so the goal takes as many ticks as `FastestRecord` says.
* *LedStrip.* The flag says when a blink is under way (`RunningInv`), and a stop
  that no blink was still to reset is heard by the next test (`HeardInv`).
* *PowerMonitor.* The code's counters never run ahead of the readings (`LowInv`),
  and the rounds since a warning are counted from the last round numbered zero
  (`QuietInv`).
* *Devices from boot to sleep.* Servo: when nobody is storing it, the stored time is
  that of the last move; so, for each task in `stop()` that no move has overtaken,
  the time left to wait and the time since the last move add up to a full move at
  least (`ServoInv`). Wire: one who writes alone has the
  first symbols of its frame in the array and the channel for itself
  (`PenInv`, `WireInv`). RMT: the position of an encoder, the symbols in memory and
  those sent always add up, at every place where the memory may cut the frame
  (`StripInv`, `IrInv`; `EncodeEffect` is one call of an encoder). Sleep:
  `DarkInv` follows each device from the moment it was cleared to deep sleep,
  unless it was taken up again; the hard part is the frame of black pixels that
  may wait behind another one (`BlackFrame`).
* *Turret.* `stop()` looks at a flag that a patrol which was created but has not
  begun does not set. `Marked` says what the flag means for the others; `Stopped`
  says that the stop flag stays set for a patrol that has not begun, which then
  leaves without a move. `Powered`, `Alerted` and `Counted` tie weapon, LED and
  the counters to the task.
* *Radar.* When the first OPEN and the reply to the last CLOSE got through, the
  radar is silent before the second OPEN, and the UART holds the reply to it or
  nothing (`InStep`). For the verdict: an "ON" that `scan` counted, may still hear
  or has in its buffer was sent after the flush, and each such claim is a line of
  its own (`Covered`); nothing in the buffer is older than the flush unless a line
  was misread (`Fresh`).
* *SoundPlayer.* Only a phrase being played makes the recogniser deaf, and the
  player's task undoes it before it is idle (`PlayerInv`).
* *Voice.* The wire holds the rest of one frame and perhaps a whole next one, so a
  state is described by these two frames and the place in the first
  (`Somewhere`). The parser's position and the bytes collected agree with that
  place but for what was lost (`InPlace`, `Collected`). The account `Paid`:
  commands missed, and those that the parser's position already dooms, are two
  at most for each byte lost - one for the frame that lost it, one for the next
  frame, whose head the parser may swallow. It holds up to three lost bytes; with
  four TLC shows two halves joined to a third command.
* *Bluetooth.* `TableIsExact` needs that links and handles are one to one, that a
  connection is asked for only for a device without a link, and that a procedure
  runs on a link only (`LinkInv`). That a new link always finds a free slot is the
  pigeonhole principle: each taken slot has a handle of its own, and the new
  link's is not among them (`NodeCreated`). The walkers read a slot in three
  steps: until the slot changes, which `lost` notes, what they have read is what
  is in it; and a node that has come into it meanwhile came together with its
  link (`NodesChange`), so that its handle is one that has `moved` (`WalkInv`).
* *Peer records.* What is recorded of a device is a part of its database: its
  first services, of each the first characteristics, of each of these the first
  descriptors (`Recorded`). The outstanding procedure asks about something
  recorded, and all that it has reported is recorded (`Asking`). Because the
  databases are in order, each new item lies behind the last of its list
  (`PlaceBehind`), so that the code's `SLIST_NEXT(prev) = x`, which drops what
  followed `prev`, drops nothing; and a report's service and characteristic are
  found where the procedure's handle points (`OwnerFound`). The value handle that
  is looked up by its UUID is then one of the database of this link, and a
  disconnect resets it (`AttrInv`). Memory: an item found lengthens one list by one
  (`ListGrows`), an abort or a disconnect empties all lists of one handle; each
  sort of block is counted over all handles (`Spread`, `Balanced`, `PoolInv`).
* *Network.* Three independent invariants, one for each part; the steps of the
  other parts stutter. `ServerInv`: what is stored is the last declaration, up to
  a port still pending (`MasterIsLast`), and a send that nothing disturbed has
  read only that (`SendSeesOne`). `OtaInv`: the partition that runs is whole and
  stays so, the one to boot is that or a whole and newer one (`UpdateIsSafe`); a
  power failure needs no case of its own. `WifiInv`: the driver joins with what is in
  `wifi_ssid` and `wifi_password`, because one handler sets both (`LinkOfRam`); a
  save of the event task, which no other event overtakes, writes just that
  (`SaveOfRam`); and the saves of the boot are over before there is a driver
  (`BootIsQuiet`). So the save for the address of the present link, the last one
  to be made for it, leaves the link's own credentials in flash.

**Model-checked only.** Liveness (`SwitchCompletes`, `EndedGameIsReaped`, the
fairness of `ImplementsSession`, `StopReturns`, `LeftAloneItSleeps`,
`KeepsLooking`, `StopEnds`, `BootEnds`, `WifiInitReturns`, `LogInitEnds`): fairness and
ENABLED are out of TLAPS's reach. Every safety property that a run checks and
finds true is proved.

## 7. Observations

Disagreements with the repository's own words, each with a run:

1. **A case may be skipped** (`random_skip`; `EpicBase.cpp:458`, `:461`, `:475`). A
   shot in the last round of a case is stored for the next case, which is then
   jumped over; in the last case it is stored past the end of `caseSlot`.
2. **A full battery is read as empty** (`power_full_battery`;
   `PowerMonitor.cpp:51`). Eleven of twelve rows are searched; 4120 mV or more
   comes out as -1, and after four such minutes the device is put to sleep.

Seen while modelling, part of the models or of their limits, without a run that
names them as errors.

Games, sounds, voice:

* The help announcement of `EpicMgr::run` never plays: the activity time it wants
  to be 0 is stored at boot.
* The last `m_bStopFlag = true` of a game may go to the next game's object when
  that has the same address, and stop it.
* A score may be lost in the display's queue while a battery blink goes on.
  Hundreds are not shown. A failed battery reading, -1, is shown as 65535, "35".
* A target shot at while lowered stays down; the next case may not raise it.
* An EIGHTSHOT that is stopped saves its time as a record, too; and a record that
  cannot be read is replaced by whatever score comes next.
* A spoken number below 0 or above 100 names phrases that do not exist or say
  something else. `play()` with the highest priority cuts one file of a phrase
  only.

Devices:

* A `stop()` of the LED strip is lost when a blink has not yet reset its flag.
* What was switched off by `tryDeepSleep` may be on again at deep sleep: ten
  seconds pass between the two, and no task is stopped (`PowerMonitor.cpp:208`
  to `:213`). A phrase that ends after the recogniser was sent to sleep, as the
  farewell of `tryDeepSleep` itself, tells it to listen again. `SleepsDark` says
  how far that goes.
* A game started while `tryDeepSleep` waits for the patrol resets the turret's
  stop flag; that `stop()` then waits for the whole game.
* `stop()` of the target's servo reads the time of the last move once and then
  waits; a move begun meanwhile is cut short. The tail of DOUBLESHOT moves and
  releases the target beside the next game, so this does happen.
* A weapon that reports a hit during the boot, or a word said before the manager
  has made its queue, restarts the device.
* `scan` stores one byte behind `cmd_recv` (index 18). A line that
  `sendCmdPacket` takes for a reply makes it read as many bytes as the line
  seems to say, far past the buffer. `RadarMgr.cpp:259` says "nTimes*200ms": with
  100 ticks a second 200 ticks are two seconds, and the wait happens
  `nTimes + 1` times; bytes without a line's end never use up a try.

Bluetooth:

* A device without the serial service stays registered, with attribute 0. A
  refused `ble_gap_connect`, a refused scan, a refused discovery, or a refused
  `ble_gap_terminate` after one that failed, leaves nobody scanning. A service with room for attributes and without characteristics is
  asked about for ever. `KeepsLooking` names these as the only exceptions. Uids
  wrap at 16 bits.
* `pingAll` and `setAimHelp` may read a slot in three moments; the message may
  then name one device and go to one that has just come, to that of handle 0, or
  to 0xFFFF, for which `attribute_handle` is read out of bounds.
  `UidsReachTheirOwner` names these as the only exceptions.

Network:

* The reset button saves an empty name and password. They are found at the next
  start, so no SmartConfig begins, and with an empty name nothing is joined:
  `wifi_init` waits for ever. So it does after a save of which one half is missing:
  flash then holds the halves of two, with which no attempt to join succeeds.
* "we need to run air kiss again" (`wifi_smartconfig.c:82`) is not done: the
  handler only tries to join again. The bit that is to say so, `WIFI_FAIL_BIT`,
  is waited for (`:261`) and never set.
* "The event will not be processed after unregister" (`:288`): the handlers were
  registered without an instance, and are unregistered by variables that were
  never set; they stay.
* What is saved when an address comes is what the phone sent last, which may not
  be what got the address, and stays in flash if the newer one gets none.
* `log_client_init` ends for a master whose server answers discovery and not the
  ping only because each question takes a socket that is never closed. What the
  discovery stored is not looked at before the next round.
* `udp_listen_task` ends for good when it gets no socket. `udp_send_cmd_to_master`
  never frees its buffer. `udp_broadcast_send` uses the length variable for the
  result of `sendto`.
* The update compares versions by `strcmp`, leaves its handle open on an error,
  and restarts although the choice of the partition may have failed: the same
  program then finds the same update again. With the repository's `partitions.csv`,
  which has no slots for updates, it ends before it begins; the model has two.

## 8. What is not modelled

* Data without control: colours, duty cycles, sound files, volume, levels and
  durations of symbols on UART and RMT lines, logging.
* Of the games: what they say and when (that a full queue of phrases may delay
  them), `blinkAll` and `setColor` of the strip, which nothing calls.
* Of the radar: `getDelay` and `setDelay`, which nothing calls, and
  `radar_mgr_task`, which is never started.
* Of the network: the text of a log, HTTP commands other than an update's,
  functions registered for a datagram, addresses given out to slaves (NAT,
  DHCP), events of a scan. The program that calls these parts is not in the
  repository.
* I2C and power-save settings: driver I/O without state of their own.
* `laser_receiver.c` and `LaserReceiver_PCNT`, which the firmware no longer
  starts; the Python experiments; board templates; audio.

## 9. Plan

Order of work: (1) the manager and its games, because everything else hangs on
one game at a time; (2) RANDOMSHOOT, the most intricate counting; (3) the devices
with flags of their own, LED strip and turret; (4) the other games and their
records; (5) power; (6) Bluetooth; (7) voice and sound; (8) the display; (9) the
radar's bytes; (10) boot, sleep and the wires of display, LEDs and shots between
them; (11) the network. All are on disk with their runs, and the safety of all
with proofs.

Next:

1. *Model.* The sounds of the games on top of `SoundPlayer`, whose full queue
   delays a game.
2. *Prove.* What the arguments use of one another across modules: that
   `EpicMgr!OneGameAtATime` gives the other modules their single client. The
   types of `BleMgr` and of the display, which no theorem states yet.
