------------------------------ MODULE ShotGames ------------------------------
(***************************************************************************)
(* The games that count shots, and how they do it: the laser receiver      *)
(* (main/LaserReceiver_IS0803.cpp) and the loops of main/EpicBase.cpp,     *)
(* with their clocks, their counters and the records kept in NVS.          *)
(*                                                                         *)
(* A tick is half a second, the dead time of the receiver.  The time that  *)
(* the tasks spend computing, or blocked on a full sound queue, is left    *)
(* out, and 200 ms waits for a shot are rounded up to one tick.            *)
(***************************************************************************)
EXTENDS Integers, Sequences, FiniteSets

CONSTANTS
    Announce,       \* ticks from resetQueue to the first getCmd, per game
    RecvQueue,      \* length of the receiver's queue: 2
    Goal,           \* shots of EIGHTSHOT: 8
    Rounds,         \* rounds of TMLIMIT: 15
    AttackTicks,    \* ticks of ADVATTACK: 120
    Wrap,           \* a counter that reaches this goes back to 1: 100
    MaxTicks        \* bound: no game's clock runs further than this

Games == {"SINGLESHOT", "DOUBLESHOT", "EIGHTSHOT", "TMLIMIT", "ADVATTACK"}
RecordGames == {"EIGHTSHOT", "TMLIMIT"}

ASSUME ShotGamesAssumption ==
    /\ Announce \in [Games -> Nat]
    /\ RecvQueue \in Nat /\ Goal \in Nat /\ Rounds \in Nat \ {0}
    /\ AttackTicks \in Nat /\ Wrap \in Nat /\ Wrap > 1 /\ Wrap % 2 = 0
    /\ MaxTicks \in Nat /\ MaxTicks >= AttackTicks /\ MaxTicks >= Announce["EIGHTSHOT"] + Goal

VARIABLES
    game,       \* the game on stage, or the last one
    stage,      \* where its task is
    wait,       \* ticks spent in the present wait
    shots,      \* shotCount
    remain,     \* tmRemain
    elapsed,    \* ticks since the game's clock was started
    stop,       \* m_bStopFlag
    laser,      \* the receiver's queue: in which phase each shot was fired
    quiet,      \* the dead time of the last trigger is over
    record,     \* the NVS entries, -1 when there is none
    early,      \* history: shots of earlier phases that this game has counted
    full        \* history: was the record set by a game played to its end?

shotVars == <<game, stage, wait, shots, remain, elapsed, stop, laser, quiet,
          record, early, full>>

gameVars   == <<game, wait, shots, remain, elapsed, stop, early>>
recordVars == <<record, full>>

Phases == {"before", "announce", "play"}

ShotInit ==
    /\ game = "SINGLESHOT" /\ stage = "off" /\ wait = 0
    /\ shots = 0 /\ remain = Rounds /\ elapsed = 0 /\ stop = FALSE
    /\ laser = <<>> /\ quiet = TRUE
    /\ record = [g \in RecordGames |-> -1]
    /\ early = [p \in Phases \ {"play"} |-> 0]
    /\ full = [g \in RecordGames |-> FALSE]

-----------------------------------------------------------------------------
(* gpio_isr_handler: triggers in the dead time are ignored, and a shot     *)
(* that finds the queue full is lost.                                      *)
Phase == CASE stage = "off" -> "before" [] stage = "announce" -> "announce" [] OTHER -> "play"

Trigger ==
    /\ quiet
    /\ quiet' = FALSE
    /\ laser' = IF Len(laser) < RecvQueue THEN Append(laser, Phase) ELSE laser
    /\ UNCHANGED <<stage, gameVars, recordVars>>

(* Time passes while nobody has anything to do. *)
WaitOf(g)    == IF g \in RecordGames THEN 2 ELSE 1
LoweredOf(g) == IF g = "SINGLESHOT" THEN 4 ELSE 3

Waiting == \/ stage = "off"
           \/ stage = "announce" /\ wait < Announce[game]
           \/ stage = "recv" /\ laser = <<>> /\ wait < WaitOf(game)
           \/ stage = "lowered" /\ wait < LoweredOf(game)

Tick ==
    /\ Waiting
    /\ quiet' = TRUE
    /\ wait' = IF stage = "off" THEN wait ELSE wait + 1
    /\ elapsed' = IF stage = "off" \/ elapsed = MaxTicks THEN elapsed ELSE elapsed + 1
    /\ UNCHANGED <<game, stage, shots, remain, stop, laser, early, recordVars>>

-----------------------------------------------------------------------------
(* A fault: the queue is not reset. *)
StartGameLoaded(g) ==
    /\ stage = "off"
    /\ game' = g /\ stage' = "announce" /\ wait' = 0
    /\ shots' = 0 /\ remain' = Rounds /\ elapsed' = 0 /\ stop' = FALSE
    /\ early' = [p \in Phases \ {"play"} |-> 0]
    /\ UNCHANGED <<laser, quiet, recordVars>>

(* The manager starts a game when the last one has ended, and may stop it  *)
(* at any time.  A game begins with an empty receiver queue.               *)
StartGame(g) ==
    /\ stage = "off"
    /\ game' = g /\ stage' = "announce" /\ wait' = 0
    /\ shots' = 0 /\ remain' = Rounds /\ elapsed' = 0 /\ stop' = FALSE
    /\ laser' = <<>>
    /\ early' = [p \in Phases \ {"play"} |-> 0]
    /\ UNCHANGED <<quiet, recordVars>>

StopGame ==
    /\ stage # "off" /\ ~stop
    /\ stop' = TRUE
    /\ UNCHANGED <<game, stage, wait, shots, remain, elapsed, laser, quiet,
                   early, recordVars>>

(* The announcement is over; EIGHTSHOT counts it into its time. *)
EnterLoop ==
    /\ stage = "announce" /\ wait = Announce[game]
    /\ stage' = "loop"
    /\ elapsed' = IF game = "EIGHTSHOT" THEN elapsed ELSE 0
    /\ UNCHANGED <<game, wait, shots, remain, stop, laser, quiet, early, recordVars>>

Complete == \/ game = "EIGHTSHOT" /\ shots >= Goal
            \/ game = "TMLIMIT"   /\ remain <= 0
            \/ game = "ADVATTACK" /\ elapsed >= AttackTicks

LoopTest ==
    /\ stage = "loop"
    /\ stage' = IF stop \/ Complete THEN "tail" ELSE "recv"
    /\ wait' = 0
    /\ UNCHANGED <<game, shots, remain, elapsed, stop, laser, quiet, early, recordVars>>

Clock == remain' = IF game = "TMLIMIT" THEN remain - 1 ELSE remain

(* getCmd returns nothing. *)
NoShotYet ==
    /\ stage = "recv" /\ laser = <<>> /\ wait = WaitOf(game)
    /\ Clock
    /\ stage' = "loop"
    /\ UNCHANGED <<game, wait, shots, elapsed, stop, laser, quiet, early, recordVars>>

(* The counter of the game after one more shot; EIGHTSHOT never wraps. *)
NextCount == IF game # "EIGHTSHOT" /\ shots + 1 = Wrap THEN 1 ELSE shots + 1

Lowers == game = "SINGLESHOT" \/ (game = "DOUBLESHOT" /\ NextCount % 2 = 0)

(* getCmd returns a shot. *)
CountShot ==
    /\ stage = "recv" /\ laser # <<>>
    /\ laser' = Tail(laser)
    /\ shots' = NextCount
    /\ Clock
    /\ stage' = IF Lowers THEN "lowered" ELSE "loop"
    /\ wait' = 0
    /\ early' = IF Head(laser) = "play" THEN early ELSE [early EXCEPT ![Head(laser)] = @ + 1]
    /\ UNCHANGED <<game, elapsed, stop, quiet, recordVars>>

TargetUpAgain ==
    /\ stage = "lowered" /\ wait = LoweredOf(game)
    /\ stage' = "loop"
    /\ UNCHANGED <<gameVars, laser, quiet, recordVars>>

-----------------------------------------------------------------------------
(* The records in NVS.  Opening, reading, storing and committing may each  *)
(* fail; readNVSPair then returns -1, as it does when there is no entry,   *)
(* and saveNVSPair leaves the entry as it was.                             *)
ReadNVSPair(g) == {record[g], -1}

SaveNVSPair(g, val) ==
    \/ record' = [record EXCEPT ![g] = val] /\ full' = [full EXCEPT ![g] = Complete]
    \/ UNCHANGED <<record, full>>

Score(g) == IF g = "EIGHTSHOT" THEN elapsed \div 2 ELSE shots

Beats(g, new, old) == IF g = "EIGHTSHOT" THEN new < old ELSE new > old

CheckHistoryRecord(g, read) ==
    IF read < 0 \/ Beats(g, Score(g), read)
    THEN SaveNVSPair(g, Score(g))
    ELSE UNCHANGED <<record, full>>

(* The tails: the queue is emptied and the record is looked at whether the *)
(* game was completed or stopped.                                          *)
EndGame ==
    /\ stage = "tail"
    /\ IF game \in RecordGames
       THEN \E read \in ReadNVSPair(game) : CheckHistoryRecord(game, read)
       ELSE UNCHANGED recordVars
    /\ laser' = IF game \in RecordGames THEN <<>> ELSE laser
    /\ stage' = "off"
    /\ UNCHANGED <<gameVars, quiet>>

GameTask == EnterLoop \/ LoopTest \/ NoShotYet \/ CountShot \/ TargetUpAgain \/ EndGame

ShotNext == \/ Trigger \/ Tick \/ StopGame \/ GameTask
        \/ \E g \in Games : StartGame(g)

ShotSpec == ShotInit /\ [][ShotNext]_shotVars

-----------------------------------------------------------------------------
(* Shots fired before the game was announced never count, and of those     *)
(* fired during the announcement at most as many as the queue holds.       *)
OnlyOwnShotsCount == early["before"] = 0 /\ early["announce"] <= RecvQueue

(* No complete EIGHTSHOT record is faster than the announcement and the    *)
(* dead time of the receiver allow: only shots waiting in the queue come   *)
(* without a dead time of their own.                                       *)
FastestRecord ==
    full["EIGHTSHOT"] =>
        2 * record["EIGHTSHOT"] + 1 >= Announce["EIGHTSHOT"] + Goal - RecvQueue - 1

(* Shots count for the game they were fired in, and each for a trigger of  *)
(* the receiver.                                                           *)
ShotsAreEarned == OnlyOwnShotsCount /\ FastestRecord
=============================================================================
