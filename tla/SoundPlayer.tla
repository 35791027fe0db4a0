----------------------------- MODULE SoundPlayer -----------------------------
(***************************************************************************)
(* The sound player: main/SoundPlayer.cpp.  A task plays what other tasks  *)
(* put in its queue of two, one file (or one phrase of several files) at a *)
(* time.  While it speaks, the speech recogniser is told not to listen, so *)
(* that the device does not take its own voice for a command.              *)
(*                                                                         *)
(* Names of files, volume and playing time are left out, except for spoken *)
(* numbers (BuildNum).                                                     *)
(***************************************************************************)
EXTENDS Integers, Sequences

CONSTANTS
    SoundQueue, \* length of the player's queue: 2
    Caller      \* tasks that ask for sounds

ASSUME SoundAssumption == SoundQueue \in Nat \ {0}

(* VOICE_TYPE_SOUND and VOICE_TYPE_SPEACH *)
VoiceTypes == {"sound", "speech"}
Priorities == 0 .. 2    \* SOUND_PLAY_PRI_NORMAL, _HIGH_1, _HIGH_2

NoAsk == [at |-> "no"]

VARIABLES
    sounds,     \* m_cmdQueue
    asking,     \* how far each caller of play() is
    player,     \* where the player's task is
    playing,    \* what it plays, or played last
    told,       \* the UART took sendCmd(DN_ASR) for what is played
    speaker,    \* GPIO_SPK_MUTE
    uart,       \* ASRCOmmandProc::m_bUartInit
    recognizer  \* the recogniser: listening ("on") or not

soundVars == <<sounds, asking, player, playing, told, speaker, uart, recognizer>>

(* The welcome is queued at boot, before the recogniser's UART is set up.  *)
SoundInit ==
    /\ sounds = <<"speech">>
    /\ asking = [c \in Caller |-> NoAsk]
    /\ player = "idle" /\ playing = "sound" /\ told = FALSE
    /\ speaker = FALSE
    /\ uart = FALSE /\ recognizer = "on"

-----------------------------------------------------------------------------
(* A number as the phrases that say it.  The names of the phrases are NUM0 *)
(* to NUM9, NUM10 for "ten" and NUMMX for "hundred".                       *)
BuildNum(n) ==
    IF n = 100 THEN <<100>>
    ELSE (IF n \div 10 > 1 THEN <<n \div 10>> ELSE <<>>)
         \o (IF n \div 10 >= 1 THEN <<10>> ELSE <<>>)
         \o (IF n % 10 # 0 \/ n = 0 THEN <<n % 10>> ELSE <<>>)

-----------------------------------------------------------------------------
(* play(): a caller with priority resets the queue, then perhaps cuts the  *)
(* file being played, then puts its sound in the queue.                    *)
FirstOfPlay(pri) == CASE pri = 0 -> "send" [] pri = 1 -> "reset" [] pri = 2 -> "reset and stop"

Ask(c, type, pri) ==
    /\ asking[c] = NoAsk
    /\ asking' = [asking EXCEPT ![c] = [at |-> FirstOfPlay(pri), type |-> type]]

ResetQueue(c) ==
    /\ asking[c].at \in {"reset", "reset and stop"}
    /\ sounds' = <<>>
    /\ asking' = [asking EXCEPT ![c].at = IF @ = "reset" THEN "send" ELSE "stop"]
    /\ UNCHANGED <<player, playing, told, speaker, uart, recognizer>>

(* stop(): the present file ends; a phrase goes on with its next file.     *)
StopAudio(c) ==
    /\ asking[c].at = "stop"
    /\ asking' = [asking EXCEPT ![c].at = "send"]
    /\ player' \in IF player = "play" THEN {"play", "end"} ELSE {player}
    /\ UNCHANGED <<sounds, playing, told, speaker, uart, recognizer>>

(* A caller that finds the queue full waits, and gives up in the end.      *)
SendSound(c) ==
    /\ asking[c].at = "send"
    /\ sounds' = IF Len(sounds) < SoundQueue THEN Append(sounds, asking[c].type) ELSE sounds
    /\ asking' = [asking EXCEPT ![c] = NoAsk]
    /\ UNCHANGED <<player, playing, told, speaker, uart, recognizer>>

-----------------------------------------------------------------------------
(* sendCmd: what a sleeping recogniser does with a command is not known.   *)
Recognizer(cmd) ==
    IF ~uart THEN {recognizer}
    ELSE IF recognizer = "asleep" THEN {"asleep", cmd} ELSE {cmd}

(* The task proc. *)
TakeSound ==
    /\ player = "idle" /\ sounds # <<>>
    /\ playing' = Head(sounds) /\ sounds' = Tail(sounds)
    /\ player' = "begin"
    /\ UNCHANGED <<asking, told, speaker, uart, recognizer>>

BeginPlay ==
    /\ player = "begin"
    /\ speaker' = TRUE
    /\ recognizer' \in IF playing = "speech" THEN Recognizer("off") ELSE {recognizer}
    /\ told' = (playing = "speech" /\ uart)
    /\ player' = "play"
    /\ UNCHANGED <<sounds, asking, playing, uart>>

(* (A fault: a file that cannot be played ends _play at once.) *)
FileFails ==
    /\ player = "play"
    /\ player' \in {"end", "idle"}
    /\ UNCHANGED <<sounds, asking, playing, told, speaker, uart, recognizer>>

FileEnds ==
    /\ player = "play"
    /\ player' = "end"
    /\ UNCHANGED <<sounds, asking, playing, told, speaker, uart, recognizer>>

EndPlay ==
    /\ player = "end"
    /\ recognizer' \in IF playing = "speech" THEN Recognizer("on") ELSE {recognizer}
    /\ told' = FALSE
    /\ speaker' = FALSE
    /\ player' = "idle"
    /\ UNCHANGED <<sounds, asking, playing, uart>>

(* init() of the voice control, at the end of the boot. *)
UartInit ==
    /\ ~uart
    /\ uart' = TRUE
    /\ UNCHANGED <<sounds, asking, player, playing, told, speaker, recognizer>>

(* tryDeepSleep *)
SleepRecognizer ==
    /\ uart /\ recognizer # "asleep"
    /\ recognizer' = "asleep"
    /\ UNCHANGED <<sounds, asking, player, playing, told, speaker, uart>>

SoundNext ==
    \/ \E c \in Caller : ResetQueue(c) \/ StopAudio(c) \/ SendSound(c)
    \/ TakeSound \/ BeginPlay \/ FileEnds \/ EndPlay
    \/ UartInit \/ SleepRecognizer

-----------------------------------------------------------------------------
(* The device does not listen to its own voice - except to a phrase that   *)
(* began before the UART was set up - and it never stays deaf, or its      *)
(* speaker on, when it has said what it had to say.                        *)
RecognizerFollowsSpeech ==
    /\ player = "play" /\ told => recognizer # "on"
    /\ player \in {"idle", "begin"} => recognizer # "off" /\ ~speaker
=============================================================================
