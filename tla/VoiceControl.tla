----------------------------- MODULE VoiceControl -----------------------------
(***************************************************************************)
(* Voice control: main/ASRCommandProc.cpp, with the sound player that it   *)
(* answers through.  The recogniser, a chip of its own, sends a frame of   *)
(* six bytes for each command it hears; the task of the UART finds the     *)
(* frames in the bytes, which have no checksum and may be lost, and runs   *)
(* the commands.                                                           *)
(***************************************************************************)
EXTENDS SoundPlayer

CONSTANTS
    Heard,      \* commands the recogniser knows, as <<type, id>>
    MaxFrames,  \* bound: frames sent
    MaxLost     \* bound: bytes lost

(* What a command is made of: bytes that are no mark of a frame.  The      *)
(* types the code knows are 3 at most, the ids 14.                         *)
Plain == 0 .. 164

ASSUME VoiceAssumption ==
    /\ "voice" \in Caller /\ MaxFrames \in Nat /\ MaxLost \in Nat
    /\ Heard \subseteq Plain \X Plain

VARIABLES
    wire,       \* bytes on their way
    recvLen,    \* recv_len
    buff,       \* the bytes of the command collected so far
    frames,     \* frames sent
    lost,       \* bytes lost
    pending,    \* history: commands sent and neither run nor passed over
    missed,     \* history: commands passed over
    phantom     \* history: a command was run that nobody had sent

linkVars == <<wire, recvLen, buff, frames, lost, pending, missed, phantom>>
vars == <<soundVars, linkVars>>

(* CMD_TYPE_ASR, CMD_TYPE_WAKEUP *)
ASR    == 2
WAKEUP == 3

Frame(type, id) == <<165, 250, type, id \div 256, id % 256, 251>>

Init ==
    /\ SoundInit
    /\ wire = <<>> /\ recvLen = 0 /\ buff = <<>>
    /\ frames = 0 /\ lost = 0
    /\ pending = <<>> /\ missed = 0 /\ phantom = FALSE

-----------------------------------------------------------------------------
(* runCmd and processASRCmd: the commands that do something.               *)
Known(type, id) ==
    \/ type = ASR /\ id \in (2 .. 14) \ {6}
    \/ type = WAKEUP /\ id = 1

(* The recogniser hears a command. *)
Hear(type, id) ==
    /\ recognizer = "on" /\ uart
    /\ frames < MaxFrames /\ Len(wire) <= 6
    /\ frames' = frames + 1
    /\ wire' = wire \o Frame(type, id)
    /\ pending' = IF Known(type, id) THEN Append(pending, <<type, id>>) ELSE pending
    /\ UNCHANGED <<soundVars, recvLen, buff, lost, missed, phantom>>

LoseByte ==
    /\ wire # <<>> /\ lost < MaxLost
    /\ wire' = Tail(wire)
    /\ lost' = lost + 1
    /\ UNCHANGED <<soundVars, recvLen, buff, frames, pending, missed, phantom>>

-----------------------------------------------------------------------------
(* Those that speak in answer. *)
Answers(type, id) ==
    \/ type = ASR /\ id \in {2, 3, 7, 8, 9, 10, 13}
    \/ type = WAKEUP /\ id = 1

(* History: a command is matched with the first one like it that was sent. *)
Account(command) ==
    LET alike == {i \in 1 .. Len(pending) : pending[i] = command}
        first == CHOOSE i \in alike : \A j \in alike : i <= j
    IN  IF alike = {}
        THEN /\ phantom' = TRUE
             /\ UNCHANGED <<pending, missed>>
        ELSE /\ missed' = missed + first - 1
             /\ pending' = SubSeq(pending, first + 1, Len(pending))
             /\ UNCHANGED phantom

RunCmd(type, id) ==
    /\ IF Known(type, id) THEN Account(<<type, id>>) ELSE UNCHANGED <<pending, missed, phantom>>
    /\ IF Answers(type, id) THEN Ask("voice", "speech", 0) ELSE UNCHANGED asking

(* (A fault: the end of a frame does not begin a new one.) *)
NextRecvLenRunsOn(n, c) ==
    CASE n = 1 -> IF c = 165 THEN 1 ELSE 0
      [] n = 2 -> IF c = 250 THEN 2 ELSE 0
      [] n > 6 -> 0
      [] OTHER -> n

(* recv_len after the n-th byte of a frame. *)
NextRecvLen(n, c) ==
    CASE n = 1 -> IF c = 165 THEN 1 ELSE 0
      [] n = 2 -> IF c = 250 THEN 2 ELSE 0
      [] n = 6 -> 0
      [] OTHER -> n

(* (A fault: i is not reset, so every byte runs the first command again.) *)
ByteNoReset ==
    /\ wire # <<>> /\ asking["voice"] = NoAsk
    /\ LET c == Head(wire)
           n == recvLen + 1
       IN  /\ recvLen' = NextRecvLen(n, c)
           /\ IF n \in 3 .. 5
              THEN /\ buff' = IF Len(buff) < 3 THEN Append(buff, c) ELSE buff
                   /\ IF Len(buff') = 3
                      THEN RunCmd(buff'[1], 256 * buff'[2] + buff'[3])
                      ELSE UNCHANGED <<asking, pending, missed, phantom>>
              ELSE UNCHANGED <<buff, asking, pending, missed, phantom>>
    /\ wire' = Tail(wire)
    /\ UNCHANGED <<sounds, player, playing, told, speaker, uart, recognizer, frames, lost>>

(* uart_cmd_task reads a byte, unless it is held up in play().             *)
Byte ==
    /\ wire # <<>> /\ asking["voice"] = NoAsk
    /\ LET c == Head(wire)
           n == recvLen + 1
       IN  /\ recvLen' = NextRecvLen(n, c)
           /\ IF n \in {3, 4}
              THEN /\ buff' = Append(buff, c)
                   /\ UNCHANGED <<asking, pending, missed, phantom>>
              ELSE IF n = 5
              THEN /\ RunCmd(buff[1], 256 * buff[2] + c)
                   /\ buff' = <<>>
              ELSE UNCHANGED <<buff, asking, pending, missed, phantom>>
    /\ wire' = Tail(wire)
    /\ UNCHANGED <<sounds, player, playing, told, speaker, uart, recognizer, frames, lost>>

(* The other tasks ask for sounds, too. *)
OtherAsks ==
    /\ \E c \in Caller \ {"voice"}, type \in VoiceTypes, pri \in Priorities : Ask(c, type, pri)
    /\ UNCHANGED <<sounds, player, playing, told, speaker, uart, recognizer, linkVars>>

Next ==
    \/ \E h \in Heard : Hear(h[1], h[2])
    \/ LoseByte \/ Byte \/ OtherAsks
    \/ SoundNext /\ UNCHANGED linkVars

Spec == Init /\ [][Next]_vars

-----------------------------------------------------------------------------
(* As long as fewer than four bytes are lost, no command is run that was   *)
(* not sent, and none is run twice or out of order: damaged frames never   *)
(* join to a command.                                                      *)
NoPhantomCommand == lost <= 3 => ~phantom

(* Up to then, a lost byte costs at most two commands, the one it belongs  *)
(* to and the one whose beginning is taken for the missing end.            *)
LossCostsTwo == lost <= 3 /\ wire = <<>> => missed + Len(pending) <= 2 * lost
=============================================================================
