-------------------------------- MODULE Radar --------------------------------
(***************************************************************************)
(* The radar: main/RadarMgr.cpp as doPatrol of main/AutoTurret.cpp uses it,*)
(* byte for byte.  The radar reports lines, "ON", "OFF" and "Range n"; in  *)
(* command mode it is silent and answers commands.  A round of the patrol  *)
(* silences it (OPEN, twice), turns the turret, lets it report (CLOSE) and *)
(* listens for some lines.  Replies and lines are read into one buffer,    *)
(* cmd_recv; what the UART holds is flushed now and then.                  *)
(*                                                                         *)
(* The line to the radar may lose a command, a reply, or bytes of a line;  *)
(* an answer comes within 100 ms or is lost.  Digits: "0", "d" for others, *)
(* "x" for others that were in the buffer before the flush (history).      *)
(***************************************************************************)
EXTENDS Integers, Sequences

CONSTANTS ScanTries,    \* nTimes of scan: 3
          MaxLost,      \* bytes lost in one scan
          RangeWord,    \* the letters of "Range"
          Last          \* UART_PACKET_LEN: 18, one past the buffer's last index

(* The letters that the word may have. *)
Letter == {"R", "a", "n", "g", "e"}

ASSUME RadarAssumption ==
    /\ ScanTries \in Nat /\ MaxLost \in Nat /\ Last \in Nat
    /\ RangeWord \in Seq(Letter)

VARIABLES
    mode,       \* the radar's: "report" or "command"
    rx,         \* answers, and "report" for any bytes of lines, in the UART
    air,        \* what is still to come of a line, during a scan
    buf,        \* cmd_recv and the byte behind it
    p,          \* the index that scan's pointer p points to
    pc,         \* where the patrol is
    tries,      \* nTimes
    n,          \* movements counted by scan
    reading,    \* distance: "0", or whether its digits are of this scan: "fresh", "old"
    sentOn,     \* history: lines "ON" that the radar sent in this scan
    lost,       \* bytes lost in this scan
    unheard,    \* history: this round's first OPEN, or the reply to its CLOSE,
                \* was lost
    misread     \* history: bytes of lines, or a reply to something else, were
                \* taken for a reply in this round

radarVars == <<mode, rx, air, buf, p, pc, tries, n, reading, sentOn, lost, unheard, misread>>

wire == <<mode, rx>>
scan == <<air, p, tries, n, reading, sentOn, lost>>

Cells == 0 .. Last
Digit == {"0", "d", "x"}
Space == {" ", "CR", "LF"}

Lines == { <<"O", "N", "CR", "LF">>,
           <<"O", "F", "F", "CR", "LF">>,
           RangeWord \o <<" ", "0", "CR", "LF">>,
           RangeWord \o <<" ", "d", "d", "CR", "LF">> }

(* The constructor and init(); a patrol begins. *)
RadarInit ==
    /\ mode = "report" /\ rx = <<>> /\ air = <<>>
    /\ buf = [i \in Cells |-> "NUL"] /\ p = 0
    /\ pc = "open" /\ tries = 0 /\ n = 0 /\ reading = "0"
    /\ sentOn = 0 /\ lost = 0
    /\ unheard = FALSE /\ misread = FALSE

-----------------------------------------------------------------------------
(* What the UART may hold once the radar has, or has not, got a command    *)
(* and answered it.                                                        *)
Chatter(m) == IF m = "report" THEN {<<>>, <<"report">>} ELSE {<<>>}

Command(cmd, held, heard, acked) ==
    LET ack == IF heard /\ acked THEN <<cmd>> ELSE <<>>
    IN  /\ mode' = IF ~heard THEN mode ELSE IF cmd = "OPEN" THEN "command" ELSE "report"
        /\ \E b \in Chatter(mode), a \in Chatter(mode') : rx' = held \o b \o ack \o a

(* disableDetect: sendCmdPacket writes OPEN, waits 100 ms, ...             *)
OpenFirst ==
    /\ pc = "open"
    /\ \E heard, acked \in BOOLEAN :
         /\ Command("OPEN", rx, heard, acked)
         /\ unheard' = ~heard
    /\ pc' = "openAgain"
    /\ UNCHANGED <<buf, scan, misread>>

(* (A fault: ... and reads.) *)
OpenNoMore ==
    /\ pc = "openAgain"
    /\ pc' = "opened"
    /\ UNCHANGED <<wire, buf, scan, unheard, misread>>

(* ... flushes the UART and writes OPEN again. *)
OpenAgain ==
    /\ pc = "openAgain"
    /\ \E heard, acked \in BOOLEAN : Command("OPEN", <<>>, heard, acked)
    /\ pc' = "opened"
    /\ UNCHANGED <<buf, scan, unheard, misread>>

(* enableDetect, after the sweep; a radar not silenced has reported on.    *)
Close ==
    /\ pc = "sweep"
    /\ \E heard, acked \in BOOLEAN, b \in Chatter(mode) :
         /\ Command("CLOSE", rx \o b, heard, acked)
         /\ unheard' = (unheard \/ (heard /\ ~acked))
    /\ pc' = "closed"
    /\ UNCHANGED <<buf, scan, misread>>

(* What is left in cmd_recv by the read of a reply: 14 bytes that are no   *)
(* digits, four fewer than the buffer has.                                 *)
Reply(b) == [i \in Cells |-> IF i < Last - 4 THEN "b" ELSE b[i]]

Cleared == [i \in Cells |-> "NUL"]      \* memset

(* (A fault: cmd_recv is not cleared.) *)
ReadOnto(cmd) ==
    /\ misread' = (misread \/ (rx # <<>> /\ Head(rx) # cmd))
    /\ \/ rx = <<>> /\ UNCHANGED <<rx, buf>>
       \/ rx # <<>> /\ Head(rx) # "report" /\ rx' = Tail(rx) /\ buf' = Reply(buf)
       \/ rx # <<>> /\ Head(rx) = "report" /\ rx' = <<>> /\ buf' = [i \in Cells |-> "x"]

(* A header of 6 bytes, then as many as it says, within 2 s each.  A line  *)
(* taken for a header says that thousands follow: all that comes is put in *)
(* the buffer and behind it.                                               *)
ReadReply(cmd) ==
    /\ misread' = (misread \/ (rx # <<>> /\ Head(rx) # cmd))
    /\ \/ rx = <<>> /\ buf' = Cleared /\ UNCHANGED rx
       \/ rx # <<>> /\ Head(rx) # "report" /\ rx' = Tail(rx) /\ buf' = Reply(Cleared)
       \/ rx # <<>> /\ Head(rx) = "report" /\ rx' = <<>> /\ buf' = [i \in Cells |-> "x"]

GetReply ==
    /\ \/ pc = "opened" /\ ReadReply("OPEN")  /\ pc' = "sweep"
       \/ pc = "closed" /\ ReadReply("CLOSE") /\ pc' = "flush"
    /\ UNCHANGED <<mode, scan, unheard>>

-----------------------------------------------------------------------------
(* scan() begins with a flush, at whatever place of a line. *)
Flush ==
    /\ pc = "flush"
    /\ rx' = <<>>
    /\ IF mode = "command" THEN air' = <<>>
       ELSE \E l \in Lines : \E k \in 1 .. Len(l) : air' = SubSeq(l, k + 1, Len(l))
    /\ buf' = [i \in Cells |-> IF buf[i] = "d" THEN "x" ELSE buf[i]]
    /\ p' = 0 /\ tries' = ScanTries
    /\ n' = 0 /\ reading' = "0" /\ sentOn' = 0 /\ lost' = 0
    /\ pc' = "scan"
    /\ UNCHANGED <<mode, unheard, misread>>

(* The radar sends a line. *)
SendLine ==
    /\ pc = "scan" /\ mode = "report" /\ air = <<>>
    /\ air' \in Lines
    /\ sentOn' = IF air' = <<"O", "N", "CR", "LF">> THEN sentOn + 1 ELSE sentOn
    /\ UNCHANGED <<wire, buf, p, pc, tries, n, reading, lost, unheard, misread>>

LoseByte ==
    /\ pc = "scan" /\ air # <<>> /\ lost < MaxLost
    /\ air' = Tail(air) /\ lost' = lost + 1
    /\ UNCHANGED <<wire, buf, p, pc, tries, n, reading, sentOn, unheard, misread>>

(* if(nTimes--==0) break; *)
OneTryLess ==
    IF tries = 0 THEN pc' = "decide" /\ UNCHANGED tries
    ELSE tries' = tries - 1 /\ UNCHANGED pc

Silence ==
    /\ pc = "scan" /\ air = <<>>
    /\ OneTryLess
    /\ UNCHANGED <<wire, buf, air, p, n, reading, sentOn, lost, unheard, misread>>

(* A byte that ends no line is kept, and after eighteen more the line is   *)
(* given up: the last of them is kept behind the buffer.                   *)
HearByte ==
    /\ pc = "scan" /\ air # <<>> /\ Head(air) # "LF"
    /\ buf' = [buf EXCEPT ![p] = Head(air)]
    /\ p' = IF p = Last THEN 0 ELSE p + 1
    /\ air' = Tail(air)
    /\ UNCHANGED <<wire, pc, tries, n, reading, sentOn, lost, unheard, misread>>

Begins(b, word) == \A i \in DOMAIN word : b[i - 1] = word[i]

(* atoi from the second byte after "Range" on: white space, then digits. *)
Atoi(b) ==
    LET run == { i \in Len(RangeWord) + 1 .. Last :
                   /\ b[i] \in Digit
                   /\ \A j \in Len(RangeWord) + 1 .. i : b[j] \in Space \cup Digit
                   /\ \A k, m \in Len(RangeWord) + 1 .. i :
                        k < m /\ b[k] \in Digit => b[m] \in Digit }
        digits == { b[i] : i \in run }
    IN  IF digits \subseteq {"0"} THEN "0" ELSE IF "x" \in digits THEN "old" ELSE "fresh"

EndLine ==
    /\ pc = "scan" /\ air # <<>> /\ Head(air) = "LF"
    /\ buf' = [i \in Cells |-> IF i = p THEN "LF" ELSE IF i = p - 1 THEN "NUL" ELSE buf[i]]
    /\ n' = IF Begins(buf', <<"O", "N">>) THEN n + 1 ELSE n
    /\ reading' = IF Begins(buf', RangeWord) THEN Atoi(buf') ELSE reading
    /\ p' = 0
    /\ air' = Tail(air)
    /\ OneTryLess
    /\ UNCHANGED <<wire, sentOn, lost, unheard, misread>>

ScanStep == SendLine \/ LoseByte \/ Silence \/ HearByte \/ EndLine

(* doPatrol: a burst, or none, and the next round; what scan had kept in   *)
(* its variables is gone.                                                  *)
Fires == n >= 2 /\ reading # "0"

Decide ==
    /\ pc = "decide"
    /\ pc' = "open"
    /\ air' = <<>> /\ p' = 0 /\ tries' = 0
    /\ n' = 0 /\ reading' = "0" /\ sentOn' = 0 /\ lost' = 0
    /\ unheard' = FALSE /\ misread' = FALSE
    /\ UNCHANGED <<wire, buf>>

RadarNext == OpenFirst \/ OpenAgain \/ GetReply \/ Close \/ Flush \/ ScanStep \/ Decide

RadarSpec == RadarInit /\ [][RadarNext]_radarVars

-----------------------------------------------------------------------------
(* sendCmdPacket finds the reply to its own command at the head of what it *)
(* reads, and so stays in its buffer, although the radar was reporting     *)
(* when it was told to stop: unless it did not get the first OPEN, or its  *)
(* reply to CLOSE was lost.                                                *)
RepliesInStep == misread => unheard

(* The turret fires at nothing that is gone.  Whatever bytes are cut off   *)
(* or lost, and whatever is left in the buffer from rounds before: every   *)
(* movement that is counted has been reported since the flush, and so has  *)
(* some digit of the distance, unless the round has misread a reply.       *)
SightingsAreFresh ==
    pc = "decide" => /\ n <= sentOn
                     /\ Fires => reading = "fresh" \/ misread
=============================================================================
