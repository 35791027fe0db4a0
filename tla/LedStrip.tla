------------------------------- MODULE LedStrip -------------------------------
(***************************************************************************)
(* The LED strip: main/LedStrip.cpp.                                       *)
(*                                                                         *)
(* One task takes commands from a short queue and carries them out; two of *)
(* them blink, for seconds or for hours, until another task calls stop().  *)
(* The caller is the game on stage: there is one at most (EpicMgr's        *)
(* OneGameAtATime), so it is a single client here.  The power monitor      *)
(* clears the strip from a third task, without any of this.                *)
(*                                                                         *)
(* Colours are left out: an LED is lit or dark.                            *)
(***************************************************************************)
EXTENDS Integers, Sequences, FiniteSets

CONSTANTS LedNum,           \* LED_NUM: 8
          QueueLen,         \* length of m_cmdQueue: 2
          RandomFlashes,    \* flashes of BLINK_RANDOM: 5
          FlowFlashes       \* flashes of BLINK_FLOW: 3 groups, 59999 times

ASSUME LedStripAssumption ==
    /\ LedNum \in Nat \ {0} /\ QueueLen \in Nat \ {0}
    /\ RandomFlashes \in Nat /\ FlowFlashes \in Nat

VARIABLES
    queue,      \* m_cmdQueue
    pc,         \* where the LED task is
    cmd,        \* the command it carries out
    left,       \* flashes left of a blink
    stopFlag,   \* m_bStopFlag
    running,    \* m_bIsRunning
    lit,        \* the LEDs that are not black
    client,     \* the game: "idle", "poll" in stop(), "stopped" after it
    late        \* history: a blink was waiting when stop() was called

vars == <<queue, pc, cmd, left, stopFlag, running, lit, client, late>>

Blinks   == {"BLINK_FLOW", "BLINK_RANDOM"}
Commands == Blinks \cup {"ON_ALL", "OFF_ALL", "OFF_HALF", "ON_ONE_MORE", "OFF_ONE_MORE"}
Leds     == 0 .. LedNum - 1

TypeOK ==
    /\ queue \in Seq(Commands) /\ Len(queue) <= QueueLen
    /\ pc \in {"recv", "do", "relight", "reset", "enter", "test", "flash", "end"}
    /\ cmd \in Commands
    /\ left \in Nat
    /\ stopFlag \in BOOLEAN /\ running \in BOOLEAN /\ late \in BOOLEAN
    /\ lit \subseteq Leds
    /\ client \in {"idle", "poll", "stopped"}

(* After init(). *)
Init ==
    /\ queue = <<>> /\ pc = "recv" /\ cmd = "OFF_ALL" /\ left = 0
    /\ stopFlag = FALSE /\ running = FALSE
    /\ lit = {} /\ client = "idle" /\ late = FALSE

-----------------------------------------------------------------------------
(* The client.  sendCmd fails, and changes nothing, when the queue stays   *)
(* full for 100 ms; no caller asks for the queue to be reset.              *)
SendCmd(c) ==
    /\ client # "poll" /\ Len(queue) < QueueLen
    /\ queue' = Append(queue, c)
    /\ client' = IF c \in Blinks THEN "idle" ELSE client
    /\ UNCHANGED <<pc, cmd, left, stopFlag, running, lit, late>>

(* A blink the LED task will still reset m_bStopFlag for. *)
BlinkWaiting == \/ \E i \in DOMAIN queue : queue[i] \in Blinks
                \/ pc = "reset"

CallStop ==
    /\ client # "poll"
    /\ stopFlag' = TRUE
    /\ client' = "poll"
    /\ late' = BlinkWaiting
    /\ UNCHANGED <<queue, pc, cmd, left, running, lit>>

PollStop ==
    /\ client = "poll" /\ running = FALSE
    /\ client' = "stopped"
    /\ UNCHANGED <<queue, pc, cmd, left, stopFlag, running, lit, late>>

(* PowerMonitor::tryDeepSleep darkens the strip from its own task. *)
ClearForSleep ==
    /\ lit' = {}
    /\ UNCHANGED <<queue, pc, cmd, left, stopFlag, running, client, late>>

-----------------------------------------------------------------------------
(* The LED task. *)
Receive ==
    /\ pc = "recv" /\ queue # <<>>
    /\ cmd' = Head(queue) /\ queue' = Tail(queue)
    /\ pc' = IF Head(queue) \in Blinks THEN "reset" ELSE "do"
    /\ UNCHANGED <<left, stopFlag, running, lit, client, late>>

Lowest(S) == CHOOSE i \in S : \A j \in S : i <= j

(* Steps from LED i, once around, to LED j. *)
Distance(i, j) == (j - i + LedNum) % LedNum

(* turnOffHalf: from LED i on, once around, until LedNum \div 2 went dark. *)
HalfFrom(i) == {j \in lit : Cardinality({k \in lit : Distance(i, k) < Distance(i, j)})
                              < LedNum \div 2}

(* turnOnOneMore, when every LED is lit, darkens all and lights them again.*)
DoCommand ==
    /\ pc = "do"
    /\ \/ /\ cmd = "ON_ALL"       /\ lit' = Leds
       \/ /\ cmd = "OFF_ALL"      /\ lit' = {}
       \/ /\ cmd = "OFF_HALF"     /\ \E i \in Leds : lit' = lit \ HalfFrom(i)
       \/ /\ cmd = "OFF_ONE_MORE"
          /\ lit' = IF lit = {} THEN lit ELSE lit \ {Lowest(lit)}
       \/ /\ cmd = "ON_ONE_MORE"
          /\ lit' = IF lit = Leds THEN {}
                     ELSE {j \in Leds : j \in lit \/ j = Lowest(Leds \ lit)}
    /\ pc' = IF cmd = "ON_ONE_MORE" /\ lit = Leds THEN "relight" ELSE "recv"
    /\ UNCHANGED <<queue, cmd, left, stopFlag, running, client, late>>

Relight ==
    /\ pc = "relight"
    /\ lit' = Leds
    /\ pc' = "recv"
    /\ UNCHANGED <<queue, cmd, left, stopFlag, running, client, late>>

(* blinkFlow and blinkAllRandomColor begin with two stores ... *)
ResetStopFlag ==
    /\ pc = "reset"
    /\ stopFlag' = FALSE
    /\ left' = IF cmd = "BLINK_FLOW" THEN FlowFlashes ELSE RandomFlashes
    /\ pc' = "enter"
    /\ UNCHANGED <<queue, cmd, running, lit, client, late>>

EnterBlink ==
    /\ pc = "enter"
    /\ running' = TRUE
    /\ pc' = "test"
    /\ UNCHANGED <<queue, cmd, left, stopFlag, lit, client, late>>

(* ... look at the flag before each flash: all LEDs, or one of the three   *)
(* groups of every third LED in turn ...                                   *)
Group == {j \in Leds : j % 3 = (FlowFlashes - left) % 3}

(* (A fault: the flag is not looked at.) *)
FlashOnAnyway ==
    /\ pc = "test" /\ left > 0
    /\ lit' = IF cmd = "BLINK_FLOW" THEN lit \cup Group ELSE Leds
    /\ pc' = "flash"
    /\ UNCHANGED <<queue, cmd, left, stopFlag, running, client, late>>

FlashOn ==
    /\ pc = "test" /\ stopFlag = FALSE /\ left > 0
    /\ lit' = IF cmd = "BLINK_FLOW" THEN lit \cup Group ELSE Leds
    /\ pc' = "flash"
    /\ UNCHANGED <<queue, cmd, left, stopFlag, running, client, late>>

FlashOff ==
    /\ pc = "flash"
    /\ lit' = {}
    /\ left' = left - 1
    /\ pc' = "test"
    /\ UNCHANGED <<queue, cmd, stopFlag, running, client, late>>

SeeStop ==
    /\ pc = "test" /\ (stopFlag = TRUE \/ left = 0)
    /\ lit' = {}
    /\ pc' = "end"
    /\ UNCHANGED <<queue, cmd, left, stopFlag, running, client, late>>

(* A fault: m_bIsRunning stays set. *)
EndBlinkRunning ==
    /\ pc = "end"
    /\ pc' = "recv"
    /\ UNCHANGED <<queue, cmd, left, stopFlag, running, lit, client, late>>

(* ... and end with one. *)
EndBlink ==
    /\ pc = "end"
    /\ running' = FALSE
    /\ pc' = "recv"
    /\ UNCHANGED <<queue, cmd, left, stopFlag, lit, client, late>>

LedTask == \/ Receive \/ DoCommand \/ Relight \/ ResetStopFlag \/ EnterBlink
           \/ FlashOn \/ FlashOff \/ SeeStop \/ EndBlink

Next == \/ \E c \in Commands : SendCmd(c)
        \/ CallStop \/ PollStop \/ ClearForSleep
        \/ LedTask

(* Both tasks run; nobody has to send, stop or go to sleep. *)
Fairness == WF_vars(LedTask) /\ WF_vars(PollStop)

Spec     == Init /\ [][Next]_vars
FairSpec == Spec /\ Fairness

-----------------------------------------------------------------------------
(* After stop() no flash is shown until a new blink is sent, unless one    *)
(* was still in the queue, or not yet past its m_bStopFlag = false, when   *)
(* stop() was called: that one is not stopped.                             *)
StoppedStripIsQuiet == client = "stopped" /\ ~late => pc # "flash"

(* stop() does come back, even when its flag was reset by a blink it did   *)
(* not see begin (after 30 hours then, the length of BLINK_FLOW).          *)
StopReturns == client = "poll" ~> client # "poll"
=============================================================================
