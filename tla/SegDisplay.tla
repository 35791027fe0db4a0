----------------------------- MODULE SegDisplay -----------------------------
(***************************************************************************)
(* The two-digit display: main/SegDisplay.cpp.  A task takes numbers from  *)
(* a queue of two and shows them, or makes them blink.  The bytes for the  *)
(* display's chip and its UART are left out; what counts is the two digits.*)
(***************************************************************************)
EXTENDS Integers, Sequences

CONSTANTS DispQueue,    \* length of m_cmdQueue: 2
          BlinkTimes    \* how often a number blinks: 5

ASSUME DispAssumption == DispQueue \in Nat \ {0} /\ BlinkTimes \in Nat

VARIABLES dispQueue,    \* m_cmdQueue
          job,          \* the command at work
          left,         \* blinks: times left
          digits        \* what the display shows

dispVars == <<dispQueue, job, left, digits>>

NoJob == [cmd |-> "none", val |-> 0]
Dark  == 10                 \* a digit that is off
Blank == <<Dark, Dark>>

(* _displayNum: no leading zero; hundreds are not shown.                   *)
FrameOf(n) == <<IF n >= 10 THEN (n \div 10) % 10 ELSE Dark, n % 10>>

DispInit == dispQueue = <<>> /\ job = NoJob /\ left = 0 /\ digits = FrameOf(0)

(* displayNum and blinkNum wait 10 ms for a place in the queue.            *)
HasPlace == Len(dispQueue) < DispQueue
Send(cmd, n) == dispQueue' = IF HasPlace THEN Append(dispQueue, [cmd |-> cmd, val |-> n])
                             ELSE dispQueue

(* The task proc takes a command; a number is shown within 20 ms.          *)
TakeCmd ==
    /\ job = NoJob /\ dispQueue # <<>>
    /\ dispQueue' = Tail(dispQueue)
    /\ digits' = FrameOf(Head(dispQueue).val)
    /\ IF Head(dispQueue).cmd = "display" THEN UNCHANGED <<job, left>>
       ELSE job' = Head(dispQueue) /\ left' = BlinkTimes

(* (A fault: a blink ends dark.) *)
BlinkEndsDark ==
    /\ job # NoJob
    /\ digits' = IF digits = Blank THEN FrameOf(job.val) ELSE Blank
    /\ left' = IF digits = Blank THEN left ELSE left - 1
    /\ job' = IF left' = 0 THEN NoJob ELSE job
    /\ UNCHANGED dispQueue

(* _blinkNum: 300 ms lit, 300 ms dark, and lit again in the end. *)
Blink ==
    /\ job # NoJob
    /\ digits' = IF digits = Blank THEN FrameOf(job.val) ELSE Blank
    /\ left' = IF digits = Blank THEN left ELSE left - 1
    /\ job' = IF digits = Blank /\ left = 0 THEN NoJob ELSE job
    /\ UNCHANGED dispQueue

(* The number that one reads. *)
Reads(d) == (IF d[1] = Dark THEN 0 ELSE 10 * d[1]) + d[2]

AtRest == dispQueue = <<>> /\ job = NoJob
=============================================================================
