----------------------------- MODULE RandomShoot -----------------------------
(***************************************************************************)
(* The RANDOMSHOOT game: EpicRandomShoot::proc and makeRandomCase in       *)
(* main/EpicBase.cpp.                                                      *)
(*                                                                         *)
(* The game is a sequence of cases.  In each one the target may be lowered *)
(* for a random time, and for a short window, opened at a random time, a   *)
(* shot counts as a hit; any other shot is wrong.  A shot ends the case.   *)
(*                                                                         *)
(* The loop counter tmCount is kept as the pair (case, tick), that is      *)
(* tmCount = CaseLen * case + tick with tick < CaseLen: the code only ever *)
(* asks for its quotient and its remainder.                                *)
(***************************************************************************)
EXTENDS Integers, FiniteSets

CONSTANTS CaseLen,      \* loop rounds of 100 ms in a case: 60
          NumCases,     \* EPIC_RANDOM_CASE_NUM: 10
          StartRange,   \* random start times are taken modulo this: 40
          StartMin,     \* ... and moved up by this when below it: 10
          Window        \* rounds in which a shot counts: 20

(* The random times leave room for the whole window, exactly. *)
ASSUME RandomShootAssumption ==
    /\ CaseLen \in Nat \ {0} /\ NumCases \in Nat \ {0}
    /\ StartMin \in Nat \ {0} /\ StartRange \in Nat /\ Window \in Nat \ {0}
    /\ 2 * StartMin <= StartRange
    /\ StartRange + Window <= CaseLen

VARIABLES
    pc,             \* "make": top of the loop; "recv": in getCmd(100); "done"
    case, tick,     \* tmCount
    targetDown,     \* bTargetDown
    recvShoot,      \* bRecvShoot
    recvStart,      \* nRecvShootStartTime
    upStart,        \* nTargetUpStartTime
    lastTime,       \* nRecvShootLastTime
    inPeriod,       \* bInShootPeriod
    slot,           \* caseSlot: 0 no shot, 1 hit, 2 wrong
    stray,          \* values stored at caseSlot[NumCases], past its end
    shotCount,      \* the score on the display
    position,       \* where the servo has put the target
    flow,           \* the LED strip has been told to blink and not to stop
    made,           \* history: the cases that were begun
    leftDown        \* history: this case began with the target left down

vars == <<pc, case, tick, targetDown, recvShoot, recvStart, upStart, lastTime,
          inPeriod, slot, stray, shotCount, position, flow, made, leftDown>>

caseVars == <<targetDown, recvShoot, recvStart, upStart, lastTime, inPeriod,
              position, flow, made, leftDown>>

Slots == 0 .. NumCases - 1

(* A fault: the minimum is added to every time. *)
StartTimeAdded(r) == r + StartMin

(* esp_random() % StartRange, not below StartMin *)
StartTime(r) == IF r < StartMin THEN r + StartMin ELSE r
StartTimes   == {StartTime(r) : r \in 0 .. StartRange - 1}

Hits(s) == Cardinality({i \in Slots : s[i] = 1})

TypeOK ==
    /\ pc \in {"make", "recv", "done"}
    /\ case \in Nat /\ tick \in 0 .. CaseLen - 1
    /\ targetDown \in BOOLEAN /\ recvShoot \in BOOLEAN /\ inPeriod \in BOOLEAN
    /\ recvStart \in Nat /\ upStart \in Nat /\ lastTime \in Nat
    /\ slot \in [Slots -> 0 .. 2] /\ stray \subseteq 1 .. 2 /\ shotCount \in Nat
    /\ position \in {"up", "down"} /\ flow \in BOOLEAN
    /\ made \subseteq Nat /\ leftDown \in BOOLEAN

(* After the announcement; the static variables of makeRandomCase still    *)
(* hold what the last game left there, which the first round overwrites.   *)
Init ==
    /\ pc = "make" /\ case = 0 /\ tick = 0
    /\ targetDown = FALSE /\ recvShoot = FALSE /\ inPeriod = FALSE
    /\ recvStart = 0 /\ upStart = 0 /\ lastTime = 0
    /\ slot = [i \in Slots |-> 0] /\ stray = {} /\ shotCount = 0
    /\ position = "up" /\ flow = FALSE
    /\ made = {} /\ leftDown = FALSE

(* Everything makeRandomCase does after it has (perhaps) begun a case with *)
(* the given times and flags: open the window, raise the target, count,    *)
(* close the window.                                                       *)
Round(start, up, down, recv, last, in, pos, lit) ==
    LET opened == recv \/ tick = start
        raised == down /\ tick = up
        still  == down /\ ~raised
        count  == IF opened /\ ~still THEN last + 1 ELSE last
        closes == opened /\ count > Window
    IN  /\ recvStart'  = start
        /\ upStart'    = up
        /\ targetDown' = still
        /\ recvShoot'  = (opened /\ ~closes)
        /\ lastTime'   = IF closes THEN 0 ELSE count
        /\ inPeriod'   = (~closes /\ (in \/ (opened /\ ~still)))
        /\ position'   = IF raised THEN "up" ELSE pos
        /\ flow'       = (~closes /\ (lit \/ tick = start))

(* A round that begins a case: everything is drawn anew.  The target is    *)
(* lowered or not; when it is not, it stays wherever it is.                *)
BeginCase(start, up, lower) ==
    /\ tick = 0
    /\ Round(start, up, lower, FALSE, 0, FALSE,
             IF lower THEN "down" ELSE position, FALSE)
    /\ made' = made \cup {case}
    /\ leftDown' = (~lower /\ position = "down")

ContinueCase ==
    /\ tick # 0
    /\ Round(recvStart, upStart, targetDown, recvShoot, lastTime, inPeriod, position, flow)
    /\ UNCHANGED <<made, leftDown>>

(* makeRandomCase(tmCount++, ...): the counter has moved on before the     *)
(* shot is looked for.                                                     *)
MakeRandomCase ==
    /\ pc = "make" /\ case < NumCases
    /\ \/ \E start, up \in StartTimes, lower \in BOOLEAN : BeginCase(start, up, lower)
       \/ ContinueCase
    /\ tick' = IF tick + 1 = CaseLen THEN 0 ELSE tick + 1
    /\ case' = IF tick + 1 = CaseLen THEN case + 1 ELSE case
    /\ pc' = "recv"
    /\ UNCHANGED <<slot, stray, shotCount>>

(* getCmd(100) times out. *)
NoShot ==
    /\ pc = "recv"
    /\ pc' = "make"
    /\ UNCHANGED <<case, tick, slot, stray, shotCount, caseVars>>

(* A fault: the two verdicts are swapped. *)
VerdictSwapped == IF inPeriod THEN 2 ELSE 1

(* What the shot stores at caseSlot[case], which is past the end of the    *)
(* array when the last case is over (a byte that may hold anything).       *)
Verdict == IF inPeriod THEN 1 ELSE 2

Judge ==
    IF case \in Slots
    THEN /\ slot' = IF slot[case] = 0 THEN [slot EXCEPT ![case] = Verdict] ELSE slot
         /\ shotCount' = IF slot[case] = 0 /\ inPeriod THEN shotCount + 1 ELSE shotCount
         /\ stray' = stray
    ELSE /\ slot' = slot
         /\ \/ /\ stray' = stray \cup {Verdict}
               /\ shotCount' = IF inPeriod THEN shotCount + 1 ELSE shotCount
            \/ UNCHANGED <<stray, shotCount>>

(* A shot is judged with the incremented counter and ends the case.        *)
Shot ==
    /\ pc = "recv"
    /\ Judge
    /\ case' = case + 1 /\ tick' = 0
    /\ pc' = "make"
    /\ UNCHANGED caseVars

(* The loop ends after the last case or when the manager stops the game,   *)
(* which it may at any time; the score is counted again from the slots.    *)
LeaveLoop ==
    /\ pc = "make"
    /\ shotCount' = Hits(slot)
    /\ position' = "up" /\ flow' = FALSE
    /\ pc' = "done"
    /\ UNCHANGED <<case, tick, slot, stray, targetDown, recvShoot, recvStart,
                   upStart, lastTime, inPeriod, made, leftDown>>

Next == MakeRandomCase \/ NoShot \/ Shot \/ LeaveLoop

Spec == Init /\ [][Next]_vars

-----------------------------------------------------------------------------
(* The window opened by a case is closed before the case ends, so a hit is *)
(* never credited to the next case although it is judged with the counter  *)
(* of the next round, nor stored past the end of caseSlot.                 *)
HitCreditsItsCase == pc = "recv" /\ inPeriod => tick # 0 /\ case \in Slots

(* The only thing ever stored past the end of caseSlot is a wrong shot. *)
StrayIsWrongShot == stray \subseteq {2}

(* "count lasting time when target is in UP state": the window runs only   *)
(* while the target is up - unless the case began with a target that a     *)
(* shot at the lowered target, ending the last case, had left down.        *)
WindowNeedsTargetUp == inPeriod => position = "up" \/ leftDown

(* A shot is judged by the window of its own case, and the window by the   *)
(* target.                                                                 *)
ShotsAreJudged == HitCreditsItsCase /\ StrayIsWrongShot /\ WindowNeedsTargetUp

(* The score shown during the game is the one counted again at its end:    *)
(* no hit is counted without its slot, and none twice.                     *)
LiveScoreIsFinal == shotCount = Hits(slot)

(* "make a case every 6 seconds": no case is passed over. *)
NoCaseSkipped == pc = "make" => \A c \in 0 .. case - 1 : c \in made
=============================================================================
