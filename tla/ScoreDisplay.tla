---------------------------- MODULE ScoreDisplay ----------------------------
(***************************************************************************)
(* The game RANDOMSHOOT and the display it keeps its score on, while the   *)
(* player may ask for the battery, which the same display answers: how     *)
(* main/EpicBase.cpp, main/ASRCommandProc.cpp and main/SegDisplay.cpp work *)
(* together through the display's short queue.                             *)
(***************************************************************************)
EXTENDS RandomShoot, SegDisplay

CONSTANTS Percentages,  \* what the battery may read
          MaxAsked      \* bound: battery questions in a game

(* A score has two digits. *)
ASSUME ScoreAssumption == Percentages \subseteq Nat /\ NumCases <= 99

VARIABLES ended,        \* the game has sent its final score
          asked,        \* battery questions so far
          refused,      \* history: a score found no place in the queue
          latest        \* history: whose number was last accepted

scoreVars == <<vars, dispVars, ended, asked, refused, latest>>

ScoreInit ==
    /\ Init /\ DispInit
    /\ ended = FALSE /\ asked = 0
    /\ refused = FALSE /\ latest = "game"

(* While the game waits - 100 ms for a shot, or a second before its final  *)
(* score - the display shows what it has got, unless a blink, which takes  *)
(* three seconds, keeps it busy.                                           *)
Prompt == job = NoJob => dispQueue = <<>>

SendScore(cmd, n) ==
    /\ Send(cmd, n)
    /\ latest' = IF HasPlace THEN "game" ELSE latest
    /\ refused' = (refused \/ ~HasPlace)
    /\ UNCHANGED <<job, left, digits>>

WaitForShot ==
    /\ Prompt
    /\ NoShot
    /\ UNCHANGED <<dispVars, ended, asked, refused, latest>>

ShotShown ==
    /\ Shot
    /\ IF shotCount' # shotCount THEN SendScore("display", shotCount')
       ELSE UNCHANGED <<dispVars, refused, latest>>
    /\ UNCHANGED <<ended, asked>>

Game == /\ MakeRandomCase \/ LeaveLoop
        /\ UNCHANGED <<dispVars, ended, asked, refused, latest>>

FinalScore ==
    /\ pc = "done" /\ ~ended /\ Prompt
    /\ SendScore("blink", shotCount)
    /\ ended' = TRUE
    /\ UNCHANGED <<vars, asked>>

(* ASR_CMD_REPORT_POWER in the voice task. *)
AskBattery ==
    /\ asked < MaxAsked
    /\ \E pct \in Percentages : Send("blink", pct)
    /\ latest' = IF HasPlace THEN "voice" ELSE latest
    /\ asked' = asked + 1
    /\ UNCHANGED <<vars, job, left, digits, ended, refused>>

Display ==
    /\ TakeCmd \/ Blink
    /\ UNCHANGED <<vars, ended, asked, refused, latest>>

ScoreNext == Game \/ WaitForShot \/ ShotShown \/ FinalScore \/ AskBattery \/ Display

ScoreSpec == ScoreInit /\ [][ScoreNext]_scoreVars

-----------------------------------------------------------------------------
(* The player can read the score: whenever the display has come to rest    *)
(* after a number of the game it shows the present score, to the last      *)
(* blink and after it.  Only a question for the battery, whose blinking    *)
(* fills the queue, can make it miss one.                                  *)
ScoreIsShown ==
    /\ AtRest /\ latest = "game" /\ ~refused => Reads(digits) = shotCount
    /\ refused => asked > 0
=============================================================================
