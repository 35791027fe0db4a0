----------------------------- MODULE TargetServo -----------------------------
(***************************************************************************)
(* The servo that raises and lowers the target: main/TargetServo.cpp.      *)
(* A move takes a second and needs power for all of it; the one who is     *)
(* done with the target waits for the end of the last move and cuts the    *)
(* power.  Two tasks may be at the servo: the game of the moment, and the  *)
(* tail of the DOUBLESHOT before it, which raises the target and releases  *)
(* it (EpicMgr).  Either may move it or release it at any moment here.     *)
(* The power monitor cuts the power without waiting.                       *)
(*                                                                         *)
(* A tick is half a second; what a task does without waiting takes none.   *)
(***************************************************************************)
EXTENDS Integers

Users == {"game", "tail"}
FullMove == 2               \* 1000*1000 microseconds

VARIABLES
    power,      \* GPIO_SERVO_TGT_PWR_EN
    since,      \* ticks since the last move began, FullMove for more
    stored,     \* the same by m_tmLastActionTime; -1: it is 0
    busy,       \* what each user is doing: nothing, a move, stop()
    cut         \* history: how the power was cut the last time

servoVars == <<power, since, stored, busy, cut>>

Free == [at |-> "no", left |-> 0]

(* init(): of the variables at power on, and of the primed ones at a       *)
(* restart.                                                                *)
ServoStarts(pw, sn, st, bs, ct) ==
    /\ pw = FALSE
    /\ sn = FullMove /\ st = -1
    /\ bs = [u \in Users |-> Free]
    /\ ct = [by |-> "nobody", early |-> FALSE, others |-> FALSE]

ServoInit  == ServoStarts(power, since, stored, busy, cut)
ServoReset == ServoStarts(power', since', stored', busy', cut')

Cut(u, others) ==
    /\ power' = FALSE
    /\ cut' = [by |-> u, early |-> power /\ since < FullMove, others |-> others]

(* setUp and setDown: power and the new duty; then the time is stored.     *)
(* Another task's cut between power and duty leaves what one right after   *)
(* both does: a servo without power, and a move that was to begin.  For    *)
(* those in stop() it is history that a move has overtaken them.           *)
Move(u) ==
    /\ busy[u].at = "no"
    /\ power' = TRUE /\ since' = 0
    /\ busy' = [w \in Users |->
                  IF w = u THEN [at |-> "store", left |-> 0]
                  ELSE IF busy[w].at = "stop" THEN [busy[w] EXCEPT !.at = "overtaken"]
                  ELSE busy[w]]
    /\ UNCHANGED <<stored, cut>>

StoreTime(u) ==
    /\ busy[u].at = "store"
    /\ stored' = 0
    /\ busy' = [busy EXCEPT ![u] = Free]
    /\ UNCHANGED <<power, since, cut>>

(* What stop() reads in m_tmLastActionTime, a 64-bit value: while another  *)
(* task stores it, half old and half new perhaps, it can be anything.      *)
Storing(u) == \E w \in Users \ {u} : busy[w].at = "store"
MustWait   == stored # -1 /\ stored < FullMove
Verdicts(u) == IF Storing(u) THEN BOOLEAN ELSE {MustWait}

Stopping(u, wait, left) ==
    busy' = [busy EXCEPT ![u] = [at   |-> IF Storing(u) /\ ~wait THEN "overtaken" ELSE "stop",
                                 left |-> left]]

(* (A fault: the time that is left is waited for, counted in whole ticks   *)
(* of the second that has begun.)                                          *)
StopTooSoon(u) ==
    /\ busy[u].at = "no"
    /\ \E wait \in Verdicts(u) : Stopping(u, wait, IF wait THEN FullMove - 1 ELSE 0)
    /\ UNCHANGED <<power, since, stored, cut>>

(* stop() looks at the time; it waits a second, if the last action is less *)
(* than one old ...                                                        *)
Stop(u) ==
    /\ busy[u].at = "no"
    /\ \E wait \in Verdicts(u) : Stopping(u, wait, IF wait THEN FullMove ELSE 0)
    /\ UNCHANGED <<power, since, stored, cut>>

(* ... and cuts the power. *)
Release(u) ==
    /\ busy[u].at \in {"stop", "overtaken"} /\ busy[u].left = 0
    /\ Cut(u, busy[u].at = "overtaken")
    /\ busy' = [busy EXCEPT ![u] = Free]
    /\ UNCHANGED <<since, stored>>

(* Time passes when no one has anything to do at once.                     *)
Older(n) == IF n < FullMove THEN n + 1 ELSE n

ServoTick ==
    /\ \A u \in Users : busy[u].at = "no" \/ busy[u].left > 0
    /\ busy' = [u \in Users |-> IF busy[u].left > 0 THEN [busy[u] EXCEPT !.left = @ - 1]
                                ELSE busy[u]]
    /\ since' = Older(since)
    /\ stored' = IF stored = -1 THEN stored ELSE Older(stored)
    /\ UNCHANGED <<power, cut>>

ServoUse == \E u \in Users : Move(u) \/ StoreTime(u) \/ Stop(u) \/ Release(u)

(* powerOffTgtServo called by the power monitor. *)
PowerOffTgtServo == Cut("monitor", FALSE) /\ UNCHANGED <<since, stored, busy>>

-----------------------------------------------------------------------------
(* stop() does not interrupt a move, its caller's or another task's,       *)
(* except one that another task began while the caller was in stop(), or   *)
(* whose time was not yet stored when stop() looked at it; only the        *)
(* monitor does that.                                                      *)
MoveIsFinished == cut.early => cut.by = "monitor" \/ cut.others
=============================================================================
