------------------------------- MODULE EpicMgr -------------------------------
(***************************************************************************)
(* The game manager: main/EpicMgr.cpp and the life cycle that every game   *)
(* of main/EpicBase.cpp shares.                                            *)
(*                                                                         *)
(* Actors: the main task (EpicMgr::run), the tasks that post commands to   *)
(* its queue (voice control, Bluetooth), and one task per started game,    *)
(* which shares the two flags of the game object with the manager and may  *)
(* outlive the object.  The manager frees a game object as soon as it sees *)
(* m_bIsRunning == false, whatever the game's task still has to do.        *)
(*                                                                         *)
(* m_bIsRunning and m_bStopFlag are plain bytes written by two cores; a    *)
(* compiler may merge or swap the two stores at the end of a game.  Those  *)
(* builds only show fewer interleavings than the source order used here:   *)
(* nobody reads m_bStopFlag of a game before its m_bIsRunning is false,    *)
(* except the game's own loop, which has ended by then.                    *)
(***************************************************************************)
EXTENDS Integers, Sequences, FiniteSets

CONSTANTS
    Addr,           \* heap addresses a game object can be given
    Task,           \* FreeRTOS task control blocks for game tasks
    Kind,           \* the games of this instance, a subset of AllKinds
    NoAddr,         \* m_curEpic == NULL
    NoKind,         \* no game
    QueueLen,       \* length of m_cmdQueue: 2 in the source
    HitMod,         \* m_nHitTargetCount counts modulo this: 2^16
    CreateCanFail   \* may xTaskCreate run out of memory?

AllKinds == {"SINGLESHOT", "DOUBLESHOT", "EIGHTSHOT", "TMLIMIT",
             "RANDOMSHOOT", "ADVATTACK"}

(* Games that drive the target servo. *)
ServoKinds == {"SINGLESHOT", "DOUBLESHOT", "RANDOMSHOOT"}
(* Games that can end without being told to ... *)
EndingKinds == {"EIGHTSHOT", "TMLIMIT", "RANDOMSHOOT", "ADVATTACK"}
(* ... and those of them whose clock makes them end. *)
TimedKinds == EndingKinds \ {"EIGHTSHOT"}

ASSUME EpicMgrAssumption ==
    /\ Addr # {} /\ NoAddr \notin Addr
    /\ Kind \subseteq AllKinds /\ "SINGLESHOT" \in Kind /\ NoKind \notin Kind
    /\ QueueLen \in Nat \ {0}
    /\ HitMod \in Nat \ {0}
    /\ CreateCanFail \in BOOLEAN

VARIABLES
    queue,      \* m_cmdQueue, oldest command first
    mgr,        \* where the main task is: "recv", "stop" or "new"
    pending,    \* the game switchEpic is switching to
    cur,        \* m_curEpic
    hits,       \* m_nHitTargetCount
    obj,        \* the heap: one possible game object per address
    task,       \* the game tasks
    power       \* GPIO_SERVO_TGT_PWR_EN

vars == <<queue, mgr, pending, cur, hits, obj, task, power>>

Command == [key : {"SWITCH_EPIC"}, val : Kind]
             \cup [key : {"BESHOT_INFORM"}, val : {"IRM_CODE", "OTHER_CODE"}]

Freed == [live |-> FALSE, kind |-> NoKind, running |-> FALSE, stopFlag |-> FALSE,
          taskless |-> FALSE]
Idle  == [pc |-> "idle", kind |-> NoKind, addr |-> NoAddr, own |-> FALSE]

PCs == {"idle", "entry", "play", "shot", "down", "raise", "cut", "clear", "mark"}

(* The taskless field is history, read by no action: xTaskCreate failed    *)
(* when this very object was started.                                      *)
Object == [live : BOOLEAN, kind : Kind \cup {NoKind},
           running : BOOLEAN, stopFlag : BOOLEAN, taskless : BOOLEAN]
TaskState == [pc : PCs, kind : Kind \cup {NoKind},
              addr : Addr \cup {NoAddr}, own : BOOLEAN]

TypeOK ==
    /\ queue \in Seq(Command) /\ Len(queue) <= QueueLen
    /\ mgr \in {"recv", "stop", "new"}
    /\ pending \in Kind
    /\ cur \in Addr \cup {NoAddr}
    /\ hits \in 0 .. HitMod - 1
    /\ obj \in [Addr -> Object]
    /\ task \in [Task -> TaskState]
    /\ power \in BOOLEAN

(* Just after the queue is created, about to build the default game. *)
Init ==
    /\ queue = <<>>
    /\ mgr = "new"
    /\ pending = "SINGLESHOT"
    /\ cur = NoAddr
    /\ hits = 0
    /\ obj = [a \in Addr |-> Freed]
    /\ task = [t \in Task |-> Idle]
    /\ power = FALSE

-----------------------------------------------------------------------------
(* EpicMgr::sendCmd, called by the voice and Bluetooth tasks.  A full      *)
(* queue makes the call give up after 10 ms and change nothing.            *)
SendCmd(c) ==
    /\ Len(queue) < QueueLen
    /\ queue' = Append(queue, c)
    /\ UNCHANGED <<mgr, pending, cur, hits, obj, task, power>>

(* switchEpic for the game that m_curEpic already is: nothing to do. *)
SwitchSame ==
    /\ mgr = "recv" /\ queue # <<>>
    /\ Head(queue).key = "SWITCH_EPIC"
    /\ cur # NoAddr /\ obj[cur].kind = Head(queue).val
    /\ queue' = Tail(queue)
    /\ UNCHANGED <<mgr, pending, cur, hits, obj, task, power>>

(* switchEpic for another game: EpicBase::stop() raises the flag and polls.*)
SwitchStop ==
    /\ mgr = "recv" /\ queue # <<>>
    /\ Head(queue).key = "SWITCH_EPIC"
    /\ cur # NoAddr /\ obj[cur].kind # Head(queue).val
    /\ queue' = Tail(queue)
    /\ pending' = Head(queue).val
    /\ obj' = [obj EXCEPT ![cur].stopFlag = TRUE]
    /\ mgr' = "stop"
    /\ UNCHANGED <<cur, hits, task, power>>

(* The manager frees the object at address a: no task owns it any more. *)
Free(a) ==
    /\ obj' = [obj EXCEPT ![a] = Freed]
    /\ task' = [t \in Task |-> IF task[t].addr = a
                               THEN [task[t] EXCEPT !.own = FALSE] ELSE task[t]]

(* A fault: stop() does not wait for the game. *)
StopReturnsHurried ==
    /\ mgr = "stop"
    /\ Free(cur)
    /\ cur' = NoAddr
    /\ hits' = 0
    /\ mgr' = "new"
    /\ UNCHANGED <<queue, pending, power>>

(* The poll in stop() sees m_bIsRunning == false; the destructor calls     *)
(* stop() once more, which returns at once; then the object is freed.      *)
StopReturns ==
    /\ mgr = "stop"
    /\ obj[cur].running = FALSE
    /\ Free(cur)
    /\ cur' = NoAddr
    /\ hits' = 0
    /\ mgr' = "new"
    /\ UNCHANGED <<queue, pending, power>>

(* switchEpic when there is no current game. *)
SwitchIdle ==
    /\ mgr = "recv" /\ queue # <<>>
    /\ Head(queue).key = "SWITCH_EPIC"
    /\ cur = NoAddr
    /\ queue' = Tail(queue)
    /\ pending' = Head(queue).val
    /\ hits' = 0
    /\ mgr' = "new"
    /\ UNCHANGED <<cur, obj, task, power>>

(* A game object as the constructor and start() leave it. *)
Started(k, fails) ==
    [live |-> TRUE, kind |-> k, running |-> TRUE, stopFlag |-> FALSE,
     taskless |-> fails]

(* The task that start() creates for the object at address a. *)
NewTask(a) == [pc |-> "entry", kind |-> pending, addr |-> a, own |-> TRUE]

(* new EpicXxx() at an address the heap has free, and its start():         *)
(* m_bIsRunning is set before xTaskCreate, whose result is ignored.        *)
StartEpic ==
    /\ mgr = "new"
    /\ \E a \in {b \in Addr : ~obj[b].live}, fails \in BOOLEAN :
         /\ obj' = [obj EXCEPT ![a] = Started(pending, fails)]
         /\ cur' = a
         /\ IF fails THEN CreateCanFail /\ task' = task
                     ELSE \E t \in {u \in Task : task[u].pc = "idle"} :
                              task' = [task EXCEPT ![t] = NewTask(a)]
    /\ mgr' = "recv"
    /\ UNCHANGED <<queue, pending, hits, power>>

(* informHitTarget counts hits by the turret's own code only, whatever     *)
(* game is current.                                                        *)
InformHitTarget ==
    /\ mgr = "recv" /\ queue # <<>>
    /\ Head(queue).key = "BESHOT_INFORM"
    /\ queue' = Tail(queue)
    /\ hits' = IF Head(queue).val = "IRM_CODE" THEN (hits + 1) % HitMod ELSE hits
    /\ UNCHANGED <<mgr, pending, cur, obj, task, power>>

IsStopped(a) == obj[a].stopFlag = TRUE /\ obj[a].running = FALSE

(* A fault: the condition is inverted. *)
ReapRunning ==
    /\ mgr = "recv" /\ queue = <<>>
    /\ cur # NoAddr /\ ~IsStopped(cur)
    /\ Free(cur)
    /\ cur' = NoAddr
    /\ UNCHANGED <<queue, mgr, pending, hits, power>>

(* xQueueReceive times out after 200 ms: a game that has ended is freed. *)
ReapStopped ==
    /\ mgr = "recv" /\ queue = <<>>
    /\ cur # NoAddr /\ IsStopped(cur)
    /\ Free(cur)
    /\ cur' = NoAddr
    /\ UNCHANGED <<queue, mgr, pending, hits, power>>

Manager == \/ SwitchSame \/ SwitchStop \/ StopReturns \/ SwitchIdle
           \/ StartEpic \/ InformHitTarget \/ ReapStopped

-----------------------------------------------------------------------------
(* Faults: games forget m_bIsRunning = false; every game has the tail of   *)
(* DOUBLESHOT.                                                             *)
FirstOfTailNoClear(k) == IF k = "RANDOMSHOOT" THEN "raise" ELSE "mark"

NextOfTailOfDoubleShot(k, pc) ==
    CASE pc = "clear" -> IF k = "SINGLESHOT" THEN "idle" ELSE "raise"
      [] pc = "raise" -> "cut"
      [] OTHER        -> "idle"

(* A game task.  Its tail, after the game loop, differs from game to game: *)
(*   SINGLESHOT               clear                                        *)
(*   DOUBLESHOT               clear, raise, cut                            *)
(*   EIGHTSHOT TMLIMIT ADVATTACK   clear, mark                             *)
(*   RANDOMSHOOT              raise, cut, clear, mark                      *)
(* where clear is m_bIsRunning = false, mark is m_bStopFlag = true, raise  *)
(* is TargetServo::setUp() and cut is TargetServo::stop(); the task        *)
(* deletes itself after the last one.                                      *)
FirstOfTail(k) == IF k = "RANDOMSHOOT" THEN "raise" ELSE "clear"

NextOfTail(k, pc) ==
    CASE pc = "raise" -> "cut"
      [] pc = "cut"   -> IF k = "RANDOMSHOOT" THEN "clear" ELSE "idle"
      [] pc = "clear" -> IF k = "SINGLESHOT" THEN "idle"
                         ELSE IF k = "DOUBLESHOT" THEN "raise" ELSE "mark"
      [] OTHER        -> "idle"

Goto(t, pc) == task' = [task EXCEPT ![t] =
                           IF pc = "idle" THEN Idle ELSE [@ EXCEPT !.pc = pc]]

(* A store through the task's handle; it is lost when the memory is free,  *)
(* and hits another game's object when the address has been given out anew.*)
Store(t, o) == obj' = IF obj[task[t].addr].live
                      THEN [obj EXCEPT ![task[t].addr] = o] ELSE obj

(* The common head of every proc(): m_bIsRunning = true (again), reset the *)
(* laser queue, announce the game.                                         *)
EnterGame(t) ==
    /\ task[t].pc = "entry"
    /\ Store(t, [obj[task[t].addr] EXCEPT !.running = TRUE])
    /\ Goto(t, "play")
    /\ UNCHANGED <<queue, mgr, pending, cur, hits, power>>

(* The loop test reads m_bStopFlag == false, and this round is to put the  *)
(* target down; stop() may raise the flag before it does.                  *)
SeeShot(t) ==
    /\ task[t].pc = "play" /\ task[t].kind \in ServoKinds
    /\ obj[task[t].addr].stopFlag = FALSE
    /\ Goto(t, "shot")
    /\ UNCHANGED <<queue, mgr, pending, cur, hits, obj, power>>

(* ... the target goes down: setDown() powers the servo ... *)
LowerTarget(t) ==
    /\ task[t].pc = "shot"
    /\ power' = TRUE
    /\ Goto(t, "down")
    /\ UNCHANGED <<queue, mgr, pending, cur, hits, obj>>

(* ... and up again. *)
RaiseTarget(t) ==
    /\ task[t].pc = "down"
    /\ power' = TRUE
    /\ Goto(t, "play")
    /\ UNCHANGED <<queue, mgr, pending, cur, hits, obj>>

(* RANDOMSHOOT looks at its loop condition with the target down as well. *)
AtLoopTest(t) == \/ task[t].pc = "play"
                 \/ task[t].pc = "down" /\ task[t].kind = "RANDOMSHOOT"

(* The loop test reads m_bStopFlag == true. *)
SeeStopFlag(t) ==
    /\ AtLoopTest(t)
    /\ obj[task[t].addr].stopFlag = TRUE
    /\ Goto(t, FirstOfTail(task[t].kind))
    /\ UNCHANGED <<queue, mgr, pending, cur, hits, obj, power>>

(* The game is over: eight shots, 15 rounds, ten cases or 60 seconds. *)
GameOver(t) ==
    /\ AtLoopTest(t) /\ task[t].kind \in EndingKinds
    /\ Goto(t, FirstOfTail(task[t].kind))
    /\ UNCHANGED <<queue, mgr, pending, cur, hits, obj, power>>

TailRaise(t) ==
    /\ task[t].pc = "raise"
    /\ power' = TRUE
    /\ Goto(t, NextOfTail(task[t].kind, "raise"))
    /\ UNCHANGED <<queue, mgr, pending, cur, hits, obj>>

(* TargetServo::stop() waits up to 1 s after the last move, then cuts. *)
TailCut(t) ==
    /\ task[t].pc = "cut"
    /\ power' = FALSE
    /\ Goto(t, NextOfTail(task[t].kind, "cut"))
    /\ UNCHANGED <<queue, mgr, pending, cur, hits, obj>>

TailClear(t) ==
    /\ task[t].pc = "clear"
    /\ Store(t, [obj[task[t].addr] EXCEPT !.running = FALSE])
    /\ Goto(t, NextOfTail(task[t].kind, "clear"))
    /\ UNCHANGED <<queue, mgr, pending, cur, hits, power>>

TailMark(t) ==
    /\ task[t].pc = "mark"
    /\ Store(t, [obj[task[t].addr] EXCEPT !.stopFlag = TRUE])
    /\ Goto(t, NextOfTail(task[t].kind, "mark"))
    /\ UNCHANGED <<queue, mgr, pending, cur, hits, power>>

TailStep(t) == TailRaise(t) \/ TailCut(t) \/ TailClear(t) \/ TailMark(t)

GameTask(t) == \/ EnterGame(t) \/ SeeShot(t) \/ LowerTarget(t) \/ RaiseTarget(t)
               \/ SeeStopFlag(t) \/ GameOver(t) \/ TailStep(t)

Next == \/ \E c \in Command : SendCmd(c)
        \/ Manager
        \/ \E t \in Task : GameTask(t)

(* The main task and the game tasks are always scheduled; players, hits    *)
(* and voice commands come when they like; EIGHTSHOT waits for its shots   *)
(* for ever, the other ending games have a clock.                          *)
Fairness ==
    /\ WF_vars(Manager)
    /\ \A t \in Task :
         /\ WF_vars(EnterGame(t) \/ LowerTarget(t) \/ RaiseTarget(t)
                       \/ SeeStopFlag(t) \/ TailStep(t))
         /\ WF_vars(GameOver(t) /\ task[t].kind \in TimedKinds)

Spec     == Init /\ [][Next]_vars
FairSpec == Spec /\ Fairness
-----------------------------------------------------------------------------
(* The task is between its creation and m_bIsRunning = false. *)
OnStage(t) == \/ task[t].pc \in {"entry", "play", "shot", "down", "clear"}
              \/ task[t].kind = "RANDOMSHOOT" /\ task[t].pc \in {"raise", "cut"}

(* At most one game task is in its game: laser receiver, display, LEDs and *)
(* servo are never driven by two games, however a switch, the end of the   *)
(* old game and its reaping interleave.                                    *)
OneGameAtATime == \A t, u \in Task : OnStage(t) /\ OnStage(u) => t = u

(* What stop() relies on: a live object has m_bIsRunning set while its     *)
(* own task is in the game, and only then.  An object whose own            *)
(* xTaskCreate failed is the one exception: nobody clears its flag, and    *)
(* stop() waits for ever.                                                  *)
RunningFlagIsTruthful ==
    \A a \in Addr : obj[a].live =>
        LET played == \E t \in Task : OnStage(t) /\ task[t].own /\ task[t].addr = a
        IN  /\ played => obj[a].running
            /\ obj[a].running => played \/ obj[a].taskless

(* A game task whose object has been freed has left its game: freed (or    *)
(* reused) memory is touched at most by the last m_bStopFlag = true.       *)
StaleHandleOnlyInTail ==
    \A t \in Task : OnStage(t) => task[t].own /\ task[t].addr = cur

(* Every live object is m_curEpic: a switch or a reap leaks no game.       *)
OnlyCurrentIsLive == \A a \in Addr : obj[a].live <=> a = cur

(* The servo loses its power under a lowered target only by the tail that  *)
(* DOUBLESHOT runs after it has reported its end.                          *)
CutByDoubleShot ==
    power /\ ~power' /\ (\E t \in Task : task[t].pc = "down")
        => \E u \in Task : /\ task[u].kind = "DOUBLESHOT"
                          /\ task[u].pc = "cut" /\ task'[u].pc # "cut"
ServoCutOnlyByDoubleShot == [][CutByDoubleShot]_vars

(* The score a game reads with getHitCount() is never reset under it. *)
HitsKept == (\E t \in Task : OnStage(t)) => hits' \in {hits, (hits + 1) % HitMod}
HitsKeptDuringGame == [][HitsKept]_vars

(* The game m_curEpic is on stage, played by the task made for it. *)
Played == \E t \in Task : OnStage(t) /\ task[t].own /\ task[t].addr = cur

(* The wait in stop() ends and the game asked for is started, unless the   *)
(* task of the game to be stopped could not be created: its flag is never  *)
(* cleared.                                                                *)
SwitchCompletes == (mgr = "stop" /\ ~obj[cur].taskless) ~> (mgr = "recv")

(* A game that has ended by itself is freed, unless commands keep coming.  *)
EndedGameIsReaped ==
    (cur # NoAddr /\ IsStopped(cur)) ~> (cur = NoAddr \/ queue # <<>>)

(* What a command in the queue asks EpicSession for. *)
Request(c) == IF c.key = "SWITCH_EPIC" THEN c.val ELSE "HIT"
RequestsOf(q) == [i \in 1 .. Len(q) |-> Request(q[i])]

(* The accepted requests: the switch in progress, then the queue. *)
Requests == (IF mgr = "recv" THEN <<>> ELSE <<pending>>) \o RequestsOf(queue)
Selected == IF cur = NoAddr THEN NoKind ELSE obj[cur].kind
IsDud    == mgr # "new" /\ cur # NoAddr /\ obj[cur].running /\ ~Played

Session == INSTANCE EpicSession WITH
    None        <- NoKind,
    Other       <- "HIT",
    MaxRequests <- QueueLen + 1,
    requests    <- Requests,
    selected    <- Selected,
    onStage     <- \E t \in Task : OnStage(t),
    dud         <- IsDud

(* The manager and its game tasks implement EpicSession: in safety ...     *)
SessionSafety == Session!Spec
(* ... and, scheduled fairly, in answering every request.                  *)
ImplementsSession == Session!FairSpec
=============================================================================
