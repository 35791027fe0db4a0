---------------------------- MODULE EpicMgrProofs ----------------------------
(***************************************************************************)
(* Proofs about EpicMgr, for every number of tasks, addresses and games,   *)
(* any queue length, and with or without failing task creation.            *)
(***************************************************************************)
EXTENDS EpicMgr, SequenceTheorems, TLAPS

(* The heap has one object at most, the manager's; the manager has none    *)
(* while it is about to build one, and has one while it waits in stop().   *)
HeapInv ==
    /\ \A a \in Addr : obj[a].live <=> a = cur
    /\ mgr = "new" => cur = NoAddr
    /\ mgr = "stop" => cur # NoAddr

(* A task in its game plays the current, running object; an object that a  *)
(* task still owns is the current one.                                     *)
PlayInv ==
    \A t \in Task :
        /\ OnStage(t) => /\ task[t].own /\ task[t].addr = cur /\ cur # NoAddr
                         /\ obj[cur].running
        /\ task[t].own => task[t].addr = cur /\ cur # NoAddr

(* A running object that no task plays is one whose xTaskCreate failed. *)
PlayedInv ==
    cur # NoAddr /\ obj[cur].running
        => obj[cur].taskless \/ \E t \in Task : OnStage(t)

(* Only two games touch the servo after their loop. *)
TailInv ==
    \A t \in Task : task[t].pc \in {"raise", "cut"}
                       => task[t].kind \in {"DOUBLESHOT", "RANDOMSHOOT"}

IInv == TypeOK /\ HeapInv /\ PlayInv /\ OneGameAtATime /\ PlayedInv /\ TailInv

-----------------------------------------------------------------------------
(* The step of a tail is one of the program counters of the model. *)
LEMMA NextOfTailType ==
    ASSUME NEW k, NEW pc
    PROVE  NextOfTail(k, pc) \in {"cut", "clear", "idle", "raise", "mark"}
  BY DEF NextOfTail

LEMMA FirstOfTailType ==
    ASSUME NEW k
    PROVE  FirstOfTail(k) \in {"raise", "clear"}
  BY DEF FirstOfTail

(* The records of the model stay within their types. *)
LEMMA GotoType ==
    ASSUME TypeOK, NEW t \in Task, NEW pc \in PCs, Goto(t, pc)
    PROVE  task' \in [Task -> TaskState]
  BY DEF Goto, TypeOK, TaskState, Idle

LEMMA HeapType ==
    ASSUME TypeOK
    PROVE  /\ Freed \in Object
           /\ \A fails \in BOOLEAN : Started(pending, fails) \in Object
           /\ \A a \in Addr, b \in BOOLEAN :
                 /\ [obj[a] EXCEPT !.running = b] \in Object
                 /\ [obj[a] EXCEPT !.stopFlag = b] \in Object
  BY DEF TypeOK, Object, Freed, Started

LEMMA FreeType ==
    ASSUME TypeOK, NEW a, Free(a)
    PROVE  obj' \in [Addr -> Object] /\ task' \in [Task -> TaskState]
  <1>1. obj' \in [Addr -> Object]
    BY HeapType DEF Free, TypeOK
  <1>2. \A t \in Task : [task[t] EXCEPT !.own = FALSE] \in TaskState
    BY DEF TypeOK, TaskState
  <1>3. task' \in [Task -> TaskState]
    BY <1>2 DEF Free, TypeOK
  <1> QED BY <1>1, <1>3

(* A store through a task's handle keeps the heap's type. *)
LEMMA StoreType ==
    ASSUME TypeOK, NEW t \in Task, NEW o, Store(t, o),
           task[t].addr \in Addr => o \in Object
    PROVE  obj' \in [Addr -> Object]
  BY DEF Store, TypeOK

(* Every step of a game task keeps the types. *)
LEMMA GameTaskType ==
    ASSUME TypeOK, NEW t \in Task, GameTask(t)
    PROVE  TypeOK'
  <1>1. CASE EnterGame(t)
    <2>1. obj' \in [Addr -> Object]
      BY <1>1, StoreType, HeapType DEF EnterGame
    <2>2. task' \in [Task -> TaskState]
      BY <1>1, GotoType DEF EnterGame, PCs
    <2> QED BY <1>1, <2>1, <2>2 DEF EnterGame, TypeOK
  <1>2. CASE SeeShot(t) \/ LowerTarget(t)
    BY <1>2, GotoType DEF SeeShot, LowerTarget, PCs, TypeOK
  <1>3. CASE RaiseTarget(t)
    BY <1>3, GotoType DEF RaiseTarget, PCs, TypeOK
  <1>4. CASE SeeStopFlag(t)
    BY <1>4, GotoType, FirstOfTailType DEF SeeStopFlag, PCs, TypeOK
  <1>5. CASE GameOver(t)
    BY <1>5, GotoType, FirstOfTailType DEF GameOver, PCs, TypeOK
  <1>6. CASE TailRaise(t)
    BY <1>6, GotoType, NextOfTailType DEF TailRaise, PCs, TypeOK
  <1>7. CASE TailCut(t)
    BY <1>7, GotoType, NextOfTailType DEF TailCut, PCs, TypeOK
  <1>8. CASE TailClear(t)
    <2>1. obj' \in [Addr -> Object]
      BY <1>8, StoreType, HeapType DEF TailClear
    <2>2. task' \in [Task -> TaskState]
      BY <1>8, GotoType, NextOfTailType DEF TailClear, PCs
    <2> QED BY <1>8, <2>1, <2>2 DEF TailClear, TypeOK
  <1>9. CASE TailMark(t)
    <2>1. obj' \in [Addr -> Object]
      BY <1>9, StoreType, HeapType DEF TailMark
    <2>2. task' \in [Task -> TaskState]
      BY <1>9, GotoType, NextOfTailType DEF TailMark, PCs
    <2> QED BY <1>9, <2>1, <2>2 DEF TailMark, TypeOK
  <1> QED
    BY <1>1, <1>2, <1>3, <1>4, <1>5, <1>6, <1>7, <1>8, <1>9 DEF GameTask, TailStep

(* Every step keeps the types. *)
LEMMA TypeStep == TypeOK /\ [Next]_vars => TypeOK'
  <1> SUFFICES ASSUME TypeOK, [Next]_vars PROVE TypeOK'
    OBVIOUS
  <1>1. ASSUME NEW c \in Command, SendCmd(c) PROVE TypeOK'
    BY <1>1, EpicMgrAssumption DEF SendCmd, TypeOK
  <1>2. CASE SwitchSame
    BY <1>2, EpicMgrAssumption DEF SwitchSame, TypeOK
  <1>3. CASE SwitchStop
    <2>1. Head(queue) \in Command /\ Head(queue).val \in Kind
      BY <1>3 DEF SwitchStop, TypeOK, Command
    <2>2. [obj[cur] EXCEPT !.stopFlag = TRUE] \in Object
      BY <1>3, HeapType DEF SwitchStop, TypeOK
    <2> QED
      BY <1>3, <2>1, <2>2, EpicMgrAssumption DEF SwitchStop, TypeOK
  <1>4. CASE StopReturns
    BY <1>4, FreeType, EpicMgrAssumption DEF StopReturns, TypeOK
  <1>5. CASE SwitchIdle
    <2>1. Head(queue) \in Command /\ Head(queue).val \in Kind
      BY <1>5 DEF SwitchIdle, TypeOK, Command
    <2> QED
      BY <1>5, <2>1, EpicMgrAssumption DEF SwitchIdle, TypeOK
  <1>6. CASE StartEpic
    <2>1. PICK a \in Addr, fails \in BOOLEAN :
             /\ obj' = [obj EXCEPT ![a] = Started(pending, fails)]
             /\ cur' = a
             /\ \/ \E t \in Task : task' = [task EXCEPT ![t] = NewTask(a)]
                \/ task' = task
      BY <1>6 DEF StartEpic
    <2>2. NewTask(a) \in TaskState
      BY DEF TypeOK, NewTask, TaskState, PCs
    <2>3. obj' \in [Addr -> Object]
      BY <2>1, HeapType DEF TypeOK
    <2>4. task' \in [Task -> TaskState]
      BY <2>1, <2>2 DEF TypeOK
    <2> QED
      BY <1>6, <2>1, <2>3, <2>4 DEF StartEpic, TypeOK
  <1>7. CASE InformHitTarget
    BY <1>7, EpicMgrAssumption DEF InformHitTarget, TypeOK
  <1>8. CASE ReapStopped
    BY <1>8, FreeType, EpicMgrAssumption DEF ReapStopped, TypeOK
  <1>9. ASSUME NEW t \in Task, GameTask(t) PROVE TypeOK'
    BY <1>9, GameTaskType
  <1>10. CASE UNCHANGED vars
    BY <1>10 DEF vars, TypeOK
  <1> QED
    BY <1>1, <1>2, <1>3, <1>4, <1>5, <1>6, <1>7, <1>8, <1>9, <1>10 DEF Next, Manager

-----------------------------------------------------------------------------
(* The invariant without the types. *)
Shape == HeapInv /\ PlayInv /\ OneGameAtATime /\ PlayedInv /\ TailInv

(* A step that leaves the heap, the tasks and the manager's place alone.   *)
LEMMA ShapeUnchanged ==
    ASSUME Shape, UNCHANGED <<mgr, cur, obj, task>>
    PROVE  Shape'
  BY DEF Shape, HeapInv, PlayInv, OneGameAtATime, PlayedInv, TailInv, OnStage

(* The manager asks the current game to stop. *)
LEMMA ShapeSwitchStop ==
    ASSUME TypeOK, Shape, SwitchStop
    PROVE  Shape'
  <1>1. /\ \A a \in Addr : /\ obj'[a].live = obj[a].live
                            /\ obj'[a].running = obj[a].running
                            /\ obj'[a].taskless = obj[a].taskless
        /\ cur' = cur /\ cur \in Addr /\ task' = task /\ mgr' = "stop"
    BY EpicMgrAssumption DEF SwitchStop, TypeOK, Object
  <1> QED
    BY <1>1, EpicMgrAssumption DEF Shape, HeapInv, PlayInv, OneGameAtATime, PlayedInv, TailInv, OnStage

(* An object is freed only when no task plays: in stop() because the flag  *)
(* is read as false, in a reap because isStopped() demands it.             *)
LEMMA ShapeFree ==
    ASSUME TypeOK, Shape, cur \in Addr, obj[cur].running = FALSE, Free(cur),
           cur' = NoAddr, mgr' \in {"recv", "new"}
    PROVE  Shape'
  <1>1. \A t \in Task : ~OnStage(t)
    BY DEF Shape, PlayInv
  <1>2. \A t \in Task : /\ task'[t].pc = task[t].pc
                        /\ task'[t].kind = task[t].kind
                        /\ task'[t].own = FALSE
    <2> SUFFICES ASSUME NEW t \in Task
                 PROVE  /\ task'[t].pc = task[t].pc
                        /\ task'[t].kind = task[t].kind
                        /\ task'[t].own = FALSE
      OBVIOUS
    <2>1. task'[t] = IF task[t].addr = cur THEN [task[t] EXCEPT !.own = FALSE] ELSE task[t]
      BY DEF Free
    <2>2. task[t] \in TaskState
      BY DEF TypeOK
    <2>3. task[t].addr # cur => task[t].own = FALSE
      BY <2>2 DEF Shape, PlayInv, TaskState
    <2> QED BY <2>1, <2>2, <2>3 DEF TaskState
  <1>3. \A t \in Task : ~OnStage(t)'
    BY <1>1, <1>2 DEF OnStage
  <1>4. \A a \in Addr : obj'[a].live = FALSE
    BY DEF Free, TypeOK, Shape, HeapInv, Freed, Object
  <1>5. HeapInv'
    BY <1>4, EpicMgrAssumption DEF HeapInv
  <1> QED
    BY <1>2, <1>3, <1>5 DEF Shape, PlayInv, OneGameAtATime, PlayedInv, TailInv

(* A game is started only when no other one is on stage. *)
LEMMA ShapeStart ==
    ASSUME TypeOK, Shape, StartEpic
    PROVE  Shape'
  <1>1. PICK a \in Addr, fails \in BOOLEAN :
           /\ ~obj[a].live
           /\ obj' = [obj EXCEPT ![a] = Started(pending, fails)]
           /\ cur' = a
           /\ \/ \E t \in {u \in Task : task[u].pc = "idle"} :
                   task' = [task EXCEPT ![t] = NewTask(a)]
              \/ fails /\ task' = task
    BY DEF StartEpic
  <1>2. cur = NoAddr /\ mgr' = "recv"
    BY DEF StartEpic, Shape, HeapInv
  <1>3. \A t \in Task : ~OnStage(t) /\ ~task[t].own
    BY <1>2 DEF Shape, PlayInv
  <1>4. /\ obj'[a].live /\ obj'[a].running /\ obj'[a].taskless = fails
        /\ \A b \in Addr : b # a => ~obj'[b].live
    BY <1>1, <1>2, EpicMgrAssumption DEF Started, TypeOK, Shape, HeapInv
  <1>5. HeapInv'
    BY <1>1, <1>2, <1>4 DEF HeapInv
  <1>6. CASE task' = task /\ fails
    BY <1>1, <1>3, <1>4, <1>5, <1>6 DEF Shape, PlayInv, OneGameAtATime, PlayedInv, TailInv, OnStage
  <1>7. ASSUME NEW t \in Task, task' = [task EXCEPT ![t] = NewTask(a)] PROVE Shape'
    <2>1. /\ task'[t] = NewTask(a)
          /\ \A u \in Task : u # t => task'[u] = task[u]
      BY <1>7 DEF TypeOK
    <2>2. OnStage(t)' /\ \A u \in Task : u # t => ~OnStage(u)' /\ ~task'[u].own
      BY <1>3, <2>1 DEF OnStage, NewTask
    <2>3. PlayInv'
      BY <1>1, <1>4, <2>1, <2>2, EpicMgrAssumption DEF PlayInv, NewTask
    <2>4. TailInv'
      BY <2>1 DEF Shape, TailInv, NewTask
    <2> QED
      BY <1>5, <2>2, <2>3, <2>4 DEF Shape, OneGameAtATime, PlayedInv
  <1> QED BY <1>1, <1>6, <1>7

(* What Goto does to the tasks. *)
LEMMA GotoEffect ==
    ASSUME TypeOK, NEW t \in Task, NEW pc \in PCs, Goto(t, pc)
    PROVE  /\ \A u \in Task : u # t => task'[u] = task[u]
           /\ pc = "idle" => task'[t] = Idle
           /\ pc # "idle" => /\ task'[t].pc = pc
                             /\ task'[t].kind = task[t].kind
                             /\ task'[t].addr = task[t].addr
                             /\ task'[t].own = task[t].own
  BY DEF Goto, TypeOK, TaskState

(* A step of a game task that leaves the running flags alone, moves the    *)
(* task within its game, or within a tail that nobody else's game is in.   *)
LEMMA ShapeMove ==
    ASSUME TypeOK, Shape, NEW t \in Task, NEW pc \in PCs, Goto(t, pc),
           \A a \in Addr : /\ obj'[a].live = obj[a].live
                           /\ obj'[a].running = obj[a].running
                           /\ obj'[a].taskless = obj[a].taskless,
           UNCHANGED <<mgr, cur>>,
           OnStage(t)' <=> OnStage(t),
           pc \in {"raise", "cut"} => task[t].kind \in {"DOUBLESHOT", "RANDOMSHOOT"}
    PROVE  Shape'
  <1>1. \A u \in Task : OnStage(u)' <=> OnStage(u)
    BY GotoEffect DEF OnStage
  <1>2. \A u \in Task : task'[u].own => task[u].own /\ task'[u].addr = task[u].addr
    BY GotoEffect DEF Idle
  <1>3. \A u \in Task : OnStage(u) => task'[u].own /\ task'[u].addr = cur
    BY <1>1, GotoEffect DEF Shape, PlayInv, Idle, OnStage
  <1>4. cur # NoAddr => cur \in Addr
    BY DEF TypeOK
  <1>5. PlayInv'
    BY <1>1, <1>2, <1>3, <1>4 DEF Shape, PlayInv
  <1>6. TailInv'
    <2>1. CASE pc = "idle"
      BY <2>1, GotoEffect DEF Shape, TailInv, Idle
    <2>2. CASE pc # "idle"
      BY <2>2, GotoEffect DEF Shape, TailInv
    <2> QED BY <2>1, <2>2
  <1>7. PlayedInv'
    BY <1>1, <1>4 DEF Shape, PlayedInv
  <1>8. HeapInv'
    BY DEF Shape, HeapInv
  <1> QED
    BY <1>1, <1>5, <1>6, <1>7, <1>8 DEF Shape, OneGameAtATime

(* A task that clears m_bIsRunning clears its own, current object's, and   *)
(* leaves the stage with it.                                               *)
LEMMA ShapeClear ==
    ASSUME TypeOK, Shape, NEW t \in Task, TailClear(t)
    PROVE  Shape'
  <1> DEFINE pc == NextOfTail(task[t].kind, "clear")
  <1>1. OnStage(t) /\ task[t].own /\ task[t].addr = cur /\ cur \in Addr
    BY DEF TailClear, OnStage, Shape, PlayInv, TypeOK
  <1>2. obj' = [obj EXCEPT ![cur] = [obj[cur] EXCEPT !.running = FALSE]]
    BY <1>1 DEF TailClear, Store, Shape, HeapInv
  <1>3. /\ obj'[cur].running = FALSE
        /\ \A a \in Addr : obj'[a].live = obj[a].live
    BY <1>1, <1>2 DEF TypeOK, Object
  <1>4. /\ pc \in {"idle", "raise", "mark"}
        /\ pc = "raise" => task[t].kind = "DOUBLESHOT"
    BY DEF NextOfTail
  <1>5. Goto(t, pc) /\ pc \in PCs
    BY <1>4 DEF TailClear, PCs
  <1>6. ~OnStage(t)' /\ \A u \in Task : u # t => ~OnStage(u)'
    <2>1. \A u \in Task : u # t => ~OnStage(u)
      BY <1>1 DEF Shape, OneGameAtATime
    <2>2. \A u \in Task : u # t => ~OnStage(u)'
      BY <2>1, <1>5, GotoEffect DEF OnStage
    <2>3. ~OnStage(t)'
      BY <1>4, <1>5, GotoEffect DEF OnStage, Idle
    <2> QED BY <2>2, <2>3
  <1>7. \A u \in Task : task'[u].own => task[u].own /\ task'[u].addr = task[u].addr
    BY <1>5, GotoEffect DEF Idle
  <1>8. UNCHANGED <<mgr, cur>>
    BY DEF TailClear
  <1>9. PlayInv'
    BY <1>6, <1>7, <1>8 DEF Shape, PlayInv
  <1>10. TailInv'
    <2>1. CASE pc = "idle"
      BY <2>1, <1>5, GotoEffect DEF Shape, TailInv, Idle
    <2>2. CASE pc # "idle"
      BY <2>2, <1>4, <1>5, GotoEffect DEF Shape, TailInv
    <2> QED BY <2>1, <2>2
  <1> QED
    BY <1>3, <1>6, <1>8, <1>9, <1>10 DEF Shape, HeapInv, OneGameAtATime, PlayedInv

(* A store of m_bIsRunning = true at the head of a game changes nothing,   *)
(* and a store of m_bStopFlag never touches a running flag.                *)
LEMMA StoreEffect ==
    ASSUME TypeOK, NEW t \in Task,
           \/ Store(t, [obj[task[t].addr] EXCEPT !.stopFlag = TRUE])
           \/ /\ Store(t, [obj[task[t].addr] EXCEPT !.running = TRUE])
              /\ obj[task[t].addr].running
    PROVE  \A a \in Addr : /\ obj'[a].live = obj[a].live
                           /\ obj'[a].running = obj[a].running
                           /\ obj'[a].taskless = obj[a].taskless
  <1> DEFINE h == task[t].addr
  <1>1. \A a \in Addr : obj[a] \in Object
    BY DEF TypeOK
  <1>2. CASE Store(t, [obj[h] EXCEPT !.stopFlag = TRUE])
    BY <1>1, <1>2 DEF Store, TypeOK, Object
  <1>3. CASE Store(t, [obj[h] EXCEPT !.running = TRUE]) /\ obj[h].running
    <2> SUFFICES ASSUME NEW a \in Addr
                 PROVE  /\ obj'[a].live = obj[a].live
                        /\ obj'[a].running = obj[a].running
                        /\ obj'[a].taskless = obj[a].taskless
      OBVIOUS
    <2>1. CASE a = h
      <3>1. obj[a].running = TRUE
        BY <1>1, <1>3, <2>1 DEF Object
      <3> QED BY <1>1, <1>3, <2>1, <3>1 DEF Store, TypeOK, Object
    <2>2. CASE a # h
      BY <1>3, <2>2 DEF Store, TypeOK
    <2> QED BY <2>1, <2>2
  <1> QED BY <1>2, <1>3

LEMMA ShapeGameTask ==
    ASSUME TypeOK, Shape, NEW t \in Task, GameTask(t)
    PROVE  Shape'
  <1>1. CASE EnterGame(t)
    <2>1. OnStage(t) /\ obj[task[t].addr].running
      BY <1>1 DEF EnterGame, OnStage, Shape, PlayInv
    <2>2. OnStage(t)'
      BY <1>1, GotoEffect DEF EnterGame, OnStage, PCs
    <2> QED BY <1>1, <2>1, <2>2, StoreEffect, ShapeMove DEF EnterGame, PCs
  <1>2. CASE SeeShot(t) \/ LowerTarget(t)
    <2>1. OnStage(t) /\ OnStage(t)'
      BY <1>2, GotoEffect DEF SeeShot, LowerTarget, OnStage, PCs
    <2> QED BY <1>2, <2>1, ShapeMove DEF SeeShot, LowerTarget, PCs
  <1>3. CASE RaiseTarget(t)
    <2>1. OnStage(t) /\ OnStage(t)'
      BY <1>3, GotoEffect DEF RaiseTarget, OnStage, PCs
    <2> QED BY <1>3, <2>1, ShapeMove DEF RaiseTarget, PCs
  <1>4. CASE SeeStopFlag(t) \/ GameOver(t)
    <2> DEFINE pc == FirstOfTail(task[t].kind)
    <2>1. /\ Goto(t, pc) /\ pc \in PCs
          /\ UNCHANGED <<mgr, cur, obj>>
          /\ task[t].pc \in {"play", "down"}
      BY <1>4, FirstOfTailType DEF SeeStopFlag, GameOver, AtLoopTest, PCs
    <2>2. OnStage(t) /\ OnStage(t)'
      BY <2>1, GotoEffect, FirstOfTailType DEF OnStage, FirstOfTail
    <2>3. pc \in {"raise", "cut"} => task[t].kind \in {"DOUBLESHOT", "RANDOMSHOOT"}
      BY DEF FirstOfTail
    <2> QED BY <2>1, <2>2, <2>3, ShapeMove
  <1>5. CASE TailRaise(t)
    <2>1. Goto(t, "cut") /\ task[t].kind \in {"DOUBLESHOT", "RANDOMSHOOT"}
      BY <1>5 DEF TailRaise, NextOfTail, Shape, TailInv
    <2>2. OnStage(t)' <=> OnStage(t)
      BY <1>5, <2>1, GotoEffect DEF TailRaise, OnStage, PCs
    <2> QED BY <1>5, <2>1, <2>2, ShapeMove DEF TailRaise, PCs
  <1>6. CASE TailCut(t)
    <2> DEFINE pc == NextOfTail(task[t].kind, "cut")
    <2>1. /\ Goto(t, pc) /\ task[t].kind \in {"DOUBLESHOT", "RANDOMSHOOT"}
          /\ pc = (IF task[t].kind = "RANDOMSHOOT" THEN "clear" ELSE "idle")
      BY <1>6 DEF TailCut, NextOfTail, Shape, TailInv
    <2>2. OnStage(t)' <=> OnStage(t)
      BY <1>6, <2>1, GotoEffect DEF TailCut, OnStage, PCs, Idle
    <2> QED BY <1>6, <2>1, <2>2, ShapeMove DEF TailCut, PCs
  <1>7. CASE TailClear(t)
    BY <1>7, ShapeClear
  <1>8. CASE TailMark(t)
    <2>1. Goto(t, "idle")
      BY <1>8 DEF TailMark, NextOfTail
    <2>2. ~OnStage(t) /\ ~OnStage(t)'
      BY <1>8, <2>1, GotoEffect DEF TailMark, OnStage, PCs, Idle
    <2> QED BY <1>8, <2>1, <2>2, StoreEffect, ShapeMove DEF TailMark, PCs
  <1> QED
    BY <1>1, <1>2, <1>3, <1>4, <1>5, <1>6, <1>7, <1>8 DEF GameTask, TailStep

LEMMA ShapeStep == TypeOK /\ Shape /\ [Next]_vars => Shape'
  <1> SUFFICES ASSUME TypeOK, Shape, [Next]_vars PROVE Shape'
    OBVIOUS
  <1>1. CASE (\E c \in Command : SendCmd(c)) \/ SwitchSame \/ InformHitTarget
             \/ UNCHANGED vars
    BY <1>1, ShapeUnchanged DEF SendCmd, SwitchSame, InformHitTarget, vars
  <1>2. CASE SwitchStop
    BY <1>2, ShapeSwitchStop
  <1>3. CASE StopReturns
    <2>1. cur \in Addr
      BY <1>3 DEF StopReturns, Shape, HeapInv, TypeOK
    <2> QED BY <1>3, <2>1, ShapeFree DEF StopReturns
  <1>4. CASE SwitchIdle
    BY <1>4 DEF SwitchIdle, Shape, HeapInv, PlayInv, OneGameAtATime, PlayedInv,
                TailInv, OnStage
  <1>5. CASE StartEpic
    BY <1>5, ShapeStart
  <1>6. CASE ReapStopped
    <2>1. cur \in Addr /\ mgr' = "recv" /\ obj[cur].running = FALSE
      BY <1>6 DEF ReapStopped, IsStopped, TypeOK
    <2> QED BY <1>6, <2>1, ShapeFree DEF ReapStopped
  <1>7. ASSUME NEW t \in Task, GameTask(t) PROVE Shape'
    BY <1>7, ShapeGameTask
  <1> QED
    BY <1>1, <1>2, <1>3, <1>4, <1>5, <1>6, <1>7 DEF Next, Manager

LEMMA InitIInv == Init => TypeOK /\ Shape
  <1> SUFFICES ASSUME Init PROVE TypeOK /\ Shape
    OBVIOUS
  <1>1. TypeOK
    <2>1. queue \in Seq(Command) /\ Len(queue) <= QueueLen
      BY EpicMgrAssumption DEF Init
    <2>2. hits \in 0 .. HitMod - 1
      BY EpicMgrAssumption DEF Init
    <2>3. Freed \in Object /\ Idle \in TaskState
      BY DEF Freed, Object, Idle, TaskState, PCs
    <2> QED BY <2>1, <2>2, <2>3, EpicMgrAssumption DEF Init, TypeOK
  <1>2. \A t \in Task : ~OnStage(t) /\ task[t].own = FALSE /\ task[t].pc = "idle"
    BY DEF Init, Idle, OnStage
  <1>3. HeapInv
    BY EpicMgrAssumption DEF Init, HeapInv, Freed
  <1> QED
    BY <1>1, <1>2, <1>3 DEF Init, Shape, PlayInv, OneGameAtATime, PlayedInv, TailInv

-----------------------------------------------------------------------------
(* Every variable keeps its type. *)
THEOREM TypeCorrect == Spec => []TypeOK
  <1>1. Init => TypeOK
    BY InitIInv
  <1> QED BY <1>1, TypeStep, PTL DEF Spec

(* The inductive invariant holds in every reachable state. *)
THEOREM Invariance == Spec => []IInv
  <1>1. Init => IInv
    BY InitIInv DEF IInv, Shape
  <1>2. IInv /\ [Next]_vars => IInv'
    BY TypeStep, ShapeStep DEF IInv, Shape
  <1> QED BY <1>1, <1>2, PTL DEF Spec

(* However switches, natural ends and reaps interleave, two games never    *)
(* play at the same time.                                                  *)
THEOREM MutualExclusion == Spec => []OneGameAtATime
  <1>1. IInv => OneGameAtATime
    BY DEF IInv
  <1> QED BY <1>1, Invariance, PTL

(* EpicMgr frees or reuses a game object only after its task has left the  *)
(* game: the only late accesses are those of the tails.                    *)
THEOREM NoStaleHandleInGame == Spec => []StaleHandleOnlyInTail
  <1>1. IInv => StaleHandleOnlyInTail
    BY DEF IInv, PlayInv, StaleHandleOnlyInTail
  <1> QED BY <1>1, Invariance, PTL

(* switchEpic and the reap never leak a game object. *)
THEOREM NoLeakedGame == Spec => []OnlyCurrentIsLive
  <1>1. IInv => OnlyCurrentIsLive
    BY DEF IInv, HeapInv, OnlyCurrentIsLive
  <1> QED BY <1>1, Invariance, PTL

(* m_bIsRunning tells stop() the truth about the game's task. *)
THEOREM RunningFlagSound == Spec => []RunningFlagIsTruthful
  <1>1. IInv => RunningFlagIsTruthful
    <2> SUFFICES ASSUME IInv, NEW a \in Addr, obj[a].live
                 PROVE  LET played == \E t \in Task : OnStage(t) /\ task[t].own /\ task[t].addr = a
                        IN  /\ played => obj[a].running
                            /\ obj[a].running => played \/ obj[a].taskless
      BY DEF RunningFlagIsTruthful
    <2>1. a = cur /\ cur # NoAddr
      BY EpicMgrAssumption DEF IInv, HeapInv
    <2>2. \A t \in Task : OnStage(t) => task[t].own /\ task[t].addr = a /\ obj[a].running
      BY <2>1 DEF IInv, PlayInv
    <2> QED BY <2>1, <2>2 DEF IInv, PlayedInv
  <1> QED BY <1>1, Invariance, PTL

(* A lowered target loses servo power only to DOUBLESHOT's late tail. *)
THEOREM ServoCut == Spec => ServoCutOnlyByDoubleShot
  <1>1. IInv /\ [Next]_vars => [CutByDoubleShot]_vars
    <2> SUFFICES ASSUME IInv, Next, power, ~power', NEW t \in Task, task[t].pc = "down"
                 PROVE  \E u \in Task : /\ task[u].kind = "DOUBLESHOT"
                                        /\ task[u].pc = "cut" /\ task'[u].pc # "cut"
      BY DEF vars, CutByDoubleShot
    <2>1. PICK u \in Task : TailCut(u)
      BY DEF Next, Manager, GameTask, TailStep, SendCmd, SwitchSame, SwitchStop, StopReturns,
             SwitchIdle, StartEpic, InformHitTarget, ReapStopped, EnterGame, SeeShot,
             LowerTarget, RaiseTarget, SeeStopFlag, GameOver, TailRaise, TailClear, TailMark
    <2>2. task[u].pc = "cut" /\ u # t
      BY <2>1 DEF TailCut
    <2>3. task[u].kind # "RANDOMSHOOT"
      BY <2>2 DEF IInv, OneGameAtATime, OnStage
    <2>4. task[u].kind = "DOUBLESHOT"
      BY <2>2, <2>3 DEF IInv, TailInv
    <2>5. TypeOK /\ Goto(u, "idle")
      BY <2>1, <2>4 DEF TailCut, NextOfTail, IInv
    <2>6. task'[u].pc # "cut"
      BY <2>5, GotoEffect DEF Idle, PCs
    <2> QED BY <2>2, <2>4, <2>6
  <1> QED BY <1>1, Invariance, PTL DEF Spec, ServoCutOnlyByDoubleShot

(* The hit counter is reset only while no game is on stage. *)
THEOREM ScoreKept == Spec => HitsKeptDuringGame
  <1>1. IInv /\ [Next]_vars => [HitsKept]_vars
    <2> SUFFICES ASSUME IInv, Next, NEW t \in Task, OnStage(t)
                 PROVE  hits' \in {hits, (hits + 1) % HitMod}
      BY DEF vars, HitsKept
    <2>1. cur # NoAddr /\ obj[cur].running
      BY DEF IInv, PlayInv
    <2> QED
      BY <2>1 DEF Next, Manager, GameTask, TailStep, SendCmd, SwitchSame, SwitchStop,
             StopReturns, SwitchIdle, StartEpic, InformHitTarget, ReapStopped, EnterGame,
             SeeShot, LowerTarget, RaiseTarget, SeeStopFlag, GameOver, TailRaise, TailCut, TailClear,
             TailMark
  <1> QED BY <1>1, Invariance, PTL DEF Spec, HitsKeptDuringGame

-----------------------------------------------------------------------------
(* Refinement: every behaviour of EpicMgr is one of EpicSession.           *)

(* The current object is a game, and while stop() waits another game than  *)
(* the one switchEpic is switching to.                                     *)
KindInv ==
    /\ cur # NoAddr => obj[cur].kind \in Kind
    /\ mgr = "stop" => obj[cur].kind # pending

Asked == Kind \cup {"HIT"}

(* What the mapped queue looks like. *)
LEMMA RequestsOfProperties ==
    ASSUME NEW q \in Seq(Command)
    PROVE  /\ RequestsOf(q) \in Seq(Asked)
           /\ Len(RequestsOf(q)) = Len(q)
           /\ \A i \in 1 .. Len(q) : RequestsOf(q)[i] = Request(q[i])
  <1>1. \A c \in Command : Request(c) \in Asked
    BY DEF Command, Request, Asked
  <1>2. Len(q) \in Nat /\ \A i \in 1 .. Len(q) : q[i] \in Command
    BY LenProperties, ElementOfSeq
  <1>3. RequestsOf(q) \in [1 .. Len(q) -> Asked]
    BY <1>1, <1>2 DEF RequestsOf
  <1>4. RequestsOf(q) \in Seq(Asked)
    BY <1>2, <1>3, SeqDef
  <1>5. Len(RequestsOf(q)) = Len(q)
    BY <1>2, <1>3, <1>4, LenProperties
  <1> QED BY <1>4, <1>5 DEF RequestsOf

LEMMA RequestsOfAppend ==
    ASSUME NEW q \in Seq(Command), NEW c \in Command
    PROVE  RequestsOf(Append(q, c)) = Append(RequestsOf(q), Request(c))
  <1> DEFINE l == RequestsOf(Append(q, c))
             r == Append(RequestsOf(q), Request(c))
  <1>1. /\ Append(q, c) \in Seq(Command)
        /\ Len(Append(q, c)) = Len(q) + 1
        /\ \A i \in 1 .. Len(q) : Append(q, c)[i] = q[i]
        /\ Append(q, c)[Len(q) + 1] = c
        /\ Len(q) \in Nat
    BY AppendProperties, LenProperties
  <1>2. Request(c) \in Asked
    BY DEF Command, Request, Asked
  <1>3. /\ RequestsOf(q) \in Seq(Asked) /\ Len(RequestsOf(q)) = Len(q)
        /\ \A i \in 1 .. Len(q) : RequestsOf(q)[i] = Request(q[i])
    BY RequestsOfProperties
  <1>4. /\ r \in Seq(Asked) /\ Len(r) = Len(q) + 1
        /\ \A i \in 1 .. Len(q) : r[i] = Request(q[i])
        /\ r[Len(q) + 1] = Request(c)
    BY <1>2, <1>3, AppendProperties
  <1>5. /\ l \in Seq(Asked) /\ Len(l) = Len(q) + 1
        /\ \A i \in 1 .. Len(q) + 1 : l[i] = Request(Append(q, c)[i])
    BY <1>1, RequestsOfProperties
  <1>6. \A i \in 1 .. Len(q) + 1 : l[i] = r[i]
    BY <1>1, <1>4, <1>5
  <1> HIDE DEF l, r
  <1>7. l = r
    BY <1>4, <1>5, <1>6, SeqEqual
  <1> QED BY <1>7 DEF l, r

LEMMA RequestsOfTail ==
    ASSUME NEW q \in Seq(Command), q # <<>>
    PROVE  /\ RequestsOf(q) # <<>>
           /\ Head(RequestsOf(q)) = Request(Head(q))
           /\ RequestsOf(Tail(q)) = Tail(RequestsOf(q))
  <1> DEFINE l == RequestsOf(Tail(q))
             r == Tail(RequestsOf(q))
  <1>1. /\ Tail(q) \in Seq(Command) /\ Len(Tail(q)) = Len(q) - 1
        /\ \A i \in 1 .. Len(q) - 1 : Tail(q)[i] = q[i + 1]
        /\ Len(q) \in Nat \ {0}
    BY HeadTailProperties, EmptySeq
  <1>2. /\ RequestsOf(q) \in Seq(Asked) /\ Len(RequestsOf(q)) = Len(q)
        /\ \A i \in 1 .. Len(q) : RequestsOf(q)[i] = Request(q[i])
    BY RequestsOfProperties
  <1>3. RequestsOf(q) # <<>>
    BY <1>1, <1>2, EmptySeq
  <1>4. Head(RequestsOf(q)) = Request(Head(q))
    BY <1>1, <1>2 DEF RequestsOf
  <1>5. /\ r \in Seq(Asked) /\ Len(r) = Len(q) - 1
        /\ \A i \in 1 .. Len(q) - 1 : r[i] = RequestsOf(q)[i + 1]
    BY <1>2, <1>3, HeadTailProperties
  <1>6. /\ l \in Seq(Asked) /\ Len(l) = Len(q) - 1
        /\ \A i \in 1 .. Len(q) - 1 : l[i] = Request(Tail(q)[i])
    BY <1>1, RequestsOfProperties
  <1>7. \A i \in 1 .. Len(q) - 1 : l[i] = r[i]
    BY <1>1, <1>2, <1>5, <1>6
  <1> HIDE DEF l, r
  <1>8. l = r
    BY <1>5, <1>6, <1>7, SeqEqual
  <1> QED BY <1>3, <1>4, <1>8 DEF l, r

(* While the manager switches, the switch in progress is the head. *)
LEMMA RequestsShape ==
    ASSUME TypeOK
    PROVE  /\ RequestsOf(queue) \in Seq(Asked)
           /\ mgr = "recv" => Requests = RequestsOf(queue)
           /\ mgr # "recv" => /\ Requests = <<pending>> \o RequestsOf(queue)
                              /\ Requests # <<>>
                              /\ Head(Requests) = pending
                              /\ Tail(Requests) = RequestsOf(queue)
           /\ Requests \in Seq(Asked)
           /\ Len(Requests) = Len(queue) + (IF mgr = "recv" THEN 0 ELSE 1)
  <1>1. queue \in Seq(Command) /\ pending \in Asked
    BY DEF TypeOK, Asked
  <1>2. RequestsOf(queue) \in Seq(Asked) /\ Len(RequestsOf(queue)) = Len(queue)
        /\ Len(queue) \in Nat
    BY <1>1, RequestsOfProperties, LenProperties
  <1>3. CASE mgr = "recv"
    BY <1>2, <1>3, ConcatEmptySeq DEF Requests
  <1>4. CASE mgr # "recv"
    <2> DEFINE s == RequestsOf(queue)
               r == <<pending>> \o s
    <2>1. <<pending>> \in Seq(Asked) /\ Len(<<pending>>) = 1
      BY <1>1
    <2>2. /\ r \in Seq(Asked) /\ Len(r) = 1 + Len(s)
          /\ \A i \in 1 .. 1 + Len(s) : r[i] = IF i <= 1 THEN <<pending>>[i] ELSE s[i - 1]
      BY <1>2, <2>1, ConcatProperties
    <2>3. r # <<>> /\ r[1] = pending
      BY <1>2, <2>2, EmptySeq
    <2>4. Head(r) = pending
      BY <2>2, <2>3
    <2>5. /\ Tail(r) \in Seq(Asked) /\ Len(Tail(r)) = Len(s)
          /\ \A i \in 1 .. Len(s) : Tail(r)[i] = r[i + 1]
      BY <1>2, <2>2, <2>3, HeadTailProperties
    <2>6. \A i \in 1 .. Len(s) : Tail(r)[i] = s[i]
      BY <1>2, <2>2, <2>5
    <2>7. Tail(r) = s
      <3> HIDE DEF r, s
      <3> QED BY <1>2, <2>5, <2>6, SeqEqual DEF s
    <2>8. Requests = r
      BY <1>4 DEF Requests
    <2>9. Len(Requests) = Len(queue) + 1
      BY <1>2, <2>2, <2>8
    <2> HIDE DEF r
    <2> QED BY <1>2, <1>4, <2>2, <2>3, <2>4, <2>7, <2>8, <2>9
  <1> QED BY <1>2, <1>3, <1>4

(* The refinement mapping, by name. *)
Staged == \E t \in Task : OnStage(t)
MapInv == IInv /\ KindInv

(* No step of a game task changes which game an object is. *)
LEMMA KindsKept ==
    ASSUME TypeOK, NEW t \in Task, GameTask(t)
    PROVE  \A a \in Addr : obj'[a].kind = obj[a].kind
  <1>1. \A a \in Addr : obj[a] \in Object
    BY DEF TypeOK
  <1>2. ASSUME NEW b \in BOOLEAN,
               \/ Store(t, [obj[task[t].addr] EXCEPT !.running = b])
               \/ Store(t, [obj[task[t].addr] EXCEPT !.stopFlag = b])
        PROVE  \A a \in Addr : obj'[a].kind = obj[a].kind
    BY <1>1, <1>2 DEF Store, TypeOK, Object
  <1>3. CASE EnterGame(t)
    BY <1>2, <1>3 DEF EnterGame
  <1>4. CASE TailClear(t)
    BY <1>2, <1>4 DEF TailClear
  <1>5. CASE TailMark(t)
    BY <1>2, <1>5 DEF TailMark
  <1>6. CASE obj' = obj
    BY <1>6
  <1> QED
    BY <1>3, <1>4, <1>5, <1>6 DEF GameTask, TailStep, SeeShot, LowerTarget, RaiseTarget,
       SeeStopFlag, GameOver, TailRaise, TailCut

LEMMA GameTaskFrame ==
    ASSUME NEW t \in Task, GameTask(t)
    PROVE  UNCHANGED <<queue, mgr, pending, cur>>
  BY DEF GameTask, TailStep, EnterGame, SeeShot, LowerTarget, RaiseTarget, SeeStopFlag,
         GameOver, TailRaise, TailCut, TailClear, TailMark

LEMMA KindStep ==
    ASSUME IInv, KindInv, [Next]_vars
    PROVE  KindInv'
  <1>1. CASE (\E c \in Command : SendCmd(c)) \/ SwitchSame \/ InformHitTarget
             \/ UNCHANGED vars
    BY <1>1 DEF SendCmd, SwitchSame, InformHitTarget, vars, KindInv
  <1>2. CASE SwitchStop
    BY <1>2 DEF SwitchStop, KindInv, IInv, TypeOK, Object
  <1>3. CASE StopReturns \/ SwitchIdle \/ ReapStopped
    BY <1>3 DEF StopReturns, SwitchIdle, ReapStopped, KindInv
  <1>4. CASE StartEpic
    BY <1>4 DEF StartEpic, Started, KindInv, IInv, TypeOK
  <1>5. ASSUME NEW t \in Task, GameTask(t) PROVE KindInv'
    <2>1. UNCHANGED <<mgr, pending, cur>> /\ \A a \in Addr : obj'[a].kind = obj[a].kind
      BY <1>5, KindsKept, GameTaskFrame DEF IInv
    <2>2. cur # NoAddr => cur \in Addr
      BY DEF IInv, TypeOK
    <2>3. mgr = "stop" => cur # NoAddr
      BY DEF IInv, HeapInv
    <2> QED BY <2>1, <2>2, <2>3 DEF KindInv
  <1> QED
    BY <1>1, <1>2, <1>3, <1>4, <1>5 DEF Next, Manager

(* A game on stage is always the current one's: the dud flag and the stage *)
(* are each other's complement while the current object runs.              *)
LEMMA DudIsUnstaged ==
    ASSUME IInv
    PROVE  /\ Played <=> Staged
           /\ IsDud <=> mgr # "new" /\ cur # NoAddr /\ obj[cur].running /\ ~Staged
  BY DEF IInv, PlayInv, Played, Staged, IsDud

LEMMA SendMaps ==
    ASSUME TypeOK, NEW c \in Command, SendCmd(c)
    PROVE  Session!Ask(Request(c)) /\ Request(c) \in Asked
  <1>1. /\ queue \in Seq(Command) /\ Len(queue) \in Nat /\ Len(queue) < QueueLen
        /\ QueueLen \in Nat
    BY LenProperties, EpicMgrAssumption DEF SendCmd, TypeOK
  <1>2. Request(c) \in Asked
    BY DEF Command, Request, Asked
  <1>3. Len(Requests) < QueueLen + 1
    BY <1>1, RequestsShape
  <1>4. RequestsOf(queue') = Append(RequestsOf(queue), Request(c))
    BY <1>1, RequestsOfAppend DEF SendCmd
  <1>5. Requests' = Append(Requests, Request(c))
    <2> DEFINE p == IF mgr = "recv" THEN <<>> ELSE <<pending>>
               q == RequestsOf(queue)
    <2>1. p \in Seq(Asked) /\ q \in Seq(Asked) /\ Requests = p \o q
      BY RequestsShape, EmptySeq DEF TypeOK, Asked, Requests
    <2>2. Requests' = p \o Append(q, Request(c))
      BY <1>4 DEF Requests, SendCmd
    <2> HIDE DEF p, q
    <2>3. /\ Append(q, Request(c)) = q \o <<Request(c)>>
          /\ Append(p \o q, Request(c)) = (p \o q) \o <<Request(c)>>
          /\ <<Request(c)>> \in Seq(Asked)
      BY <1>2, <2>1, AppendIsConcat, ConcatProperties
    <2>4. p \o (q \o <<Request(c)>>) = (p \o q) \o <<Request(c)>>
      BY <2>1, <2>3, ConcatAssociative
    <2> QED BY <2>1, <2>2, <2>3, <2>4
  <1>6. UNCHANGED <<Selected, Staged, IsDud>>
    BY DEF SendCmd, Selected, Staged, OnStage, IsDud, Played
  <1> QED
    BY <1>2, <1>3, <1>5, <1>6 DEF Session!Ask, Staged

(* The manager takes the head of its queue. *)
LEMMA TakeHead ==
    ASSUME TypeOK, mgr = "recv", queue # <<>>, queue' = Tail(queue)
    PROVE  /\ Requests # <<>>
           /\ Head(Requests) = Request(Head(queue))
           /\ mgr' = "recv" => Requests' = Tail(Requests)
           /\ mgr' # "recv" /\ pending' = Request(Head(queue)) => Requests' = Requests
  <1>1. queue \in Seq(Command)
    BY DEF TypeOK
  <1>2. /\ Requests = RequestsOf(queue) /\ Requests # <<>>
        /\ Head(Requests) = Request(Head(queue))
        /\ RequestsOf(queue') = Tail(Requests)
    BY <1>1, RequestsShape, RequestsOfTail
  <1>3. Requests \in Seq(Asked) /\ Tail(Requests) \in Seq(Asked)
    BY <1>2, RequestsShape, HeadTailProperties
  <1>4. ASSUME mgr' = "recv" PROVE Requests' = Tail(Requests)
    BY <1>2, <1>3, <1>4, ConcatEmptySeq DEF Requests
  <1>5. ASSUME mgr' # "recv", pending' = Request(Head(queue))
        PROVE  Requests' = Requests
    <2>1. Requests' = <<Head(Requests)>> \o Tail(Requests)
      BY <1>2, <1>5 DEF Requests
    <2> DEFINE r == Requests
    <2>2. r \in Seq(Asked) /\ r # <<>> /\ Len(r) \in Nat \ {0}
      BY <1>2, <1>3, EmptySeq
    <2> HIDE DEF r
    <2>3. SubSeq(r, 1, Len(r)) = <<r[1]>> \o SubSeq(r, 2, Len(r))
      BY <2>2, SubSeqRecursiveFirst, 1 + 1 = 2
    <2>4. r = <<Head(r)>> \o Tail(r)
      BY <2>2, <2>3, SubSeqFull, TailIsSubSeq
    <2> QED BY <2>1, <2>4 DEF r
  <1> QED BY <1>2, <1>4, <1>5

LEMMA SwitchMaps ==
    ASSUME MapInv, SwitchSame \/ SwitchStop \/ SwitchIdle \/ InformHitTarget
    PROVE  [Session!Next]_(Session!vars)
  <1> USE DEF MapInv
  <1>1. TypeOK /\ mgr = "recv" /\ queue # <<>> /\ queue' = Tail(queue)
    BY DEF SwitchSame, SwitchStop, SwitchIdle, InformHitTarget, IInv
  <1>2. CASE SwitchSame
    <2>1. Head(Requests) = Selected /\ Requests # <<>> /\ Requests' = Tail(Requests)
      BY <1>1, <1>2, TakeHead DEF SwitchSame, Request, Selected
    <2>2. UNCHANGED <<Selected, Staged, IsDud>>
      BY <1>2 DEF SwitchSame, Selected, Staged, OnStage, IsDud, Played
    <2>3. Session!Ignore
      BY <2>1, <2>2 DEF Session!Ignore, Staged
    <2> QED BY <2>3 DEF Session!Next, Session!Answer
  <1>3. CASE InformHitTarget
    <2>1. Head(Requests) = "HIT" /\ Requests # <<>> /\ Requests' = Tail(Requests)
      BY <1>1, <1>3, TakeHead DEF InformHitTarget, Request
    <2>2. UNCHANGED <<Selected, Staged, IsDud>>
      BY <1>3 DEF InformHitTarget, Selected, Staged, OnStage, IsDud, Played
    <2>3. Session!Pass
      BY <2>1, <2>2 DEF Session!Pass, Staged
    <2> QED BY <2>3 DEF Session!Next, Session!Answer
  <1>4. CASE SwitchStop
    <2>1. Requests' = Requests
      BY <1>1, <1>4, TakeHead DEF SwitchStop, Request
    <2>2. /\ \A a \in Addr : obj'[a].kind = obj[a].kind /\ obj'[a].running = obj[a].running
          /\ cur' = cur /\ cur \in Addr /\ task' = task /\ mgr' = "stop"
      BY <1>1, <1>4, EpicMgrAssumption DEF SwitchStop, TypeOK, Object
    <2>3. UNCHANGED <<Selected, Staged, IsDud>>
      BY <1>1, <2>2 DEF Selected, Staged, OnStage, IsDud, Played
    <2> QED BY <2>1, <2>3 DEF Session!vars, Staged
  <1>5. CASE SwitchIdle
    <2>1. Requests' = Requests
      BY <1>1, <1>5, TakeHead DEF SwitchIdle, Request
    <2>2. UNCHANGED <<Selected, Staged, IsDud>>
      BY <1>5 DEF SwitchIdle, Selected, Staged, OnStage, IsDud, Played
    <2> QED BY <2>1, <2>2 DEF Session!vars, Staged
  <1> QED BY <1>2, <1>3, <1>4, <1>5

(* Freeing the current object dismisses its game. *)
LEMMA FreeMaps ==
    ASSUME MapInv, StopReturns \/ ReapStopped
    PROVE  Session!Dismiss
  <1> USE DEF MapInv
  <1>1. /\ TypeOK /\ cur \in Addr /\ obj[cur].running = FALSE
        /\ Free(cur) /\ cur' = NoAddr /\ queue' = queue /\ pending' = pending
    BY DEF StopReturns, ReapStopped, IsStopped, IInv, HeapInv, TypeOK
  <1>2. ~Staged /\ ~IsDud
    BY <1>1 DEF Staged, IInv, PlayInv, IsDud
  <1>3. /\ Selected # NoKind /\ Selected = obj[cur].kind
        /\ Selected' = NoKind /\ ~IsDud'
    BY <1>1, EpicMgrAssumption DEF Selected, KindInv, IsDud
  <1>4. \A t \in Task : task'[t].pc = task[t].pc /\ task'[t].kind = task[t].kind
    BY <1>1 DEF Free, TypeOK, TaskState
  <1>5. ~Staged'
    BY <1>2, <1>4 DEF Staged, OnStage
  <1>6. Requests' = Requests
    BY <1>1 DEF Requests, RequestsOf, StopReturns, ReapStopped
  <1>7. Requests # <<>> => Head(Requests) \in Kind \ {Selected}
    <2>1. CASE StopReturns
      BY <1>1, <1>3, <2>1, RequestsShape DEF StopReturns, KindInv, TypeOK
    <2>2. CASE ReapStopped
      <3>1. mgr = "recv" /\ queue = <<>>
        BY <2>2 DEF ReapStopped
      <3>2. Requests \in Seq(Asked) /\ Len(Requests) = 0
        BY <1>1, <3>1, RequestsShape
      <3> QED BY <3>2, EmptySeq
    <2> QED BY <2>1, <2>2
  <1>8. Staged' = Staged /\ IsDud' = IsDud
    BY <1>2, <1>3, <1>5 DEF Staged, IsDud
  <1> QED
    BY <1>2, <1>3, <1>6, <1>7, <1>8 DEF Session!Dismiss, Staged

(* Building a game begins it. *)
LEMMA StartMaps ==
    ASSUME MapInv, StartEpic
    PROVE  Session!Begin
  <1> USE DEF MapInv
  <1>1. PICK a \in Addr, fails \in BOOLEAN :
           /\ obj' = [obj EXCEPT ![a] = Started(pending, fails)]
           /\ cur' = a
           /\ \/ \E t \in Task : task' = [task EXCEPT ![t] = NewTask(a)]
              \/ task' = task
    BY DEF StartEpic
  <1>2. /\ TypeOK /\ cur = NoAddr /\ mgr = "new" /\ mgr' = "recv"
        /\ UNCHANGED <<queue, pending>>
    BY DEF StartEpic, IInv, HeapInv
  <1>3. /\ Requests # <<>> /\ Head(Requests) = pending
        /\ Tail(Requests) = RequestsOf(queue) /\ RequestsOf(queue) \in Seq(Asked)
    BY <1>2, RequestsShape
  <1>4. Requests' = Tail(Requests)
    BY <1>2, <1>3, ConcatEmptySeq DEF Requests
  <1>5. Selected = NoKind /\ ~Staged /\ pending \in Kind
    BY <1>2 DEF Selected, Staged, IInv, PlayInv, TypeOK
  <1>6. obj'[a] = Started(pending, fails)
    BY <1>1, <1>2 DEF TypeOK
  <1>7. Selected' = pending
    BY <1>1, <1>6, EpicMgrAssumption DEF Selected, Started
  <1>8. IInv'
    BY TypeStep, ShapeStep DEF Next, Manager, IInv, Shape
  <1>9. IsDud' <=> ~Staged'
    <2>1. Played' <=> Staged'
      BY <1>8 DEF IInv, PlayInv, Played, Staged
    <2> QED BY <1>1, <1>2, <1>6, <2>1, EpicMgrAssumption DEF IsDud, Started
  <1>10. Staged' \in BOOLEAN /\ IsDud' \in BOOLEAN
    BY DEF Staged, IsDud
  <1>11. IsDud' = ~Staged'
    BY <1>9, <1>10
  <1> QED
    BY <1>3, <1>4, <1>5, <1>7, <1>10, <1>11 DEF Session!Begin, Staged

(* Only clearing the flag takes a task off its stage. *)
LEMMA StageKept ==
    ASSUME IInv, NEW t \in Task, GameTask(t), ~TailClear(t)
    PROVE  \A u \in Task : OnStage(u)' <=> OnStage(u)
  <1> USE DEF IInv
  <1>1. CASE EnterGame(t)
    BY <1>1, GotoEffect DEF EnterGame, OnStage, PCs
  <1>2. CASE SeeShot(t) \/ LowerTarget(t)
    BY <1>2, GotoEffect DEF SeeShot, LowerTarget, OnStage, PCs
  <1>3. CASE RaiseTarget(t)
    BY <1>3, GotoEffect DEF RaiseTarget, OnStage, PCs
  <1>4. CASE SeeStopFlag(t) \/ GameOver(t)
    <2> DEFINE pc == FirstOfTail(task[t].kind)
    <2>1. Goto(t, pc) /\ pc \in PCs /\ task[t].pc \in {"play", "down"}
      BY <1>4, FirstOfTailType DEF SeeStopFlag, GameOver, AtLoopTest, PCs
    <2> QED BY <2>1, GotoEffect, FirstOfTailType DEF OnStage, FirstOfTail
  <1>5. CASE TailRaise(t)
    BY <1>5, GotoEffect DEF TailRaise, NextOfTail, TailInv, OnStage, PCs
  <1>6. CASE TailCut(t)
    <2> DEFINE pc == NextOfTail(task[t].kind, "cut")
    <2>1. /\ Goto(t, pc) /\ task[t].kind \in {"DOUBLESHOT", "RANDOMSHOOT"}
          /\ pc = (IF task[t].kind = "RANDOMSHOOT" THEN "clear" ELSE "idle")
      BY <1>6 DEF TailCut, NextOfTail, TailInv
    <2> QED BY <1>6, <2>1, GotoEffect DEF TailCut, OnStage, PCs, Idle
  <1>7. CASE TailMark(t)
    <2>1. Goto(t, "idle")
      BY <1>7 DEF TailMark, NextOfTail
    <2> QED BY <1>7, <2>1, GotoEffect DEF TailMark, OnStage, PCs, Idle
  <1> QED
    BY <1>1, <1>2, <1>3, <1>4, <1>5, <1>6, <1>7 DEF GameTask, TailStep

(* A game task either leaves the stage, clearing its flag, or does nothing *)
(* that a player sees.                                                     *)
LEMMA GameTaskMaps ==
    ASSUME MapInv, NEW t \in Task, GameTask(t)
    PROVE  [Session!Next]_(Session!vars)
  <1> USE DEF MapInv
  <1>1. /\ UNCHANGED <<queue, mgr, pending, cur>>
        /\ \A a \in Addr : obj'[a].kind = obj[a].kind
        /\ TypeOK /\ (cur # NoAddr => cur \in Addr)
    BY GameTaskFrame, KindsKept DEF IInv, TypeOK
  <1>2. Requests' = Requests /\ Selected' = Selected
    BY <1>1 DEF Requests, RequestsOf, Selected
  <1>3. IInv'
    BY TypeStep, ShapeStep DEF Next, IInv, Shape
  <1>4. /\ IsDud <=> mgr # "new" /\ cur # NoAddr /\ obj[cur].running /\ ~Staged
        /\ IsDud' <=> mgr # "new" /\ cur # NoAddr /\ obj'[cur].running /\ ~Staged'
    BY <1>1, <1>3, DudIsUnstaged DEF IInv, PlayInv, Played, Staged, IsDud
  <1>5. CASE TailClear(t)
    <2>1. OnStage(t) /\ task[t].addr = cur /\ cur \in Addr
      BY <1>5 DEF TailClear, OnStage, IInv, PlayInv, TypeOK
    <2>2. obj'[cur].running = FALSE
      BY <1>1, <1>5, <2>1 DEF TailClear, Store, IInv, HeapInv, TypeOK, Object
    <2>3. Staged /\ ~Staged'
      BY <1>1, <1>3, <2>1, <2>2 DEF Staged, IInv, PlayInv
    <2>4. ~IsDud /\ ~IsDud'
      BY <1>4, <2>2, <2>3
    <2>5. Session!LeaveStage
      BY <1>2, <2>3, <2>4 DEF Session!LeaveStage, Staged, IsDud
    <2> QED BY <2>5 DEF Session!Next
  <1>6. CASE ~TailClear(t)
    <2>1. \A a \in Addr : obj'[a].running = obj[a].running
      <3>1. CASE EnterGame(t)
        <4>1. obj[task[t].addr].running
          BY <3>1 DEF EnterGame, OnStage, IInv, PlayInv
        <4> QED BY <1>1, <3>1, <4>1, StoreEffect DEF EnterGame
      <3>2. CASE TailMark(t)
        BY <1>1, <3>2, StoreEffect DEF TailMark
      <3>3. CASE obj' = obj
        BY <3>3
      <3> QED
        BY <1>6, <3>1, <3>2, <3>3 DEF GameTask, TailStep, SeeShot, LowerTarget, RaiseTarget,
           SeeStopFlag, GameOver, TailRaise, TailCut
    <2>2. Staged' <=> Staged
      BY <1>6, StageKept DEF Staged
    <2>3. cur # NoAddr => obj'[cur].running = obj[cur].running
      BY <1>1, <2>1
    <2>4. IsDud' <=> IsDud
      BY <1>4, <2>2, <2>3
    <2>5. Staged' = Staged /\ IsDud' = IsDud
      BY <2>2, <2>4 DEF Staged, IsDud
    <2> QED BY <1>2, <2>5 DEF Session!vars, Staged
  <1> QED BY <1>5, <1>6

(* Every step of EpicMgr is a step of EpicSession, or none. *)
LEMMA SessionStep ==
    ASSUME MapInv, [Next]_vars
    PROVE  [Session!Next]_(Session!vars)
  <1>1. ASSUME NEW c \in Command, SendCmd(c)
        PROVE  [Session!Next]_(Session!vars)
    BY <1>1, SendMaps DEF Session!Next, MapInv, IInv, Asked
  <1>2. CASE SwitchSame \/ SwitchStop \/ SwitchIdle \/ InformHitTarget
    BY <1>2, SwitchMaps
  <1>3. CASE StopReturns \/ ReapStopped
    BY <1>3, FreeMaps DEF Session!Next, Session!Answer
  <1>4. CASE StartEpic
    BY <1>4, StartMaps DEF Session!Next, Session!Answer
  <1>5. ASSUME NEW t \in Task, GameTask(t)
        PROVE  [Session!Next]_(Session!vars)
    BY <1>5, GameTaskMaps
  <1>6. CASE UNCHANGED vars
    <2>1. UNCHANGED <<Requests, Selected, Staged, IsDud>>
      BY <1>6 DEF vars, Requests, RequestsOf, Selected, Staged, OnStage, IsDud, Played
    <2> QED BY <2>1 DEF Session!vars, Staged
  <1> QED
    BY <1>1, <1>2, <1>3, <1>4, <1>5, <1>6 DEF Next, Manager

(* At power on the default game is asked for. *)
LEMMA SessionInit == Init => Session!Init
  <1> SUFFICES ASSUME Init PROVE Session!Init
    OBVIOUS
  <1>1. TypeOK /\ queue = <<>> /\ mgr = "new" /\ pending \in Kind
    BY InitIInv, EpicMgrAssumption DEF Init
  <1>2. /\ Requests = <<pending>> \o RequestsOf(queue)
        /\ RequestsOf(queue) \in Seq(Asked) /\ Len(RequestsOf(queue)) = 0
    BY <1>1, RequestsShape, RequestsOfProperties DEF TypeOK
  <1>3. Requests = <<pending>>
    <2>1. RequestsOf(queue) = <<>> /\ <<pending>> \in Seq(Asked)
      BY <1>1, <1>2, EmptySeq DEF Asked
    <2> QED BY <1>2, <2>1, ConcatEmptySeq
  <1>4. Selected = NoKind /\ ~Staged /\ ~IsDud
    BY DEF Init, Selected, Staged, OnStage, Idle, IsDud
  <1>5. Staged = FALSE /\ IsDud = FALSE
    BY <1>4 DEF Staged, IsDud
  <1> QED BY <1>1, <1>3, <1>4, <1>5 DEF Session!Init, Staged

(* The manager and its game tasks implement EpicSession: requests are      *)
(* answered in the order they were accepted, one game leaves the stage     *)
(* before the next enters, and only a failed task creation makes a dud.    *)
THEOREM SessionImplemented == Spec => SessionSafety
  <1>1. Init => MapInv
    BY InitIInv DEF Init, MapInv, IInv, Shape, KindInv
  <1>2. MapInv /\ [Next]_vars => MapInv'
    <2>1. IInv /\ [Next]_vars => IInv'
      BY TypeStep, ShapeStep DEF IInv, Shape
    <2> QED BY <2>1, KindStep DEF MapInv
  <1>3. MapInv /\ [Next]_vars => [Session!Next]_(Session!vars)
    BY SessionStep
  <1> QED
    BY <1>1, <1>2, <1>3, SessionInit, PTL DEF Spec, SessionSafety, Session!Spec

==============================================================================
