----------------------------- MODULE PowerProofs ------------------------------
(***************************************************************************)
(* Proofs about PowerCycle and the devices it is made of (the servo, the   *)
(* display's wire and the two RMT channels), whatever numbers are shown    *)
(* and however the boot, the tasks, deep sleep and restarts interleave;    *)
(* and about the monitor that begins deep sleep, PowerMonitor, for any     *)
(* battery readings and any limits.                                        *)
(*                                                                         *)
(* Each device has an inductive invariant of its own; a lemma says which   *)
(* of the device's steps a step of the whole can be.                       *)
(***************************************************************************)
EXTENDS PowerMonitor, PowerCycle, SequenceTheorems, TLAPS

-----------------------------------------------------------------------------
(* The servo.                                                              *)

UserState == [at : {"no", "store", "stop", "overtaken"}, left : 0 .. FullMove]

ServoType ==
    /\ power \in BOOLEAN
    /\ since \in 0 .. FullMove
    /\ stored \in -1 .. FullMove
    /\ busy \in [Users -> UserState]

(* What stop() reads is the age of the last move, unless a move's time is  *)
(* about to be stored; a stop() that no move has overtaken lasts until the *)
(* move is over.                                                           *)
ServoInv ==
    /\ ServoType
    /\ (\A u \in Users : busy[u].at # "store")
          => stored = since \/ (stored = -1 /\ since = FullMove)
    /\ \A u \in Users :
          /\ busy[u].at = "store" => busy[u].left = 0 /\ since = 0
          /\ busy[u].at = "no" => busy[u].left = 0
          /\ busy[u].at = "stop" => busy[u].left + since >= FullMove
    /\ MoveIsFinished

ServoStep == ServoUse \/ ServoTick \/ PowerOffTgtServo \/ ServoReset

LEMMA ServoSteps == [Next]_vars => [ServoStep]_servoVars
  BY DEF Next, vars, servoVars, ServoStep, BootStep, EarlyCall, Restart, Tasks, UseServo,
         UseDisplay, UseSound, UseLights, TryDeepSleep, Announce, StopTurret, SleepMic,
         ClearDisplay, ClearStrip, CutServo, CutWeapon, DeepSleep, PowerOn

LEMMA ServoStart == ServoInit => ServoInv
  <1> SUFFICES ASSUME ServoInit PROVE ServoInv
    OBVIOUS
  <1> USE DEF ServoInit, ServoStarts, FullMove
  <1>1. busy = [u \in Users |-> Free]
    OBVIOUS
  <1>2. Free \in UserState
    BY DEF Free, UserState
  <1>3. busy \in [Users -> UserState]
    BY <1>1, <1>2
  <1>4. power \in BOOLEAN
    OBVIOUS
  <1>5. since \in 0 .. FullMove /\ stored \in -1 .. FullMove
    OBVIOUS
  <1>6. ServoType
    BY <1>3, <1>4, <1>5 DEF ServoType
  <1>7. MoveIsFinished
    BY DEF MoveIsFinished
  <1> QED BY <1>1, <1>6, <1>7 DEF ServoInv, Free

LEMMA ServoRestart == ServoReset => ServoInv'
  <1>1. (ServoInit => ServoInv)'
    BY ServoStart, PTL
  <1>2. ServoReset => ServoInit'
    BY DEF ServoReset, ServoInit
  <1> QED BY <1>1, <1>2

LEMMA ServoStepInv ==
    ASSUME ServoInv, [ServoStep]_servoVars
    PROVE  ServoInv'
  <1> USE DEF ServoInv, ServoType, UserState, FullMove, Users, MoveIsFinished
  <1>1. ASSUME NEW u \in Users, Move(u) PROVE ServoInv'
    BY <1>1 DEF Move
  <1>2. ASSUME NEW u \in Users, StoreTime(u) PROVE ServoInv'
    BY <1>2 DEF StoreTime, Free
  <1>3. ASSUME NEW u \in Users, Stop(u) PROVE ServoInv'
    <2>1. PICK wait \in Verdicts(u) : Stopping(u, wait, IF wait THEN FullMove ELSE 0)
      BY <1>3 DEF Stop
    <2>2. busy[u].at = "no" /\ UNCHANGED <<power, since, stored, cut>>
      BY <1>3 DEF Stop
    <2>3. CASE wait
      BY <2>1, <2>2, <2>3 DEF Stopping
    <2>4. CASE ~wait
      <3>1. CASE Storing(u)
        BY <2>1, <2>2, <2>4, <3>1 DEF Stopping
      <3>2. CASE ~Storing(u)
        <4>1. \A w \in Users : busy[w].at # "store"
          BY <2>2, <3>2 DEF Storing
        <4>2. since = FullMove
          <5>1. ~MustWait
            BY <2>1, <2>4, <3>2, Zenon DEF Verdicts
          <5> QED BY <4>1, <5>1 DEF MustWait
        <4>3. busy' = [busy EXCEPT ![u] = [at |-> "stop", left |-> 0]]
          BY <2>1, <2>4, <3>2 DEF Stopping
        <4> QED BY <2>2, <4>1, <4>2, <4>3
      <3> QED BY <3>1, <3>2
    <2> QED BY <2>3, <2>4
  <1>4. ASSUME NEW u \in Users, Release(u) PROVE ServoInv'
    <2>1. since < FullMove => busy[u].at = "overtaken"
      BY <1>4 DEF Release
    <2>2. cut'.early => cut'.others
      BY <1>4, <2>1 DEF Release, Cut
    <2> QED BY <1>4, <2>2 DEF Release, Cut, Free
  <1>5. CASE ServoTick
    BY <1>5 DEF ServoTick, Older
  <1>6. CASE PowerOffTgtServo
    BY <1>6 DEF PowerOffTgtServo, Cut
  <1>7. CASE ServoReset
    BY <1>7, ServoRestart
  <1>8. CASE UNCHANGED servoVars
    BY <1>8 DEF servoVars
  <1> QED
    BY <1>1, <1>2, <1>3, <1>4, <1>5, <1>6, <1>7, <1>8 DEF ServoStep, ServoUse

(* With two tasks at the servo, each of which may move it or release it at *)
(* any moment, stop() interrupts no move but one that it had no chance to  *)
(* see; the power monitor does.                                            *)
THEOREM MovesAreFinished == Spec => []MoveIsFinished
  <1>1. Init => ServoInv
    BY ServoStart DEF Init
  <1>2. ServoInv /\ [Next]_vars => ServoInv'
    BY ServoSteps, ServoStepInv
  <1>3. ServoInv => MoveIsFinished
    BY DEF ServoInv
  <1> QED BY <1>1, <1>2, <1>3, PTL DEF Spec

-----------------------------------------------------------------------------
(* The display's wire.                                                     *)

Byte  == Digit \cup {"num", "ctl"}
Shows == Number \cup {Digits0}

PenState == [at : {"no", "ones", "tens", "number", "pause", "control", "end"},
             num : Shows, pos : Nat, alone : BOOLEAN]

WireType ==
    /\ buff \in [1 .. 2 -> Digit]
    /\ items \in [1 .. MaxItems -> Byte]
    /\ index \in Nat
    /\ pen \in [Writers -> PenState]

(* What one who writes alone has done so far: the digits of the number are *)
(* in the buffer, the symbols up to its place are those of the frame, and  *)
(* once the number is sent the chip shows it.                              *)
Frame(w) == IF pen[w].at = "number" THEN <<"num", pen[w].num[1], pen[w].num[2]>>
            ELSE <<"ctl">>

PenInv(w) ==
    /\ pen[w].at = "tens" => buff[2] = pen[w].num[2]
    /\ pen[w].at = "number" => buff[1] = pen[w].num[1] /\ buff[2] = pen[w].num[2]
    /\ pen[w].at \in {"number", "control"} =>
         /\ pen[w].pos <= Len(Frame(w))
         /\ pen[w].pos # 0 => index = pen[w].pos
         /\ \A i \in 1 .. pen[w].pos : items[i] = Frame(w)[i]
    /\ pen[w].at \in {"pause", "control", "end"} => digits = pen[w].num

(* One who writes alone is; the channel is idle, with nothing behind, when *)
(* nobody waits for the end of a frame.                                    *)
WireInv ==
    /\ WireType
    /\ \A w \in Writers :
         /\ pen[w].at \notin {"number", "control"} => pen[w].pos = 0
         /\ pen[w].alone /\ AtWork(w) =>
              /\ \A v \in Writers \ {w} : ~AtWork(v)
              /\ pending = <<>>
              /\ PenInv(w)
    /\ ~airing => pending = <<>>
    /\ airing => \E w \in Writers : pen[w].at \in {"pause", "end"}
    /\ digits \in Shows \/ mixed

Beginning == \E w \in Writers, n \in Shows : BeginWrite(w, n)
WireStep  == Beginning \/ (\E w \in Writers : Writing(w)) \/ AirEnds \/ WireReset

LEMMA WireSteps == [Next]_vars => [WireStep]_wireVars
  <1> SUFFICES ASSUME [Next]_vars PROVE [WireStep]_wireVars
    OBVIOUS
  <1>1. CASE Tasks
    <2>1. CASE UseDisplay
      BY <2>1 DEF UseDisplay, WireStep, Beginning, Writers, Shows
    <2> QED
      BY <1>1, <2>1 DEF Tasks, UseServo, UseSound, UseLights, wireVars
  <1>2. CASE TryDeepSleep
    <2>1. CASE ClearDisplay
      BY <2>1 DEF ClearDisplay, WireStep, Beginning, Writers, Shows, wireVars
    <2> QED
      BY <1>2, <2>1 DEF TryDeepSleep, Announce, StopTurret, SleepMic, ClearStrip, CutServo,
         CutWeapon, DeepSleep, wireVars
  <1> QED
    BY <1>1, <1>2 DEF Next, vars, wireVars, WireStep, BootStep, EarlyCall, Restart, PowerOn

LEMMA WireStart == WireInit => WireInv
  <1> SUFFICES ASSUME WireInit PROVE WireInv
    OBVIOUS
  <1> USE DEF WireInit, WireStarts
  <1>1. Digits0 \in [1 .. 2 -> Digit] /\ Digits0 \in Shows
    BY DEF Digits0, Digit, Shows
  <1>2. NoPen \in PenState
    BY <1>1 DEF NoPen, PenState
  <1>3. pen = [w \in Writers |-> NoPen] /\ \A w \in Writers : pen[w] = NoPen
    OBVIOUS
  <1>4. pen \in [Writers -> PenState]
    BY <1>2, <1>3
  <1>5. items \in [1 .. MaxItems -> Byte]
    BY DEF Byte, Digit
  <1>6. WireType
    BY <1>1, <1>4, <1>5 DEF WireType
  <1> QED
    BY <1>1, <1>3, <1>6 DEF WireInv, NoPen, AtWork

LEMMA WireRestart == WireReset => WireInv'
  <1>1. (WireInit => WireInv)'
    BY WireStart, PTL
  <1>2. WireReset => WireInit'
    BY DEF WireReset, WireInit
  <1> QED BY <1>1, <1>2

(* What the chip makes of the two frames of one who writes alone. *)
LEMMA ShownNumber ==
    ASSUME NEW s \in Seq(Byte), Len(s) = 3, s[1] = "num", s[2] \in Digit, s[3] \in Digit
    PROVE  Shown(s) = <<s[2], s[3]>>
  <1>1. s # <<"ctl">>
    BY DEF Byte
  <1> QED BY <1>1 DEF Shown, Digit

LEMMA ShownControl ==
    ASSUME NEW s \in Seq(Byte), Len(s) = 1, s[1] = "ctl"
    PROVE  Shown(s) = digits
  <1>1. <<"ctl">> \in Seq(Byte)
    BY DEF Byte
  <1>2. s = <<"ctl">>
    BY <1>1, SeqEqual
  <1> QED BY <1>2 DEF Shown

(* A step of one writer: the other one, if at work, is not alone.          *)
LEMMA WriterStep ==
    ASSUME WireInv, NEW w \in Writers, AtWork(w), WireType',
           \A v \in Writers \ {w} : pen'[v] = pen[v],
           pen'[w].at \notin {"number", "control"} => pen'[w].pos = 0,
           pen'[w].alone /\ AtWork(w)' => pen[w].alone /\ pending' = <<>> /\ PenInv(w)',
           ~airing' => pending' = <<>>,
           airing' => \E v \in Writers : pen'[v].at \in {"pause", "end"},
           digits' \in Shows \/ mixed'
    PROVE  WireInv'
  <1>1. \A v \in Writers \ {w} : ~(pen'[v].alone /\ AtWork(v)')
    BY DEF WireInv, AtWork
  <1>2. pen'[w].alone /\ AtWork(w)' => \A v \in Writers \ {w} : ~AtWork(v)'
    BY DEF WireInv, AtWork
  <1>3. \A v \in Writers : pen'[v].at \notin {"number", "control"} => pen'[v].pos = 0
    BY DEF WireInv
  <1>4. \A v \in Writers : pen'[v].alone /\ AtWork(v)' =>
           /\ \A x \in Writers \ {v} : ~AtWork(x)'
           /\ pending' = <<>>
           /\ PenInv(v)'
    <2> SUFFICES ASSUME NEW v \in Writers, pen'[v].alone, AtWork(v)'
                 PROVE  /\ \A x \in Writers \ {v} : ~AtWork(x)'
                        /\ pending' = <<>>
                        /\ PenInv(v)'
      OBVIOUS
    <2>1. v = w
      BY <1>1
    <2> QED BY <1>2, <2>1
  <1> QED BY <1>3, <1>4 DEF WireInv

LEMMA GoEffect ==
    ASSUME WireType, NEW w \in Writers, NEW at, Go(w, at)
    PROVE  /\ \A v \in Writers \ {w} : pen'[v] = pen[v]
           /\ pen'[w] = [pen[w] EXCEPT !.at = at, !.pos = 0]
           /\ pen'[w].at = at /\ pen'[w].pos = 0
           /\ pen'[w].num = pen[w].num /\ pen'[w].alone = pen[w].alone
           /\ at \in {"tens", "number", "pause", "control", "end"}
                => pen' \in [Writers -> PenState]
  BY DEF Go, WireType, PenState

(* One who writes alone is not before a frame that is on the air. *)
LEMMA AloneIsIdle ==
    ASSUME WireInv, NEW w \in Writers, AtWork(w), pen[w].alone,
           pen[w].at \notin {"pause", "end"}
    PROVE  ~airing /\ pending = <<>> /\ PenInv(w)
  BY DEF WireInv, AtWork

LEMMA StillAiring ==
    ASSUME WireInv, NEW w \in Writers, pen[w].at \notin {"pause", "end"},
           \A v \in Writers \ {w} : pen'[v] = pen[v], airing
    PROVE  \E v \in Writers : pen'[v].at \in {"pause", "end"}
  BY DEF WireInv

LEMMA WireBegin ==
    ASSUME WireInv, NEW w \in Writers, NEW n \in Shows, BeginWrite(w, n)
    PROVE  WireInv'
  <1> DEFINE others == { v \in Writers : AtWork(v) }
  <1>1. pen' = [v \in Writers |->
                  IF v = w THEN [at |-> "ones", num |-> n, pos |-> 0, alone |-> others = {}]
                  ELSE [pen[v] EXCEPT !.alone = v \notin others]]
    BY DEF BeginWrite
  <1>2. /\ pen'[w] = [at |-> "ones", num |-> n, pos |-> 0, alone |-> others = {}]
        /\ \A v \in Writers \ {w} : pen'[v] = [pen[v] EXCEPT !.alone = v \notin others]
    BY <1>1
  <1>3. \A v \in Writers \ {w} :
           pen'[v].at = pen[v].at /\ pen'[v].pos = pen[v].pos
           /\ (pen'[v].alone => ~AtWork(v))
    <2> SUFFICES ASSUME NEW v \in Writers \ {w}
                 PROVE  /\ pen'[v].at = pen[v].at /\ pen'[v].pos = pen[v].pos
                        /\ pen'[v].alone => ~AtWork(v)
      OBVIOUS
    <2>1. v \in others <=> AtWork(v)
      OBVIOUS
    <2>2. pen'[v] = [pen[v] EXCEPT !.alone = v \notin others] /\ pen[v] \in PenState
      BY <1>2 DEF WireInv, WireType
    <2> HIDE DEF others
    <2> QED BY <2>1, <2>2 DEF PenState
  <1>4. pen' \in [Writers -> PenState]
    BY <1>1 DEF WireInv, WireType, PenState
  <1>5. ~AtWork(w) /\ UNCHANGED <<buff, items, index, airing, pending, digits, mixed>>
    BY DEF BeginWrite
  <1>6. WireType'
    BY <1>4, <1>5 DEF WireInv, WireType
  <1>7. pen'[w].alone => ~airing /\ \A v \in Writers : ~AtWork(v)
    <2>1. others = {} => \A v \in Writers : ~AtWork(v)
      OBVIOUS
    <2>2. pen'[w].alone => others = {}
      <3> DEFINE solo == others = {}
      <3>1. pen'[w] = [at |-> "ones", num |-> n, pos |-> 0, alone |-> solo]
        BY <1>2
      <3> HIDE DEF solo
      <3>2. pen'[w].alone = solo
        BY <3>1
      <3> QED BY <3>2 DEF solo
    <2> QED BY <2>1, <2>2 DEF WireInv, AtWork
  <1>8. pen'[w].alone => pending = <<>>
    BY <1>7 DEF WireInv
  <1>9. airing => \E v \in Writers : pen'[v].at \in {"pause", "end"}
    BY <1>3, <1>5 DEF WireInv, AtWork
  <1>10. pen'[w].at = "ones" /\ pen'[w].pos = 0
    BY <1>2
  <1>11. ASSUME NEW v \in Writers
         PROVE  /\ pen'[v].at \notin {"number", "control"} => pen'[v].pos = 0
                /\ pen'[v].alone /\ AtWork(v)' =>
                     /\ \A x \in Writers \ {v} : ~AtWork(x)'
                     /\ pending' = <<>>
                     /\ PenInv(v)'
    <2>1. CASE v = w
      BY <1>3, <1>5, <1>7, <1>8, <1>10, <2>1 DEF PenInv, AtWork
    <2>2. CASE v # w
      BY <1>3, <2>2 DEF WireInv, AtWork
    <2> QED BY <2>1, <2>2
  <1> QED BY <1>5, <1>6, <1>9, <1>11 DEF WireInv

LEMMA WireDigit ==
    ASSUME WireInv, NEW w \in Writers, StoreDigit(w)
    PROVE  WireInv'
  <1>1. /\ AtWork(w) /\ pen[w].at \in {"ones", "tens"}
        /\ UNCHANGED <<items, index, airing, pending, digits, mixed>>
        /\ WireType
    BY DEF StoreDigit, AtWork, WireInv
  <1>2. pen[w].num[1] \in Digit /\ pen[w].num[2] \in Digit
    BY WireAssumption, <1>1 DEF WireType, PenState, Shows, Digits0, Digit
  <1>3. CASE pen[w].at = "ones"
    <2>1. Go(w, "tens") /\ buff' = [buff EXCEPT ![2] = pen[w].num[2]]
      BY <1>3 DEF StoreDigit
    <2>2. WireType'
      BY <1>1, <1>2, <2>1, GoEffect DEF WireType
    <2>3. PenInv(w)'
      <3>1. pen'[w].at = "tens" /\ pen'[w].num = pen[w].num
        BY <1>1, <2>1, GoEffect
      <3>2. buff'[2] = pen[w].num[2]
        BY <1>1, <2>1 DEF WireType
      <3> QED BY <3>1, <3>2 DEF PenInv
    <2>4. pen[w].alone => pending = <<>>
      BY <1>1, AloneIsIdle
    <2> QED BY <1>1, <2>1, <2>2, <2>3, <2>4, GoEffect, StillAiring, WriterStep DEF WireInv
  <1>4. CASE pen[w].at = "tens"
    <2>1. Go(w, "number") /\ buff' = [buff EXCEPT ![1] = pen[w].num[1]]
      BY <1>4 DEF StoreDigit
    <2>2. WireType'
      BY <1>1, <1>2, <2>1, GoEffect DEF WireType
    <2>3. pen[w].alone => pending = <<>> /\ buff[2] = pen[w].num[2]
      BY <1>1, <1>4, AloneIsIdle DEF PenInv
    <2>4. pen[w].alone => PenInv(w)'
      <3>1. pen'[w].at = "number" /\ pen'[w].num = pen[w].num /\ pen'[w].pos = 0
        BY <1>1, <2>1, GoEffect
      <3>2. buff'[1] = pen[w].num[1] /\ buff'[2] = buff[2]
        BY <1>1, <2>1 DEF WireType
      <3>3. Len(Frame(w)') = 3
        BY <3>1 DEF Frame
      <3> QED BY <2>3, <3>1, <3>2, <3>3 DEF PenInv
    <2> QED BY <1>1, <2>1, <2>2, <2>3, <2>4, GoEffect, StillAiring, WriterStep DEF WireInv
  <1> QED BY <1>1, <1>3, <1>4

LEMMA WireConvert ==
    ASSUME WireInv, NEW w \in Writers, Convert(w)
    PROVE  WireInv'
  <1> DEFINE p == pen[w].pos
             place == NextPlace(w)
             byte == Source(w)[p + 1]
  <1>1. /\ AtWork(w) /\ pen[w].at \in {"number", "control"} /\ WireType
        /\ UNCHANGED <<buff, airing, pending, digits, mixed>>
        /\ p < Len(Source(w)) /\ place < MaxItems
        /\ items' = [items EXCEPT ![place + 1] = byte]
        /\ index' = place + 1
        /\ pen' = [pen EXCEPT ![w].pos = p + 1]
    BY DEF Convert, AtWork, WireInv
  <1>2. p \in Nat /\ place \in Nat /\ pen[w] \in PenState /\ MaxItems \in Nat
    BY <1>1, WireAssumption DEF WireType, PenState, NextPlace
  <1>3. /\ \A v \in Writers \ {w} : pen'[v] = pen[v]
        /\ pen'[w].at = pen[w].at /\ pen'[w].num = pen[w].num
        /\ pen'[w].alone = pen[w].alone /\ pen'[w].pos = p + 1
        /\ pen' \in [Writers -> PenState]
    <2>1. p + 1 \in Nat
      BY <1>2
    <2> HIDE DEF p
    <2>2. pen'[w] = [pen[w] EXCEPT !.pos = p + 1]
      BY <1>1 DEF WireType
    <2>3. pen'[w] \in PenState
      BY <1>2, <2>1, <2>2 DEF PenState
    <2>4. pen' \in [Writers -> PenState]
      BY <1>1, <2>2, <2>3 DEF WireType
    <2> QED BY <1>1, <1>2, <2>2, <2>4 DEF WireType, PenState
  <1>4. byte \in Byte
    <2>1. p = 0 \/ (pen[w].at = "number" /\ p \in {1, 2})
      BY <1>1, <1>2 DEF Source
    <2> QED BY <1>1, <2>1 DEF Source, Byte, WireType
  <1>5. WireType'
    <2>1. items' \in [1 .. MaxItems -> Byte]
      <3> HIDE DEF byte, place
      <3> QED BY <1>1, <1>4 DEF WireType
    <2>2. index' \in Nat
      BY <1>1, <1>2
    <2> QED BY <1>1, <1>3, <2>1, <2>2 DEF WireType
  <1>6. ASSUME pen[w].alone
        PROVE  pending = <<>> /\ PenInv(w)'
    <2>1. pending = <<>> /\ PenInv(w)
      BY <1>1, <1>6, AloneIsIdle
    <2>2. place = p
      BY <1>1, <2>1 DEF PenInv, NextPlace
    <2>3. Frame(w)' = Frame(w) /\ Len(Frame(w)) = Len(Source(w))
      BY <1>1, <1>3 DEF Frame, Source
    <2>4. byte = Frame(w)[p + 1]
      <3>1. p = 0 \/ (pen[w].at = "number" /\ p \in {1, 2})
        BY <1>1, <1>2 DEF Source
      <3> QED BY <1>1, <2>1, <3>1 DEF Source, Frame, PenInv
    <2>5. \A i \in 1 .. p : items[i] = Frame(w)[i]
      BY <1>1, <2>1 DEF PenInv
    <2> HIDE DEF byte, place
    <2>6. items' = [items EXCEPT ![p + 1] = Frame(w)[p + 1]] /\ p + 1 \in 1 .. MaxItems
      BY <1>1, <1>2, <2>2, <2>4
    <2>7. \A i \in 1 .. p + 1 : items'[i] = Frame(w)[i]
      <3> SUFFICES ASSUME NEW i \in 1 .. p + 1 PROVE items'[i] = Frame(w)[i]
        OBVIOUS
      <3> HIDE DEF p
      <3>1. i \in 1 .. MaxItems /\ (i = p + 1 \/ i \in 1 .. p)
        BY <1>2, <2>6
      <3> QED BY <1>1, <1>2, <2>5, <2>6, <3>1 DEF WireType
    <2>8. p + 1 <= Len(Frame(w)) /\ index' = p + 1
      <3>1. Len(Source(w)) \in Nat
        BY DEF Source
      <3> QED BY <1>1, <1>2, <2>2, <2>3, <3>1
    <2>9. PenInv(w)'
      <3>1. pen'[w].at \in {"number", "control"} =>
              /\ pen'[w].pos <= Len(Frame(w)')
              /\ pen'[w].pos # 0 => index' = pen'[w].pos
              /\ \A i \in 1 .. pen'[w].pos : items'[i] = Frame(w)'[i]
        BY <1>3, <2>3, <2>7, <2>8
      <3>2. pen'[w].at = "number" => buff'[1] = pen'[w].num[1] /\ buff'[2] = pen'[w].num[2]
        BY <1>1, <1>3, <2>1 DEF PenInv
      <3>3. pen'[w].at \in {"pause", "control", "end"} => digits' = pen'[w].num
        BY <1>1, <1>3, <2>1 DEF PenInv
      <3>4. pen'[w].at # "tens"
        BY <1>1, <1>3
      <3> QED BY <3>1, <3>2, <3>3, <3>4 DEF PenInv
    <2> QED BY <2>1, <2>9
  <1>7. airing' => \E v \in Writers : pen'[v].at \in {"pause", "end"}
    BY <1>1, <1>3, StillAiring
  <1>8. pen'[w].alone /\ AtWork(w)' => pen[w].alone /\ pending' = <<>> /\ PenInv(w)'
    BY <1>1, <1>3, <1>6
  <1>9. (~airing' => pending' = <<>>) /\ (digits' \in Shows \/ mixed')
    BY <1>1 DEF WireInv, Shows
  <1>10. pen'[w].at \notin {"number", "control"} => pen'[w].pos = 0
    BY <1>1, <1>3
  <1> QED BY <1>1, <1>3, <1>5, <1>7, <1>8, <1>9, <1>10, WriterStep

(* One who writes alone never finds the array full. *)
LEMMA WireTooLong ==
    ASSUME WireInv, NEW w \in Writers, TooLong(w)
    PROVE  WireInv'
  <1>1. /\ AtWork(w) /\ pen[w].at \in {"number", "control"} /\ WireType
        /\ UNCHANGED <<buff, items, index, airing, pending, digits, mixed>>
        /\ pen[w].pos < Len(Source(w)) /\ NextPlace(w) >= MaxItems
        /\ AfterFrame(w)
    BY DEF TooLong, AtWork, WireInv
  <1>2. ~pen[w].alone
    <2> SUFFICES ASSUME pen[w].alone PROVE FALSE
      OBVIOUS
    <2>1. PenInv(w)
      BY <1>1, AloneIsIdle
    <2>2. NextPlace(w) = pen[w].pos
      BY <1>1, <2>1 DEF PenInv, NextPlace
    <2>3. pen[w].pos < 3 /\ pen[w].pos \in Nat
      BY <1>1 DEF Source, WireType, PenState
    <2> QED BY <1>1, <2>2, <2>3, WireAssumption
  <1>3. PICK at \in {"pause", "end"} : Go(w, at)
    BY <1>1 DEF AfterFrame
  <1>4. WireType'
    BY <1>1, <1>3, GoEffect DEF WireType
  <1>5. pen'[w].at \in {"pause", "end"} /\ pen'[w].pos = 0 /\ ~pen'[w].alone
        /\ \A v \in Writers \ {w} : pen'[v] = pen[v]
    BY <1>1, <1>2, <1>3, GoEffect DEF WireType, PenState
  <1> QED BY <1>1, <1>4, <1>5, WriterStep DEF WireInv

(* The channel takes the frame of one who writes alone at once. *)
LEMMA WireTransmit ==
    ASSUME WireInv, NEW w \in Writers, Transmit(w)
    PROVE  WireInv'
  <1> DEFINE sent == SubSeq(items, 1, index)
  <1>1. /\ AtWork(w) /\ pen[w].at \in {"number", "control"} /\ WireType
        /\ pen[w].pos = Len(Source(w))
        /\ UNCHANGED <<buff, items, index>>
        /\ AfterFrame(w)
    BY DEF Transmit, AtWork, WireInv
  <1>2. PICK at \in {"pause", "end"} :
           Go(w, at) /\ (pen[w].at = "number" <=> at = "pause")
    BY <1>1 DEF AfterFrame
  <1>3. WireType'
    BY <1>1, <1>2, GoEffect DEF WireType
  <1>4. /\ pen'[w].at = at /\ pen'[w].pos = 0
        /\ pen'[w].num = pen[w].num /\ pen'[w].alone = pen[w].alone
        /\ \A v \in Writers \ {w} : pen'[v] = pen[v]
    BY <1>1, <1>2, GoEffect
  <1>5. pen[w].num \in Shows /\ pen[w].num \in Digit \X Digit
    BY <1>1, WireAssumption DEF WireType, PenState, Shows, Digits0, Digit
  <1>6. ASSUME pen[w].alone
        PROVE  pending' = <<>> /\ airing' /\ digits' = pen[w].num
    <2>1. ~airing /\ pending = <<>> /\ PenInv(w)
      BY <1>1, <1>6, AloneIsIdle
    <2>2. airing' = TRUE /\ pending' = pending /\ digits' = Shown(sent)
      BY <2>1 DEF Transmit
    <2>3. /\ pen[w].pos = Len(Frame(w)) /\ pen[w].pos \in {1, 3}
          /\ index = pen[w].pos
          /\ \A i \in 1 .. index : items[i] = Frame(w)[i]
      BY <1>1, <2>1 DEF Source, Frame, PenInv
    <2>4. \A i \in 1 .. index : items[i] \in Byte
      <3>1. \A i \in 1 .. index : Frame(w)[i] \in Byte
        BY <1>1, <1>5, <2>3 DEF Frame, Byte
      <3> QED BY <2>3, <3>1
    <2>5. /\ sent \in Seq(Byte) /\ Len(sent) = index
          /\ \A i \in 1 .. index : sent[i] = items[i]
      BY <2>3, <2>4, SubSeqProperties
    <2> HIDE DEF sent
    <2>6. CASE pen[w].at = "number"
      <3>1. /\ Len(sent) = 3 /\ sent[1] = "num"
            /\ sent[2] = pen[w].num[1] /\ sent[3] = pen[w].num[2]
        BY <2>3, <2>5, <2>6 DEF Frame
      <3>2. Shown(sent) = <<pen[w].num[1], pen[w].num[2]>>
        BY <1>5, <2>5, <3>1, ShownNumber
      <3> QED BY <1>5, <2>1, <2>2, <3>2
    <2>7. CASE pen[w].at = "control"
      <3>1. Len(sent) = 1 /\ sent[1] = "ctl"
        BY <2>3, <2>5, <2>7 DEF Frame
      <3>2. Shown(sent) = digits /\ digits = pen[w].num
        BY <2>1, <2>5, <2>7, <3>1, ShownControl DEF PenInv
      <3> QED BY <2>1, <2>2, <3>2
    <2> QED BY <1>1, <2>6, <2>7
  <1>7. ASSUME pen[w].alone PROVE PenInv(w)'
    BY <1>2, <1>4, <1>6, <1>7 DEF PenInv
  <1>8. ~airing' => pending' = <<>>
    BY DEF Transmit, WireInv
  <1>9. digits' \in Shows \/ mixed'
    <2>1. CASE pen[w].alone
      BY <1>5, <1>6, <2>1
    <2>2. CASE ~pen[w].alone
      BY <2>2 DEF Transmit, WireInv
    <2> QED BY <2>1, <2>2
  <1> QED BY <1>1, <1>2, <1>3, <1>4, <1>6, <1>7, <1>8, <1>9, WriterStep

LEMMA WirePaused ==
    ASSUME WireInv, NEW w \in Writers, Paused(w)
    PROVE  WireInv'
  <1>1. /\ AtWork(w) /\ pen[w].at \in {"pause", "end"} /\ ~airing /\ WireType
        /\ UNCHANGED <<buff, items, index, airing, pending, digits, mixed>>
        /\ pending = <<>>
    BY DEF Paused, AtWork, WireInv
  <1>2. CASE pen[w].at = "pause"
    <2>1. Go(w, "control")
      BY <1>2 DEF Paused
    <2>2. WireType'
      BY <1>1, <2>1, GoEffect DEF WireType
    <2>3. pen[w].alone => PenInv(w)'
      <3>1. pen[w].alone => digits = pen[w].num
        BY <1>1, <1>2 DEF WireInv, PenInv
      <3>2. pen'[w].at = "control" /\ pen'[w].num = pen[w].num /\ pen'[w].pos = 0
        BY <1>1, <2>1, GoEffect
      <3>3. Len(Frame(w)') = 1
        BY <3>2 DEF Frame
      <3> QED BY <1>1, <3>1, <3>2, <3>3 DEF PenInv
    <2> QED BY <1>1, <2>1, <2>2, <2>3, GoEffect, WriterStep DEF WireInv
  <1>3. CASE pen[w].at = "end"
    <2>1. pen' = [pen EXCEPT ![w] = NoPen]
      BY <1>3 DEF Paused
    <2>2. NoPen \in PenState
      BY DEF NoPen, PenState, Shows
    <2>3. WireType'
      BY <1>1, <2>1, <2>2 DEF WireType
    <2>4. /\ pen'[w] = NoPen /\ ~AtWork(w)'
          /\ \A v \in Writers \ {w} : pen'[v] = pen[v]
      BY <1>1, <2>1 DEF WireType, NoPen, AtWork
    <2> QED BY <1>1, <2>3, <2>4, WriterStep DEF WireInv, NoPen
  <1> QED BY <1>1, <1>2, <1>3

LEMMA WireAir ==
    ASSUME WireInv, AirEnds
    PROVE  WireInv'
  <1>1. CASE pending = <<>>
    BY <1>1 DEF AirEnds, WireInv, WireType, AtWork, PenInv, Frame
  <1>2. CASE pending # <<>>
    BY <1>2 DEF AirEnds, WireInv, WireType, AtWork
  <1> QED BY <1>1, <1>2

LEMMA WireStepInv ==
    ASSUME WireInv, [WireStep]_wireVars
    PROVE  WireInv'
  <1>1. CASE UNCHANGED wireVars
    BY <1>1 DEF wireVars, WireInv, WireType, AtWork, PenInv, Frame
  <1> QED
    BY <1>1, WireBegin, WireDigit, WireConvert, WireTooLong, WireTransmit, WirePaused,
       WireAir, WireRestart DEF WireStep, Beginning, Writing

(* The chip never shows half of one number and half of another unless the  *)
(* display's task and the monitor have met, and one who writes without     *)
(* meeting the other gets the number shown.                                *)
THEOREM NumbersAreWhole == Spec => []WholeNumbers
  <1>1. Init => WireInv
    BY WireStart DEF Init
  <1>2. WireInv /\ [Next]_vars => WireInv'
    BY WireSteps, WireStepInv
  <1>3. WireInv => WholeNumbers
    BY DEF WireInv, WholeNumbers, Shows, PenInv, AtWork
  <1> QED BY <1>1, <1>2, <1>3, PTL DEF Spec

-----------------------------------------------------------------------------
(* The RMT channels.                                                       *)

(* Where the encoder is in its frame, and how much room it has. *)
InPart(c, k, n) ==
    /\ chan[c].part = k /\ chan[c].pos \in 0 .. n - 1
    /\ chan[c].out = Start(c, k) + chan[c].pos
    /\ chan[c].room \in Nat

(* The strip's driver waits for room in the middle of the pixels; whoever  *)
(* sends them is there to the end.                                         *)
StripInv ==
    /\ chan["strip"].at \in {"idle", "encode", "full", "last"}
    /\ chan["strip"].inOrder = TRUE /\ chan["strip"].stale = FALSE
    /\ chan["strip"].waiting \in Nat
    /\ chan["strip"].at \in {"encode", "full"} =>
         /\ InPart("strip", 1, 192) \/ InPart("strip", 2, 1)
         /\ chan["strip"].held = TRUE
    /\ chan["strip"].at = "last" =>
         chan["strip"].out = 193 /\ chan["strip"].part = 1 /\ chan["strip"].pos = 0

(* An infrared frame fits the memory: its encoder is done before send()    *)
(* returns, if the channel is idle when it is called.  The pauses of a     *)
(* burst see to that.                                                      *)
InShot(k) ==
    /\ chan["ir"].part = k /\ chan["ir"].pos = 0
    /\ chan["ir"].out = Start("ir", k)
    /\ chan["ir"].room = Memory - chan["ir"].out

IrInv ==
    /\ chan["ir"].at \in {"idle", "encode", "last"}
    /\ chan["ir"].inOrder = TRUE /\ chan["ir"].stale = FALSE
    /\ chan["ir"].waiting = 0
    /\ chan["ir"].at = "encode" =>
         /\ InShot(1) \/ InShot(2) \/ InShot(3) \/ InShot(4)
         /\ chan["ir"].held = TRUE
    /\ chan["ir"].at = "last" =>
         chan["ir"].out = 34 /\ chan["ir"].part = 1 /\ chan["ir"].pos = 0

Entry == [at : {"idle", "encode", "full", "last"}, part : Nat, pos : Nat, room : Nat,
          waiting : Nat, out : Nat, inOrder : BOOLEAN, held : BOOLEAN, stale : BOOLEAN,
          read : SUBSET BOOLEAN]

RmtInv ==
    /\ chan \in [Channels -> Entry] /\ lit \in BOOLEAN
    /\ StripInv /\ IrInv
    /\ pauses \in 0 .. 2
    /\ patrol /\ pauses < 2 => AllDone("ir")

LEMMA PartEnds ==
    /\ Ends["strip"] = <<192, 193>> /\ Ends["ir"] = <<1, 17, 33, 34>>
    /\ Start("strip", 1) = 0 /\ Start("strip", 2) = 192
    /\ Start("ir", 1) = 0 /\ Start("ir", 2) = 1 /\ Start("ir", 3) = 17 /\ Start("ir", 4) = 33
  BY DEF Ends, LedParts, NecParts, Start

(* What a call of the encoder does when n > 0 symbols of its part are left.*)
Encoded(c, n) ==
    /\ chan' \in [Channels -> Entry]
    /\ \A d \in Channels \ {c} : chan'[d] = chan[d]
    /\ chan'[c].held = chan[c].held /\ chan'[c].waiting = chan[c].waiting
    /\ chan[c].inOrder /\ Start(c, chan[c].part) + chan[c].pos = chan[c].out
         => chan'[c].inOrder = TRUE
    /\ chan[c].stale = FALSE /\ (Carries(c, chan[c].part) => chan[c].held)
         => chan'[c].stale = FALSE
    /\ c = "strip" /\ chan[c].part = 1 => chan'[c].read = chan[c].read \cup {lit}
    /\ c = "strip" /\ chan[c].part # 1 => chan'[c].read = chan[c].read
    /\ chan[c].room < n =>
         /\ chan'[c].at = "full" /\ chan'[c].part = chan[c].part
         /\ chan'[c].pos = chan[c].pos + chan[c].room
         /\ chan'[c].out = chan[c].out + chan[c].room
         /\ chan'[c].room = 0
    /\ chan[c].room >= n =>
         /\ chan'[c].pos = 0
         /\ chan'[c].out = chan[c].out + n /\ chan'[c].room = chan[c].room - n
         /\ chan[c].part = Len(Ends[c])
              => chan'[c].at = "last" /\ chan'[c].part = 1
         /\ chan[c].part # Len(Ends[c])
              => /\ chan'[c].at = (IF chan[c].room = n THEN "full" ELSE "encode")
                 /\ chan'[c].part = chan[c].part + 1

LEMMA EncodeEffect ==
    ASSUME chan \in [Channels -> Entry], lit \in BOOLEAN,
           NEW c \in Channels, EncodePart(c),
           NEW n \in Nat \ {0}, n = Ends[c][chan[c].part] - Start(c, chan[c].part) - chan[c].pos
    PROVE  Encoded(c, n)
  <1> DEFINE e    == chan[c]
             k    == IF n < e.room THEN n ELSE e.room
             done == e.room >= n
             last == done /\ e.part = Len(Ends[c])
             prt  == IF done THEN (IF last THEN 1 ELSE e.part + 1) ELSE e.part
             ps   == IF done THEN 0 ELSE e.pos + k
             at   == IF last THEN "last" ELSE IF e.room <= n THEN "full" ELSE "encode"
             ord  == e.inOrder /\ Start(c, e.part) + e.pos = e.out
             stl  == e.stale \/ (Carries(c, e.part) /\ ~e.held)
             rd   == IF c = "strip" /\ Carries(c, e.part) THEN e.read \cup {lit} ELSE e.read
             f    == IF done THEN [e EXCEPT !.part = IF last THEN 1 ELSE e.part + 1, !.pos = 0]
                     ELSE [e EXCEPT !.pos = e.pos + k]
             new  == [f EXCEPT !.at = at, !.room = f.room - k, !.out = f.out + k,
                               !.inOrder = f.inOrder /\ Start(c, e.part) + e.pos = e.out,
                               !.stale = f.stale \/ (Carries(c, e.part) /\ ~e.held),
                               !.read = IF c = "strip" /\ Carries(c, e.part)
                                        THEN f.read \cup {lit} ELSE f.read]
  <1>1. e \in Entry
    OBVIOUS
  <1>2. chan' = [chan EXCEPT ![c] = new]
    BY DEF EncodePart, AfterPart
  <1>3. /\ k \in Nat /\ prt \in Nat /\ ps \in Nat
        /\ at \in {"full", "last", "encode"}
    BY <1>1 DEF Entry
  <1>4. ord \in BOOLEAN /\ stl \in BOOLEAN
    BY <1>1 DEF Entry
  <1>5. rd \in SUBSET BOOLEAN
    BY <1>1 DEF Entry
  <1>6. /\ f.at = e.at /\ f.part = prt /\ f.pos = ps /\ f.room = e.room
        /\ f.waiting = e.waiting /\ f.out = e.out /\ f.inOrder = e.inOrder
        /\ f.held = e.held /\ f.stale = e.stale /\ f.read = e.read
        /\ f \in Entry
    BY <1>1, <1>3 DEF Entry
  <1>7. new = [f EXCEPT !.at = at, !.room = e.room - k, !.out = e.out + k,
                        !.inOrder = ord, !.stale = stl, !.read = rd]
    BY <1>6
  <1>8. e.room - k \in Nat /\ e.out + k \in Nat
    BY <1>1 DEF Entry
  <1> HIDE DEF f, prt, ps, at, ord, stl, rd, k, e, new
  <1>9. /\ new \in Entry
        /\ new.at = at /\ new.part = prt /\ new.pos = ps /\ new.room = e.room - k
        /\ new.waiting = e.waiting /\ new.out = e.out + k /\ new.inOrder = ord
        /\ new.held = e.held /\ new.stale = stl /\ new.read = rd
    BY <1>3, <1>4, <1>5, <1>6, <1>7, <1>8 DEF Entry
  <1>10. /\ chan' \in [Channels -> Entry] /\ chan'[c] = new
         /\ \A d \in Channels \ {c} : chan'[d] = chan[d]
    BY <1>2, <1>9
  <1>11. /\ e.inOrder /\ Start(c, e.part) + e.pos = e.out => ord = TRUE
         /\ e.stale = FALSE /\ (Carries(c, e.part) => e.held) => stl = FALSE
    BY <1>4 DEF ord, stl
  <1>12. /\ c = "strip" /\ e.part = 1 => rd = e.read \cup {lit}
         /\ c = "strip" /\ e.part # 1 => rd = e.read
    BY DEF rd, Carries
  <1>13. e.room < n => /\ at = "full" /\ prt = e.part /\ ps = e.pos + e.room
                       /\ e.out + k = e.out + e.room /\ e.room - k = 0
    BY <1>1 DEF at, prt, ps, k, Entry
  <1>14. e.room >= n =>
            /\ ps = 0 /\ e.out + k = e.out + n /\ e.room - k = e.room - n
            /\ e.part = Len(Ends[c]) => at = "last" /\ prt = 1
            /\ e.part # Len(Ends[c]) => /\ at = (IF e.room = n THEN "full" ELSE "encode")
                                        /\ prt = e.part + 1
    BY <1>1 DEF at, prt, ps, k, Entry
  <1> QED BY <1>9, <1>10, <1>11, <1>12, <1>13, <1>14 DEF e, Encoded

(* A call of the strip's encoder reads the pixels as they are, if it is    *)
(* called for those.                                                       *)
StripReads ==
    /\ chan["strip"].at = "encode"
    /\ chan'["strip"].at \in {"encode", "full", "last"}
    /\ chan'["strip"].waiting = chan["strip"].waiting
    /\ chan["strip"].part = 1 => chan'["strip"].read = chan["strip"].read \cup {lit}
    /\ chan["strip"].part # 1 => chan'["strip"].read = chan["strip"].read

(* The strip's encoder, part by part. *)
LEMMA StripEncodes ==
    ASSUME RmtInv, EncodePart("strip")
    PROVE  /\ chan' \in [Channels -> Entry] /\ StripInv'
           /\ chan'["ir"] = chan["ir"]
           /\ StripReads
  <1>1. /\ chan \in [Channels -> Entry] /\ lit \in BOOLEAN /\ "strip" \in Channels
        /\ chan["strip"].at = "encode" /\ chan["strip"].held = TRUE
        /\ chan["strip"].inOrder = TRUE /\ chan["strip"].stale = FALSE
        /\ chan["strip"].waiting \in Nat
        /\ "ir" \in Channels \ {"strip"}
    BY DEF RmtInv, StripInv, EncodePart, Channels
  <1>2. CASE InPart("strip", 1, 192)
    <2> DEFINE n == 192 - chan["strip"].pos
    <2>1. /\ n \in Nat \ {0} /\ chan["strip"].out = chan["strip"].pos
          /\ chan["strip"].part = 1 /\ chan["strip"].room \in Nat
          /\ n = Ends["strip"][chan["strip"].part] - Start("strip", chan["strip"].part)
                    - chan["strip"].pos
          /\ Len(Ends["strip"]) = 2
          /\ Start("strip", chan["strip"].part) + chan["strip"].pos = chan["strip"].out
      BY <1>2, PartEnds DEF InPart
    <2>2. Encoded("strip", n)
      <3> HIDE DEF n
      <3> QED BY <1>1, <2>1, EncodeEffect
    <2>3. /\ chan' \in [Channels -> Entry] /\ chan'["ir"] = chan["ir"]
          /\ chan'["strip"].held = TRUE /\ chan'["strip"].waiting \in Nat
          /\ chan'["strip"].inOrder = TRUE /\ chan'["strip"].stale = FALSE
      BY <1>1, <2>1, <2>2 DEF Encoded
    <2>4. CASE chan["strip"].room < n
      <3>1. /\ chan'["strip"].at = "full" /\ chan'["strip"].part = 1
            /\ chan'["strip"].pos = chan["strip"].pos + chan["strip"].room
            /\ chan'["strip"].out = chan["strip"].out + chan["strip"].room
            /\ chan'["strip"].room = 0
        BY <2>1, <2>2, <2>4 DEF Encoded
      <3>2. chan["strip"].pos + chan["strip"].room \in 0 .. 192 - 1
        <4>1. \A p \in 0 .. 192 - 1, r \in Nat : r < 192 - p => p + r \in 0 .. 192 - 1
          OBVIOUS
        <4>2. chan["strip"].pos \in 0 .. 192 - 1 /\ chan["strip"].room \in Nat
          BY <1>2 DEF InPart
        <4> QED BY <2>4, <4>1, <4>2
      <3>3. chan'["strip"].out = Start("strip", 1) + chan'["strip"].pos
        BY <1>2, <2>1, <3>1, PartEnds DEF InPart
      <3>4. InPart("strip", 1, 192)'
        BY <3>1, <3>2, <3>3 DEF InPart, Start
      <3>5. StripReads
        BY <1>1, <2>1, <2>2, <3>1 DEF Encoded, StripReads
      <3> QED BY <2>3, <3>1, <3>4, <3>5 DEF StripInv
    <2>5. CASE chan["strip"].room >= n
      <3>1. /\ chan'["strip"].at \in {"full", "encode"} /\ chan'["strip"].part = 2
            /\ chan'["strip"].pos = 0 /\ chan'["strip"].out = chan["strip"].out + n
            /\ chan'["strip"].room = chan["strip"].room - n
        BY <2>1, <2>2, <2>5 DEF Encoded
      <3>2. chan["strip"].pos \in 0 .. 191
        BY <1>2 DEF InPart
      <3>3. InPart("strip", 2, 1)'
        BY <2>1, <2>5, <3>1, <3>2, PartEnds DEF InPart, Start
      <3>4. StripReads
        BY <1>1, <2>1, <2>2, <3>1 DEF Encoded, StripReads
      <3> QED BY <2>3, <3>1, <3>3, <3>4 DEF StripInv
    <2> QED BY <2>1, <2>4, <2>5
  <1>3. CASE InPart("strip", 2, 1)
    <2>1. /\ chan["strip"].out = 192 /\ chan["strip"].pos = 0
          /\ chan["strip"].part = 2 /\ chan["strip"].room \in Nat
          /\ 1 = Ends["strip"][chan["strip"].part] - Start("strip", chan["strip"].part)
                    - chan["strip"].pos
          /\ Len(Ends["strip"]) = 2
          /\ Start("strip", chan["strip"].part) + chan["strip"].pos = chan["strip"].out
      BY <1>3, PartEnds DEF InPart
    <2>2. Encoded("strip", 1)
      BY <1>1, <2>1, EncodeEffect
    <2>3. /\ chan' \in [Channels -> Entry] /\ chan'["ir"] = chan["ir"]
          /\ chan'["strip"].held = TRUE /\ chan'["strip"].waiting \in Nat
          /\ chan'["strip"].inOrder = TRUE /\ chan'["strip"].stale = FALSE
      BY <1>1, <2>1, <2>2 DEF Encoded
    <2>4. chan["strip"].room < 1 \/ chan["strip"].room >= 1
      BY <2>1
    <2>5. StripInv'
      BY <1>1, <1>3, <2>1, <2>2, <2>3, <2>4, PartEnds DEF Encoded, StripInv, InPart
    <2>6. StripReads
      BY <1>1, <2>1, <2>2, <2>4 DEF Encoded, StripReads
    <2> QED BY <2>3, <2>5, <2>6
  <1> QED BY <1>1, <1>2, <1>3 DEF RmtInv, StripInv

LEMMA IrEncodes ==
    ASSUME RmtInv, EncodePart("ir")
    PROVE  /\ chan' \in [Channels -> Entry] /\ IrInv'
           /\ chan'["strip"] = chan["strip"] /\ ~AllDone("ir")
  <1>1. /\ chan \in [Channels -> Entry] /\ lit \in BOOLEAN /\ "ir" \in Channels
        /\ chan["ir"].at = "encode" /\ chan["ir"].held = TRUE
        /\ chan["ir"].inOrder = TRUE /\ chan["ir"].stale = FALSE
        /\ chan["ir"].waiting = 0
        /\ "strip" \in Channels \ {"ir"}
    BY DEF RmtInv, IrInv, EncodePart, Channels
  <1>2. PICK k \in 1 .. 4 : InShot(k)
    BY <1>1 DEF RmtInv, IrInv
  <1>3. PICK n \in {1, 16} :
          /\ n = Ends["ir"][k] - Start("ir", k)
          /\ Start("ir", k) + n = (IF k = 4 THEN 34 ELSE Start("ir", k + 1))
          /\ n < Memory - Start("ir", k)
    <2>1. k = 1 \/ k = 2 \/ k = 3 \/ k = 4
      OBVIOUS
    <2> QED BY <2>1, PartEnds DEF Memory
  <1>4. /\ chan["ir"].part = k /\ chan["ir"].pos = 0 /\ chan["ir"].out = Start("ir", k)
        /\ chan["ir"].room = Memory - Start("ir", k) /\ Len(Ends["ir"]) = 4
        /\ n \in Nat \ {0} /\ Start("ir", k) \in Nat
        /\ n = Ends["ir"][chan["ir"].part] - Start("ir", chan["ir"].part) - chan["ir"].pos
        /\ Start("ir", chan["ir"].part) + chan["ir"].pos = chan["ir"].out
        /\ chan["ir"].room >= n /\ chan["ir"].room # n
    BY <1>2, <1>3, PartEnds DEF InShot, Memory
  <1>5. /\ chan' \in [Channels -> Entry] /\ chan'["strip"] = chan["strip"]
        /\ chan'["ir"].held = TRUE /\ chan'["ir"].waiting = 0
        /\ chan'["ir"].inOrder = TRUE /\ chan'["ir"].stale = FALSE
        /\ chan'["ir"].pos = 0 /\ chan'["ir"].out = Start("ir", k) + n
        /\ chan'["ir"].room = Memory - Start("ir", k) - n
        /\ k = 4 => chan'["ir"].at = "last" /\ chan'["ir"].part = 1
        /\ k # 4 => chan'["ir"].at = "encode" /\ chan'["ir"].part = k + 1
    <2>1. Encoded("ir", n)
      BY <1>1, <1>4, EncodeEffect
    <2> QED BY <1>1, <1>4, <2>1 DEF Encoded
  <1>6. IrInv'
    BY <1>3, <1>4, <1>5, PartEnds DEF IrInv, InShot, Memory
  <1> QED BY <1>1, <1>5, <1>6 DEF AllDone

(* What a step of the whole is to the channels. *)
RmtSteps ==
    \/ RmtTransmit("strip") /\ UNCHANGED <<lit, patrol, pauses>>
    \/ RmtStep /\ UNCHANGED <<patrol, pauses>>
    \/ lit' \in BOOLEAN /\ UNCHANGED <<chan, patrol, pauses>>
    \/ AllDone("ir") /\ patrol' = TRUE /\ UNCHANGED <<chan, lit, pauses>>
    \/ patrol /\ pauses = 0 /\ RmtTransmit("ir") /\ pauses' = 2 /\ UNCHANGED <<lit, patrol>>
    \/ pauses > 0 /\ AllDone("ir") /\ pauses' = pauses - 1 /\ UNCHANGED <<chan, lit, patrol>>
    \/ patrol' = FALSE /\ pauses' = 0 /\ UNCHANGED <<chan, lit>>
    \/ RmtReset /\ patrol' = FALSE /\ pauses' = 0

LEMMA ChannelSteps == [Next]_vars => RmtSteps \/ UNCHANGED <<chan, lit, patrol, pauses>>
  <1> SUFFICES ASSUME [Next]_vars, ~UNCHANGED <<chan, lit, patrol, pauses>>
               PROVE  RmtSteps
    OBVIOUS
  <1>1. CASE Restart
    BY <1>1 DEF Restart, LightsStart, RmtSteps
  <1>2. CASE UseLights
    <2>1. CASE Blinks
      BY <1>2, <2>1 DEF UseLights, Blinks, RmtSteps, rmtVars
    <2>2. CASE Patrols
      BY <2>2 DEF Patrols, BeginPatrol, Shot, PauseEnds, EndPatrol, RmtSteps, rmtVars
    <2>3. CASE RmtStep /\ UNCHANGED <<blinking, patrol, pauses, weapon, used>>
      BY <2>3 DEF RmtSteps
    <2> QED BY <1>2, <2>1, <2>2, <2>3 DEF UseLights
  <1>3. CASE ClearStrip
    BY <1>3 DEF ClearStrip, RmtSteps, rmtVars
  <1> QED
    BY <1>1, <1>2, <1>3 DEF Next, vars, lights, rmtVars, BootStep, EarlyCall, Tasks, UseServo,
       UseDisplay, UseSound, TryDeepSleep, Announce, StopTurret, SleepMic, ClearDisplay,
       CutServo, CutWeapon, DeepSleep, PowerOn

LEMMA RmtStart ==
    RmtInit /\ patrol = FALSE /\ pauses = 0 => RmtInv
  <1> SUFFICES ASSUME RmtInit, patrol = FALSE, pauses = 0 PROVE RmtInv
    OBVIOUS
  <1>1. chan = [c \in Channels |-> Idle] /\ lit \in BOOLEAN
    BY DEF RmtInit, RmtStarts
  <1>2. chan["strip"] = Idle /\ chan["ir"] = Idle
    BY <1>1 DEF Channels
  <1>3. Idle \in Entry
    BY DEF Idle, Entry
  <1>4. chan \in [Channels -> Entry]
    BY <1>1, <1>3
  <1> QED BY <1>1, <1>2, <1>4 DEF RmtInv, StripInv, IrInv, Idle

LEMMA RmtRestart ==
    RmtReset /\ patrol' = FALSE /\ pauses' = 0 => RmtInv'
  <1>1. (RmtInit /\ patrol = FALSE /\ pauses = 0 => RmtInv)'
    BY RmtStart, PTL
  <1>2. RmtReset => RmtInit'
    BY DEF RmtReset, RmtInit
  <1> QED BY <1>1, <1>2

(* A frame begins: the driver has all the memory for it. *)
LEMMA FrameBegins ==
    ASSUME NEW held \in BOOLEAN
    PROVE  LET e == FirstCall(held)
           IN  /\ e \in Entry
               /\ e.at = "encode" /\ e.part = 1 /\ e.pos = 0 /\ e.room = 48 /\ e.waiting = 0
               /\ e.out = 0 /\ e.inOrder = TRUE /\ e.held = held /\ e.stale = FALSE
               /\ e.read = {}
  BY DEF FirstCall, Idle, Entry, Memory

LEMMA Transmits ==
    ASSUME RmtInv, NEW c \in Channels, RmtTransmit(c)
    PROVE  /\ chan' \in [Channels -> Entry]
           /\ \A d \in Channels \ {c} : chan'[d] = chan[d]
           /\ chan[c].at = "idle" => chan'[c] = FirstCall(TRUE)
           /\ chan[c].at # "idle" => chan'[c] = [chan[c] EXCEPT !.waiting = chan[c].waiting + 1]
  <1> DEFINE new == IF chan[c].at = "idle" THEN FirstCall(TRUE)
                    ELSE [chan[c] EXCEPT !.waiting = chan[c].waiting + 1]
  <1>1. chan' = [chan EXCEPT ![c] = new]
    BY DEF RmtTransmit
  <1>2. FirstCall(TRUE) \in Entry
    BY FrameBegins
  <1>3. new \in Entry
    <2>1. chan[c] \in Entry
      BY DEF RmtInv
    <2>2. [chan[c] EXCEPT !.waiting = chan[c].waiting + 1] \in Entry
      BY <2>1 DEF Entry
    <2> QED BY <1>2, <2>2
  <1> HIDE DEF new
  <1>4. /\ chan' \in [Channels -> Entry] /\ chan'[c] = new
        /\ \A d \in Channels \ {c} : chan'[d] = chan[d]
    BY <1>1, <1>3 DEF RmtInv
  <1> QED BY <1>4 DEF new

LEMMA StripTransmits ==
    ASSUME RmtInv, RmtTransmit("strip")
    PROVE  chan' \in [Channels -> Entry] /\ StripInv' /\ chan'["ir"] = chan["ir"]
  <1>1. /\ chan' \in [Channels -> Entry] /\ chan'["ir"] = chan["ir"]
        /\ chan["strip"].at = "idle" => chan'["strip"] = FirstCall(TRUE)
        /\ chan["strip"].at # "idle" => chan'["strip"] = [chan["strip"] EXCEPT !.waiting = chan["strip"].waiting + 1]
    BY Transmits DEF Channels
  <1>2. chan["strip"] \in Entry /\ StripInv
    BY DEF RmtInv, Channels
  <1>3. CASE chan["strip"].at = "idle"
    <2>1. /\ chan'["strip"].at = "encode" /\ chan'["strip"].part = 1
          /\ chan'["strip"].pos = 0 /\ chan'["strip"].room = 48
          /\ chan'["strip"].waiting = 0 /\ chan'["strip"].out = 0
          /\ chan'["strip"].inOrder = TRUE /\ chan'["strip"].held = TRUE
          /\ chan'["strip"].stale = FALSE
      BY <1>1, <1>3, FrameBegins
    <2>2. InPart("strip", 1, 192)'
      BY <2>1, PartEnds DEF InPart, Start
    <2> QED BY <1>1, <2>1, <2>2 DEF StripInv
  <1>4. CASE chan["strip"].at # "idle"
    <2>1. /\ chan'["strip"].at = chan["strip"].at /\ chan'["strip"].part = chan["strip"].part
          /\ chan'["strip"].pos = chan["strip"].pos /\ chan'["strip"].room = chan["strip"].room
          /\ chan'["strip"].waiting = chan["strip"].waiting + 1
          /\ chan'["strip"].out = chan["strip"].out
          /\ chan'["strip"].inOrder = chan["strip"].inOrder
          /\ chan'["strip"].held = chan["strip"].held
          /\ chan'["strip"].stale = chan["strip"].stale
      BY <1>1, <1>2, <1>4 DEF Entry
    <2>2. \A k, n : InPart("strip", k, n) => InPart("strip", k, n)'
      BY <2>1 DEF InPart, Start
    <2> QED BY <1>1, <1>2, <2>1, <2>2 DEF StripInv
  <1> QED BY <1>1, <1>3, <1>4

LEMMA IrTransmits ==
    ASSUME RmtInv, AllDone("ir"), RmtTransmit("ir")
    PROVE  chan' \in [Channels -> Entry] /\ IrInv' /\ chan'["strip"] = chan["strip"]
  <1>1. /\ chan' \in [Channels -> Entry] /\ chan'["strip"] = chan["strip"]
        /\ chan'["ir"] = FirstCall(TRUE)
    BY Transmits DEF Channels, AllDone
  <1>2. IrInv'
    <2>1. /\ chan'["ir"].at = "encode" /\ chan'["ir"].part = 1
          /\ chan'["ir"].pos = 0 /\ chan'["ir"].room = 48
          /\ chan'["ir"].waiting = 0 /\ chan'["ir"].out = 0
          /\ chan'["ir"].inOrder = TRUE /\ chan'["ir"].held = TRUE
          /\ chan'["ir"].stale = FALSE
      BY <1>1, FrameBegins
    <2>2. InShot(1)'
      BY <2>1, PartEnds DEF InShot, Memory, Start
    <2> QED BY <2>1, <2>2 DEF IrInv
  <1> QED BY <1>1, <1>2

LEMMA Refills ==
    ASSUME RmtInv, NEW c \in Channels, Refill(c)
    PROVE  /\ c = "strip" /\ chan' \in [Channels -> Entry] /\ StripInv'
           /\ chan'["ir"] = chan["ir"]
           /\ chan'["strip"].read = chan["strip"].read
           /\ chan'["strip"].waiting = chan["strip"].waiting
           /\ chan'["strip"].part = chan["strip"].part /\ chan'["strip"].pos = chan["strip"].pos
  <1>1. c = "strip" /\ chan["strip"].at = "full" /\ chan["strip"] \in Entry /\ StripInv
        /\ chan["strip"].held = TRUE
    BY DEF RmtInv, Refill, IrInv, StripInv, Channels
  <1> DEFINE h   == chan[c].held /\ c = "strip"
             new == [chan[c] EXCEPT !.at = "encode", !.room = 24, !.held = h]
  <1>2. chan' = [chan EXCEPT ![c] = new]
    BY DEF Refill, Half, Memory
  <1>3. h = TRUE
    BY <1>1
  <1> HIDE DEF h
  <1>4. /\ new \in Entry /\ new.at = "encode" /\ new.room = 24 /\ new.held = TRUE
        /\ new.part = chan["strip"].part /\ new.pos = chan["strip"].pos
        /\ new.out = chan["strip"].out /\ new.inOrder = chan["strip"].inOrder
        /\ new.stale = chan["strip"].stale /\ new.waiting = chan["strip"].waiting
        /\ new.read = chan["strip"].read
    BY <1>1, <1>3 DEF Entry
  <1> HIDE DEF new
  <1>5. /\ chan' \in [Channels -> Entry] /\ chan'["strip"] = new /\ chan'["ir"] = chan["ir"]
    BY <1>1, <1>2, <1>4 DEF RmtInv, Channels
  <1>6. StripInv'
    BY <1>1, <1>4, <1>5 DEF StripInv, InPart
  <1> QED BY <1>1, <1>4, <1>5, <1>6

(* The frame is out: the next one that waits, if any, begins. *)
LEMMA StripSent ==
    ASSUME RmtInv, Sent("strip")
    PROVE  /\ chan' \in [Channels -> Entry] /\ StripInv' /\ chan'["ir"] = chan["ir"]
           /\ chan["strip"].at = "last" /\ shown' = chan["strip"].read
           /\ chan["strip"].waiting = 0 => chan'["strip"].at = "idle"
  <1> DEFINE e   == chan["strip"]
             fst == FirstCall("strip" = "strip")
             new == IF e.waiting = 0 THEN [e EXCEPT !.at = "idle", !.held = FALSE]
                    ELSE [fst EXCEPT !.waiting = e.waiting - 1, !.stale = e.stale,
                                     !.inOrder = e.inOrder]
  <1>1. chan' = [chan EXCEPT !["strip"] = new] /\ e.at = "last" /\ shown' = e.read
    BY DEF Sent
  <1>2. e \in Entry /\ StripInv /\ e.waiting \in Nat /\ e.stale = FALSE /\ e.inOrder = TRUE
    BY DEF RmtInv, StripInv, Channels
  <1>3. /\ fst \in Entry /\ fst.at = "encode" /\ fst.part = 1 /\ fst.pos = 0
        /\ fst.room = 48 /\ fst.out = 0 /\ fst.held = TRUE
    <2> DEFINE b == "strip" = "strip"
    <2>1. b = TRUE
      OBVIOUS
    <2> HIDE DEF b
    <2>2. fst = FirstCall(TRUE)
      BY <2>1 DEF b
    <2> HIDE DEF fst
    <2> QED BY <2>2, FrameBegins
  <1> HIDE DEF fst, e
  <1>4. CASE e.waiting = 0
    <2>1. new \in Entry /\ new.at = "idle" /\ new.stale = FALSE /\ new.inOrder = TRUE
          /\ new.waiting = 0
      BY <1>2, <1>4 DEF Entry
    <2> HIDE DEF new
    <2>2. /\ chan' \in [Channels -> Entry] /\ chan'["strip"] = new
          /\ chan'["ir"] = chan["ir"]
      BY <1>1, <2>1 DEF RmtInv, Channels
    <2> QED BY <1>1, <2>1, <2>2 DEF StripInv, e
  <1>5. CASE e.waiting # 0
    <2> DEFINE w == e.waiting - 1
    <2>0. w \in Nat
      BY <1>2, <1>5
    <2>a. new = [fst EXCEPT !.waiting = w, !.stale = e.stale, !.inOrder = e.inOrder]
      BY <1>5
    <2> HIDE DEF w, new
    <2>1. /\ new \in Entry /\ new.at = "encode" /\ new.stale = FALSE /\ new.inOrder = TRUE
          /\ new.waiting \in Nat /\ new.part = 1 /\ new.pos = 0 /\ new.room = 48
          /\ new.out = 0 /\ new.held = TRUE
      BY <1>2, <1>3, <2>0, <2>a DEF Entry
    <2>2. /\ chan' \in [Channels -> Entry] /\ chan'["strip"] = new
          /\ chan'["ir"] = chan["ir"]
      BY <1>1, <2>1 DEF RmtInv, Channels
    <2>3. InPart("strip", 1, 192)'
      BY <2>1, <2>2, PartEnds DEF InPart, Start
    <2> QED BY <1>1, <1>5, <2>1, <2>2, <2>3 DEF StripInv, e
  <1> QED BY <1>4, <1>5

LEMMA IrSent ==
    ASSUME RmtInv, Sent("ir")
    PROVE  /\ chan' \in [Channels -> Entry] /\ IrInv' /\ chan'["strip"] = chan["strip"]
           /\ AllDone("ir")' /\ shown' = shown
  <1> DEFINE e   == chan["ir"]
             new == [e EXCEPT !.at = "idle", !.held = FALSE]
  <1>1. e \in Entry /\ e.waiting = 0 /\ e.stale = FALSE /\ e.inOrder = TRUE
    BY DEF RmtInv, IrInv, Channels
  <1>2. chan' = [chan EXCEPT !["ir"] = new]
    BY <1>1 DEF Sent
  <1>3. new \in Entry /\ new.at = "idle" /\ new.stale = FALSE /\ new.inOrder = TRUE
        /\ new.waiting = 0
    BY <1>1 DEF Entry
  <1> HIDE DEF new
  <1>4. /\ chan' \in [Channels -> Entry] /\ chan'["ir"] = new
        /\ chan'["strip"] = chan["strip"]
    BY <1>2, <1>3 DEF RmtInv, Channels
  <1>5. shown' = shown
    BY DEF Sent
  <1> QED BY <1>3, <1>4, <1>5 DEF IrInv, AllDone

LEMMA RmtStepInv ==
    ASSUME RmtInv, RmtSteps \/ UNCHANGED <<chan, lit, patrol, pauses>>
    PROVE  RmtInv'
  <1>1. ASSUME chan' \in [Channels -> Entry], StripInv', chan'["ir"] = chan["ir"],
               UNCHANGED <<lit, patrol, pauses>>
        PROVE  RmtInv'
    BY <1>1 DEF RmtInv, IrInv, InShot, AllDone
  <1>2. ASSUME chan' = chan, lit' \in BOOLEAN, pauses' \in 0 .. 2,
               patrol' /\ pauses' < 2 => AllDone("ir")
        PROVE  RmtInv'
    BY <1>2 DEF RmtInv, StripInv, IrInv, InPart, InShot, AllDone
  <1>3. ASSUME chan' \in [Channels -> Entry], IrInv', chan'["strip"] = chan["strip"],
               lit' = lit, pauses' \in 0 .. 2, patrol' /\ pauses' < 2 => AllDone("ir")'
        PROVE  RmtInv'
    BY <1>3 DEF RmtInv, StripInv, InPart
  <1>4. CASE RmtTransmit("strip") /\ UNCHANGED <<lit, patrol, pauses>>
    BY <1>1, <1>4, StripTransmits
  <1>5. CASE RmtStep /\ UNCHANGED <<patrol, pauses>>
    <2>1. ASSUME EncodePart("strip") \/ Refill("strip") \/ Sent("strip") PROVE RmtInv'
      BY <1>1, <1>5, <2>1, StripEncodes, Refills, StripSent DEF RmtStep, Channels
    <2>2. ASSUME EncodePart("ir") PROVE RmtInv'
      <3>1. ~(patrol /\ pauses < 2)
        BY <2>2, IrEncodes DEF RmtInv
      <3> QED BY <1>3, <1>5, <2>2, <3>1, IrEncodes DEF RmtStep, RmtInv
    <2>3. ~Refill("ir")
      BY Refills DEF Channels
    <2>4. ASSUME Sent("ir") PROVE RmtInv'
      BY <1>3, <1>5, <2>4, IrSent DEF RmtStep, RmtInv
    <2> QED BY <1>5, <2>1, <2>2, <2>3, <2>4 DEF RmtStep, Channels
  <1>6. CASE /\ patrol /\ pauses = 0 /\ RmtTransmit("ir")
             /\ pauses' = 2 /\ UNCHANGED <<lit, patrol>>
    BY <1>3, <1>6, IrTransmits DEF RmtInv
  <1>7. CASE RmtReset /\ patrol' = FALSE /\ pauses' = 0
    BY <1>7, RmtRestart
  <1>8. CASE /\ chan' = chan /\ lit' \in BOOLEAN
             /\ \/ UNCHANGED <<patrol, pauses>>
                \/ AllDone("ir") /\ UNCHANGED pauses
                \/ pauses > 0 /\ AllDone("ir") /\ pauses' = pauses - 1
                \/ patrol' = FALSE /\ pauses' = 0
    BY <1>2, <1>8 DEF RmtInv
  <1>9. lit \in BOOLEAN
    BY DEF RmtInv
  <1> QED BY <1>4, <1>5, <1>6, <1>7, <1>8, <1>9 DEF RmtSteps

(* Every frame goes out whole and in order, from data whose owner is still *)
(* there, whatever the strip's task, a burst and the monitor do meanwhile. *)
THEOREM FramesGoOutWhole == Spec => []FramesAreWhole
  <1>1. Init => RmtInv
    BY RmtStart DEF Init, LightsStart
  <1>2. RmtInv /\ [Next]_vars => RmtInv'
    BY ChannelSteps, RmtStepInv
  <1>3. RmtInv => FramesAreWhole
    <2> SUFFICES ASSUME RmtInv, NEW c \in Channels
                 PROVE  /\ chan[c].inOrder /\ ~chan[c].stale
                        /\ chan[c].at = "last" =>
                             /\ chan[c].out = Ends[c][Len(Ends[c])]
                             /\ chan[c].part = 1 /\ chan[c].pos = 0
      BY DEF FramesAreWhole
    <2>1. /\ Ends["strip"][Len(Ends["strip"])] = 193
          /\ Ends["ir"][Len(Ends["ir"])] = 34
      BY PartEnds
    <2>2. CASE c = "strip"
      BY <2>1, <2>2 DEF RmtInv, StripInv
    <2>3. CASE c = "ir"
      BY <2>1, <2>3 DEF RmtInv, IrInv
    <2> QED BY <2>2, <2>3 DEF Channels
  <1> QED BY <1>1, <1>2, <1>3, PTL DEF Spec

-----------------------------------------------------------------------------
(* Deep sleep.                                                             *)

(* The stages of tryDeepSleep from one device's switch-off on. *)
MicAsleep      == {"display", "clearing", "strip", "unsent", "sent", "servo", "weapon", "dark", "asleep"}
DisplayCleared == MicAsleep \ {"display", "clearing"}
PixelsCleared  == DisplayCleared \ {"strip"}
StripSentDark  == PixelsCleared \ {"unsent", "sent"}

Stages == {"watch", "turret", "mic"} \cup MicAsleep

MicDark ==
    /\ phrases \in Nat
    /\ monitor \in MicAsleep /\ "mic" \notin used => ~speaking /\ phrases = 0 /\ mic = "asleep"

(* The monitor writes its blank display alone, or the display is in use. *)
DisplayDark ==
    "display" \notin used =>
       /\ monitor = "clearing" =>
            /\ ~AtWork("task")
            /\ IF AtWork("monitor") THEN pen["monitor"].alone /\ pen["monitor"].num = Digits0
               ELSE digits = Digits0
       /\ monitor \in DisplayCleared =>
            ~AtWork("task") /\ ~AtWork("monitor") /\ digits = Digits0

(* The black frame is the monitor's own, and read after the pixels were    *)
(* cleared: nobody else's was under way, or the strip is in use.           *)
BlackFrame ==
    IF AllDone("strip") THEN shown = {FALSE}
    ELSE /\ chan["strip"].waiting = 0
         /\ \/ chan["strip"].read = {FALSE}
            \/ /\ chan["strip"].read = {} /\ chan["strip"].at = "encode"
               /\ chan["strip"].part = 1 /\ chan["strip"].pos = 0

StripDark ==
    /\ monitor \notin {"sent"} \cup StripSentDark /\ blinking \in {"no", "write", "send"}
         => AllDone("strip")
    /\ "strip" \notin used =>
         /\ monitor \in PixelsCleared => blinking = "no" /\ lit = FALSE
         /\ monitor = "sent" => BlackFrame
         /\ monitor \in StripSentDark => AllDone("strip") /\ shown = {FALSE}

DarkInv ==
    /\ monitor \in Stages /\ (monitor # "watch" => Booted)
    /\ MicDark /\ DisplayDark /\ StripDark
    /\ power => "servo" \in used
    /\ weapon => "weapon" \in used

CycleInit ==
    /\ ServoInit /\ WireInit /\ RmtInit
    /\ SoundStarts(phrases, speaking, mic)
    /\ LightsStart(blinking, patrol, pauses, weapon)
    /\ CycleStarts(boot, monitor, group, used)

LEMMA DarkStart == CycleInit => DarkInv
  <1> SUFFICES ASSUME CycleInit PROVE DarkInv
    OBVIOUS
  <1>1. power = FALSE /\ weapon = FALSE /\ monitor = "watch" /\ phrases = 0
    BY DEF CycleInit, ServoInit, ServoStarts, SoundStarts, LightsStart, CycleStarts
  <1>2. AllDone("strip")
    BY DEF CycleInit, RmtInit, RmtStarts, AllDone, Idle, Channels
  <1> QED
    BY <1>1, <1>2 DEF DarkInv, Stages, MicAsleep, DisplayCleared, PixelsCleared, StripSentDark,
       MicDark, DisplayDark, StripDark

LEMMA DarkRestart == Restart => DarkInv'
  <1>1. (CycleInit => DarkInv)'
    BY DarkStart, PTL
  <1>2. Restart => CycleInit'
    BY DEF CycleInit, Restart, ServoReset, ServoInit, RmtReset, RmtInit, WireReset, WireInit
  <1> QED BY <1>1, <1>2

(* The stages come in order, and none before the boot is over. *)
LEMMA StageSteps ==
    ASSUME DarkInv, [Next]_vars, ~Restart
    PROVE  /\ monitor' \in Stages /\ (monitor' # "watch" => Booted')
           /\ ~Booted => monitor' = "watch"
  BY DEF DarkInv, Stages, MicAsleep, Booted, Next, vars, BootStep, EarlyCall, Tasks,
         TryDeepSleep, At, Announce, StopTurret, SleepMic, ClearDisplay, ClearStrip, CutServo,
         CutWeapon, DeepSleep, PowerOn

LEMMA MicSteps ==
    ASSUME DarkInv, [Next]_vars, ~Restart
    PROVE  MicDark'
  <1> USE DEF DarkInv, MicDark, MicAsleep, At
  <1>1. CASE BootStep
    BY <1>1 DEF BootStep
  <1>2. CASE Tasks /\ UseSound
    BY <1>2 DEF Tasks, UseSound, Say, BeginPhrase, EndPhrase, Use
  <1>3. CASE Tasks /\ ~UseSound
    <2>1. UNCHANGED <<phrases, speaking, mic, monitor>>
      BY <1>3 DEF Tasks, UseServo, UseDisplay, UseLights, sound
    <2>2. "mic" \in used => "mic" \in used'
      BY <1>3 DEF Tasks, UseServo, UseDisplay, UseLights, Blinks, Patrols, BeginPatrol, Shot,
         PauseEnds, EndPatrol, Use
    <2> QED BY <1>3, <2>1, <2>2 DEF Tasks
  <1>4. CASE TryDeepSleep
    <2>1. CASE SleepMic
      BY <2>1 DEF SleepMic, OffUnless
    <2>2. CASE Announce \/ StopTurret
      BY <2>2 DEF Announce, StopTurret, sound
    <2>3. CASE ClearDisplay \/ ClearStrip \/ CutServo \/ CutWeapon \/ DeepSleep
      BY <2>3 DEF ClearDisplay, ClearStrip, CutServo, CutWeapon, DeepSleep, OffUnless, sound
    <2> QED BY <1>4, <2>1, <2>2, <2>3 DEF TryDeepSleep
  <1>5. CASE UNCHANGED vars
    BY <1>5 DEF vars, sound
  <1> QED BY <1>1, <1>2, <1>3, <1>4, <1>5 DEF Next, EarlyCall, PowerOn

LEMMA PowerSteps ==
    ASSUME DarkInv, [Next]_vars, ~Restart
    PROVE  (power' => "servo" \in used') /\ (weapon' => "weapon" \in used')
  <1> USE DEF DarkInv
  <1>1. CASE Tasks
    <2>1. CASE UseServo
      BY <2>1 DEF UseServo, Use, lights
    <2>2. CASE UseLights
      BY <2>2 DEF UseLights, Blinks, Patrols, BeginPatrol, Shot, PauseEnds, EndPatrol, Use,
         servoVars
    <2>3. CASE UseDisplay \/ UseSound
      BY <2>3 DEF UseDisplay, UseSound, Say, BeginPhrase, EndPhrase, Use, servoVars, lights
    <2> QED BY <1>1, <2>1, <2>2, <2>3 DEF Tasks
  <1>2. CASE TryDeepSleep
    <2>1. CASE CutServo
      BY <2>1 DEF CutServo, PowerOffTgtServo, Cut, OffUnless, lights
    <2>2. CASE CutWeapon
      BY <2>2 DEF CutWeapon, OffUnless, servoVars
    <2>3. CASE ~CutServo /\ ~CutWeapon
      BY <1>2, <2>3 DEF TryDeepSleep, Announce, StopTurret, SleepMic, ClearDisplay, ClearStrip,
         DeepSleep, OffUnless, servoVars, lights
    <2> QED BY <2>1, <2>2, <2>3
  <1>3. CASE BootStep \/ UNCHANGED vars
    BY <1>3 DEF BootStep, vars, servoVars, lights
  <1> QED BY <1>1, <1>2, <1>3 DEF Next, EarlyCall, PowerOn

(* The monitor blanks the display alone, unless the display's task is at   *)
(* work then or takes it up afterwards.                                    *)
BlankWritten ==
    /\ ~AtWork("task")
    /\ IF AtWork("monitor") THEN pen["monitor"].alone /\ pen["monitor"].num = Digits0
       ELSE digits = Digits0

LEMMA BlankWrites ==
    ASSUME WireInv, BlankWritten, Writing("monitor") \/ AirEnds
    PROVE  BlankWritten'
  <1>1. /\ ~AtWork("task") /\ WireType /\ "monitor" \in Writers
        /\ "task" \in Writers \ {"monitor"}
    BY DEF BlankWritten, WireInv, Writers
  <1>2. CASE AirEnds
    <2>1. AtWork("monitor") /\ pen["monitor"].alone
      BY <1>1, <1>2 DEF AirEnds, WireInv, AtWork, Writers, BlankWritten
    <2> QED BY <1>1, <1>2, <2>1 DEF AirEnds, AtWork, BlankWritten
  <1>3. CASE Paused("monitor") /\ pen["monitor"].at = "end"
    <2>1. pen' = [pen EXCEPT !["monitor"] = NoPen] /\ digits' = digits /\ AtWork("monitor")
      BY <1>3 DEF Paused, AtWork
    <2>2. digits = Digits0
      BY <1>1, <1>3, <2>1 DEF WireInv, PenInv, BlankWritten
    <2>3. ~AtWork("monitor")' /\ ~AtWork("task")'
      BY <1>1, <2>1 DEF WireType, AtWork, NoPen
    <2> QED BY <2>1, <2>2, <2>3 DEF BlankWritten
  <1>4. ASSUME NEW at, Go("monitor", at), AtWork("monitor"), at # "no"
        PROVE  BlankWritten'
    BY <1>1, <1>4, GoEffect DEF AtWork, BlankWritten
  <1>5. CASE Convert("monitor")
    <2> DEFINE p == pen["monitor"].pos + 1
    <2>1. pen' = [pen EXCEPT !["monitor"].pos = p] /\ AtWork("monitor")
      BY <1>5 DEF Convert, AtWork
    <2> HIDE DEF p
    <2>2. /\ pen'["monitor"].at = pen["monitor"].at /\ pen'["monitor"].num = pen["monitor"].num
          /\ pen'["monitor"].alone = pen["monitor"].alone /\ pen'["task"] = pen["task"]
      BY <1>1, <2>1 DEF WireType, PenState
    <2> QED BY <1>1, <2>1, <2>2 DEF AtWork, BlankWritten
  <1>6. CASE /\ Writing("monitor") /\ ~Convert("monitor")
             /\ ~(Paused("monitor") /\ pen["monitor"].at = "end")
    <2>1. AtWork("monitor") /\ \E at \in {"tens", "number", "pause", "control", "end"} :
                                  Go("monitor", at)
      BY <1>6 DEF Writing, StoreDigit, TooLong, Transmit, AfterFrame, Paused, AtWork
    <2> QED BY <1>4, <2>1
  <1> QED BY <1>2, <1>3, <1>5, <1>6

LEMMA DisplaySteps ==
    ASSUME WireInv, DarkInv, [Next]_vars, ~Restart
    PROVE  DisplayDark'
  <1> USE DEF At
  <1>1. ASSUME wireVars' = wireVars, "display" \in used => "display" \in used',
               monitor' \in DisplayCleared \cup {"clearing"} =>
                 monitor' = monitor \/ (monitor \in DisplayCleared /\ monitor' \in DisplayCleared)
        PROVE  DisplayDark'
    BY <1>1 DEF DarkInv, DisplayDark, wireVars, AtWork, DisplayCleared, MicAsleep
  <1>2. CASE Tasks /\ UseDisplay
    <2>1. monitor' = monitor
      BY <1>2 DEF Tasks
    <2>2. CASE \E n \in Number \cup {Digits0} : BeginWrite("task", n) /\ Use("display")
      BY <2>2 DEF DisplayDark, Use
    <2>3. CASE (AirEnds \/ Writing("task")) /\ UNCHANGED used
      <3>1. SUFFICES ASSUME "display" \notin used,
                            monitor \in DisplayCleared \cup {"clearing"}
                     PROVE  DisplayDark'
        BY <2>1, <2>3 DEF DisplayDark
      <3>2. ~AtWork("task")
        BY <3>1 DEF DarkInv, DisplayDark
      <3>3. ~Writing("task")
        BY <3>2 DEF Writing, StoreDigit, Convert, TooLong, Transmit, Paused, AtWork
      <3>4. CASE monitor = "clearing"
        <4>1. BlankWritten
          BY <3>1, <3>4 DEF DarkInv, DisplayDark, BlankWritten
        <4>2. BlankWritten'
          BY <2>3, <3>3, <4>1, BlankWrites
        <4> QED BY <2>1, <3>4, <4>2 DEF DisplayDark, BlankWritten, DisplayCleared
      <3>5. CASE monitor \in DisplayCleared
        <4>1. ~AirEnds
          BY <3>1, <3>5 DEF DarkInv, DisplayDark, WireInv, AirEnds, AtWork, Writers
        <4> QED BY <2>3, <3>3, <4>1
      <3> QED BY <3>1, <3>4, <3>5
    <2> QED BY <1>2, <2>2, <2>3 DEF UseDisplay
  <1>3. CASE Tasks /\ ~UseDisplay
    <2>1. UNCHANGED <<wireVars, monitor>>
      BY <1>3 DEF Tasks, UseServo, UseSound, UseLights
    <2>2. "display" \in used => "display" \in used'
      BY <1>3 DEF Tasks, UseServo, UseSound, Say, BeginPhrase, EndPhrase, UseLights, Blinks,
         Patrols, BeginPatrol, Shot, PauseEnds, EndPatrol, Use
    <2> QED BY <1>1, <2>1, <2>2
  <1>4. CASE ClearDisplay
    <2>1. CASE At("display", "clearing") /\ BeginWrite("monitor", Digits0)
               /\ OffUnless("display", AtWork("task"))
      <3>1. SUFFICES ASSUME ~AtWork("task") PROVE DisplayDark'
        BY <2>1 DEF OffUnless, DisplayDark
      <3>2. pen' = [v \in Writers |->
                      IF v = "monitor" THEN [at |-> "ones", num |-> Digits0, pos |-> 0, alone |-> TRUE]
                      ELSE [pen[v] EXCEPT !.alone = TRUE]]
        BY <2>1, <3>1 DEF BeginWrite, Writers
      <3>3. WireType
        BY DEF WireInv
      <3>4. BlankWritten'
        BY <3>1, <3>2, <3>3 DEF BlankWritten, AtWork, Writers, WireType, PenState
      <3> QED BY <2>1, <3>4 DEF BlankWritten, DisplayDark, DisplayCleared
    <2>2. CASE At("clearing", "clearing") /\ (Writing("monitor") \/ AirEnds) /\ UNCHANGED used
      <3>1. SUFFICES ASSUME "display" \notin used PROVE DisplayDark'
        BY <2>2 DEF DisplayDark
      <3>2. BlankWritten'
        BY <2>2, <3>1, BlankWrites DEF DarkInv, DisplayDark, BlankWritten
      <3> QED BY <2>2, <3>2 DEF BlankWritten, DisplayDark, DisplayCleared
    <2>3. CASE At("clearing", "strip") /\ ~AtWork("monitor") /\ UNCHANGED <<wireVars, used>>
      BY <2>3 DEF DarkInv, DisplayDark, DisplayCleared, wireVars, AtWork
    <2> QED BY <1>4, <2>1, <2>2, <2>3 DEF ClearDisplay
  <1>5. CASE Announce \/ StopTurret \/ SleepMic \/ ClearStrip \/ CutServo \/ CutWeapon \/ DeepSleep
    BY <1>1, <1>5 DEF Announce, StopTurret, SleepMic, ClearStrip, CutServo, CutWeapon, DeepSleep,
       OffUnless, DisplayCleared, MicAsleep
  <1>6. CASE BootStep \/ UNCHANGED vars
    BY <1>1, <1>6 DEF BootStep, vars
  <1> QED BY <1>2, <1>3, <1>4, <1>5, <1>6 DEF Next, EarlyCall, PowerOn, TryDeepSleep

(* A step of the channels, as the strip's black frame has it. *)
LEMMA FrameSteps ==
    ASSUME RmtInv, RmtStep
    PROVE  /\ AllDone("strip") => AllDone("strip")' /\ shown' = shown
           /\ BlackFrame /\ lit = FALSE => BlackFrame'
  <1>1. CASE EncodePart("strip") /\ UNCHANGED shown
    <2>1. StripReads /\ ~AllDone("strip")
      BY <1>1, StripEncodes DEF StripReads, AllDone
    <2>2. ASSUME BlackFrame, lit = FALSE PROVE BlackFrame'
      BY <2>1, <2>2 DEF BlackFrame, StripReads, AllDone
    <2> QED BY <2>1, <2>2
  <1>2. CASE Refill("strip") /\ UNCHANGED shown
    <2>1. chan["strip"].at = "full" /\ chan'["strip"].at = "encode"
      BY <1>2 DEF Refill, RmtInv, Entry, Channels
    <2> QED BY <1>2, <2>1, Refills DEF BlackFrame, AllDone, Channels
  <1>3. CASE Sent("strip")
    BY <1>3, StripSent DEF BlackFrame, AllDone
  <1>4. CASE chan'["strip"] = chan["strip"] /\ shown' = shown
    BY <1>4 DEF BlackFrame, AllDone
  <1>5. CASE EncodePart("ir") /\ UNCHANGED shown
    BY <1>4, <1>5, IrEncodes
  <1>6. CASE Sent("ir")
    BY <1>4, <1>6, IrSent
  <1> QED BY <1>1, <1>2, <1>3, <1>5, <1>6, Refills DEF RmtStep, Channels

LEMMA StripSteps ==
    ASSUME RmtInv, DarkInv, [Next]_vars, ~Restart
    PROVE  StripDark'
  <1> USE DEF At
  <1> DEFINE Sending == {"sent"} \cup StripSentDark
  <1>1. StripDark
    BY DEF DarkInv
  <1>2. ASSUME UNCHANGED <<rmtVars, blinking>>, "strip" \in used => "strip" \in used',
               monitor' \in PixelsCleared =>
                 monitor' = monitor \/ (monitor \in StripSentDark /\ monitor' \in StripSentDark),
               monitor \in PixelsCleared => monitor' \in PixelsCleared
        PROVE  StripDark'
    BY <1>1, <1>2 DEF StripDark, BlackFrame, AllDone, rmtVars, PixelsCleared, StripSentDark,
       DisplayCleared, MicAsleep
  <1>3. CASE Tasks /\ UseLights
    <2>1. monitor' = monitor /\ ("strip" \in used => "strip" \in used')
      BY <1>3 DEF Tasks, UseLights, Blinks, Patrols, BeginPatrol, Shot, PauseEnds, EndPatrol, Use
    <2>2. CASE Blinks
      <3>1. CASE Led("no", "write") /\ Use("strip") /\ UNCHANGED rmtVars
        BY <1>1, <2>1, <3>1 DEF StripDark, Led, Use, AllDone, rmtVars
      <3>2. CASE blinking # "no" /\ used' = used
        <4>1. "strip" \in used' \/ monitor' \notin PixelsCleared
          BY <1>1, <2>1, <3>2 DEF StripDark
        <4>2. monitor' \notin Sending /\ blinking' \in {"no", "write", "send"} => AllDone("strip")'
          BY <1>1, <2>1, <2>2, <3>2 DEF StripDark, Blinks, Led, AllDone, rmtVars
        <4> QED BY <4>1, <4>2 DEF StripDark, PixelsCleared, StripSentDark, DisplayCleared, MicAsleep
      <3> QED BY <2>2, <3>1, <3>2 DEF Blinks, Led
    <2>3. CASE Patrols
      <3>1. /\ chan'["strip"] = chan["strip"] /\ UNCHANGED <<lit, blinking>>
        BY <2>3, Transmits DEF Patrols, BeginPatrol, Shot, PauseEnds, EndPatrol, rmtVars, Channels
      <3>2. shown' = shown
        BY <2>3 DEF Patrols, BeginPatrol, Shot, PauseEnds, EndPatrol, rmtVars
      <3> QED BY <1>1, <2>1, <3>1, <3>2 DEF StripDark, BlackFrame, AllDone
    <2>4. CASE RmtStep /\ UNCHANGED <<blinking, used>>
      BY <1>1, <2>1, <2>4, FrameSteps DEF StripDark, RmtStep, PixelsCleared, StripSentDark,
         DisplayCleared, MicAsleep
    <2> QED BY <1>3, <2>2, <2>3, <2>4 DEF UseLights
  <1>4. CASE Tasks /\ ~UseLights
    <2>1. UNCHANGED <<rmtVars, blinking, monitor>>
      BY <1>4 DEF Tasks, UseServo, UseSound, UseDisplay, lights
    <2>2. "strip" \in used => "strip" \in used'
      BY <1>4 DEF Tasks, UseServo, UseSound, Say, BeginPhrase, EndPhrase, UseDisplay, Use
    <2> QED BY <1>2, <2>1, <2>2
  <1>5. CASE ClearStrip
    <2>1. CASE At("strip", "unsent") /\ lit' = FALSE /\ OffUnless("strip", blinking # "no")
               /\ UNCHANGED <<chan, shown, blinking>>
      BY <1>1, <2>1 DEF StripDark, AllDone, OffUnless, PixelsCleared, StripSentDark,
         DisplayCleared, MicAsleep
    <2>2. CASE At("unsent", "sent") /\ RmtTransmit("strip") /\ UNCHANGED <<lit, used, blinking>>
      <3>1. "strip" \notin used => BlackFrame'
        <4>1. SUFFICES ASSUME "strip" \notin used PROVE BlackFrame'
          OBVIOUS
        <4>2. AllDone("strip")
          BY <1>1, <2>2, <4>1 DEF StripDark, PixelsCleared, StripSentDark, DisplayCleared, MicAsleep
        <4>3. chan'["strip"] = FirstCall(TRUE)
          BY <2>2, <4>2, Transmits DEF AllDone, Channels
        <4> QED BY <4>3, FrameBegins DEF BlackFrame, AllDone
      <3> QED BY <1>1, <2>2, <3>1 DEF StripDark, PixelsCleared, StripSentDark, DisplayCleared, MicAsleep
    <2>3. CASE At("sent", "sent") /\ RmtStep /\ UNCHANGED <<used, blinking>>
      BY <1>1, <2>3, FrameSteps DEF StripDark, RmtStep, PixelsCleared, StripSentDark,
         DisplayCleared, MicAsleep
    <2>4. CASE At("sent", "servo") /\ AllDone("strip") /\ UNCHANGED <<rmtVars, used, blinking>>
      BY <1>1, <2>4 DEF StripDark, BlackFrame, AllDone, rmtVars, PixelsCleared, StripSentDark,
         DisplayCleared, MicAsleep
    <2> QED BY <1>5, <2>1, <2>2, <2>3, <2>4 DEF ClearStrip
  <1>6. CASE Announce \/ StopTurret \/ SleepMic \/ ClearDisplay \/ CutServo \/ CutWeapon \/ DeepSleep
    BY <1>2, <1>6 DEF Announce, StopTurret, SleepMic, ClearDisplay, CutServo, CutWeapon, DeepSleep,
       OffUnless, lights, PixelsCleared, StripSentDark, DisplayCleared, MicAsleep
  <1>7. CASE BootStep \/ UNCHANGED vars
    BY <1>2, <1>7 DEF BootStep, vars, lights
  <1> QED BY <1>3, <1>4, <1>5, <1>6, <1>7 DEF Next, EarlyCall, PowerOn, TryDeepSleep

(* When deep sleep begins, whatever still shines, speaks or has power was  *)
(* used by some task while the monitor was switching it off, or later.     *)
THEOREM SleepIsDark == Spec => []SleepsDark
  <1> DEFINE Inv == WireInv /\ RmtInv /\ DarkInv
  <1>1. Init => Inv
    BY WireStart, RmtStart, DarkStart DEF Init, LightsStart, CycleInit
  <1>2. Inv /\ [Next]_vars => Inv'
    <2>1. WireInv /\ RmtInv /\ DarkInv /\ [Next]_vars => DarkInv'
      BY DarkRestart, StageSteps, MicSteps, PowerSteps, DisplaySteps, StripSteps DEF DarkInv
    <2> QED BY <2>1, WireSteps, WireStepInv, ChannelSteps, RmtStepInv
  <1>3. Inv => SleepsDark
    BY DEF DarkInv, MicDark, DisplayDark, StripDark, SleepsDark, OnAtSleep, MicAsleep,
       DisplayCleared, PixelsCleared, StripSentDark
  <1> QED BY <1>1, <1>2, <1>3, PTL DEF Spec

-----------------------------------------------------------------------------
(* The power monitor.  Nothing it counts with depends on another task.     *)
CountersOK ==
    /\ lowCount \in Nat /\ lowRun \in Nat
    /\ runCount \in 0 .. WarnEvery - 1 /\ quietRun \in Nat

(* The counter of low readings never runs ahead of the readings. *)
LowInv ==
    /\ lowCount <= lowRun
    /\ pc = "try" => ~forced
    /\ pc = "sleep" /\ forced => lowRun > LowRounds

(* Rounds without a warning are counted from the last round that was       *)
(* numbered 0; the round that forces sleep is not numbered, and the last.  *)
Asleep == pc \in {"sleep", "dark", "asleep"}

QuietInv ==
    /\ quietRun < WarnEvery
    /\ ~Asleep /\ runCount > 0 => quietRun < runCount

MonitorInv == CountersOK /\ LowInv /\ QuietInv

-----------------------------------------------------------------------------
(* Capping keeps small numbers as they are. *)
LEMMA CappedNat ==
    ASSUME NEW n \in Nat, NEW cap \in Nat
    PROVE  /\ Capped(n, cap) \in Nat
           /\ Capped(n, cap) <= n /\ Capped(n, cap) <= cap
           /\ n <= cap => Capped(n, cap) = n
  BY DEF Capped

(* The number of the next round, modulo WarnEvery. *)
LEMMA NextRound ==
    ASSUME NEW r \in 0 .. WarnEvery - 1
    PROVE  /\ r % WarnEvery = r
           /\ r + 1 < WarnEvery => (r + 1) % WarnEvery = r + 1
           /\ r + 1 = WarnEvery => (r + 1) % WarnEvery = 0
<1>1. WarnEvery \in Nat \ {0} /\ r \in Nat
  BY PowerAssumption
<1>2. WarnEvery % WarnEvery = 0
  BY <1>1
<1>3. \A n \in Nat : n < WarnEvery => n % WarnEvery = n
  BY <1>1
<1> QED BY <1>1, <1>2, <1>3

(* A round of the battery check keeps the invariant. *)
LEMMA CheckStep ==
    ASSUME MonitorInv, CheckBattery
    PROVE  MonitorInv'
<1> USE DEF MonitorInv
<1>1. PICK p \in Pin :
        LET pct == GetPowerPercentage(p)
        IN  /\ forced' = (Low(pct) /\ lowCount >= LowRounds)
            /\ lowCount' = NextLowCount(pct)
            /\ lowRun' = IF ~Low(pct) THEN 0 ELSE Capped(lowRun + 1, LowRounds + 1)
            /\ quietRun' = IF pct <= 30 /\ ~Warns(pct)
                           THEN Capped(quietRun + 1, WarnEvery) ELSE 0
  BY DEF CheckBattery
<1> DEFINE pct == GetPowerPercentage(p)
<1>2. /\ pc = "check" /\ pc' = IF forced' THEN "sleep" ELSE "try"
      /\ runCount' = IF forced' THEN runCount ELSE (runCount + 1) % WarnEvery
  BY DEF CheckBattery
<1>0. /\ forced' => Low(pct) /\ lowCount >= LowRounds /\ pc' = "sleep" /\ runCount' = runCount
      /\ ~forced' => pc' = "try" /\ runCount' = (runCount + 1) % WarnEvery
      /\ pc' \in {"sleep", "try"}
  <2>1. CASE forced'
    BY <1>1, <1>2, <2>1
  <2>2. CASE ~forced'
    BY <1>2, <2>2
  <2> QED BY <2>1, <2>2
<1>3. lowCount \in Nat /\ lowRun \in Nat /\ quietRun \in Nat
      /\ runCount \in 0 .. WarnEvery - 1 /\ LowRounds \in Nat /\ WarnEvery \in Nat \ {0}
  BY PowerAssumption DEF CountersOK
<1>4. lowCount' \in Nat /\ lowRun' \in Nat /\ LowInv'
  <2>1. CASE ~Low(pct)
    <3>1. lowCount' = 0 /\ lowRun' = 0 /\ ~forced'
      BY <1>0, <1>1, <2>1 DEF NextLowCount
    <3> QED BY <3>1 DEF LowInv
  <2>2. CASE Low(pct)
    <3>1. lowCount' = Capped(lowCount + 1, LowRounds)
          /\ lowRun' = Capped(lowRun + 1, LowRounds + 1)
      BY <1>1, <2>2 DEF NextLowCount
    <3>2. lowCount' \in Nat /\ lowRun' \in Nat /\ lowCount' <= lowRun'
      BY <1>3, <3>1 DEF LowInv, Capped
    <3>3. forced' => lowRun' > LowRounds
      BY <1>0, <1>3, <3>1 DEF LowInv, Capped
    <3> QED BY <1>0, <3>2, <3>3 DEF LowInv
  <2> QED BY <2>1, <2>2
<1>5. runCount' \in 0 .. WarnEvery - 1
  <2>1. CASE forced'
    BY <1>0, <1>3, <2>1
  <2>2. CASE ~forced'
    BY <1>0, <1>3, <2>2, NextRound
  <2> QED BY <2>1, <2>2
<1>6. quietRun' \in Nat /\ QuietInv'
  <2>1. CASE ~(pct <= 30 /\ ~Warns(pct))
    <3>1. quietRun' = 0
      BY <1>1, <2>1
    <3> QED BY <1>3, <1>5, <3>1 DEF QuietInv
  <2>2. CASE pct <= 30 /\ ~Warns(pct)
    <3>1. quietRun' = Capped(quietRun + 1, WarnEvery)
      BY <1>1, <2>2
    <3>2. CASE runCount = 0
      <4>1. runCount % WarnEvery = 0
        BY <3>2, <1>3, NextRound
      <4> QED BY <2>2, <4>1 DEF Warns
    <3>3. CASE runCount > 0
      <4>1. quietRun < runCount
        BY <1>2, <3>3 DEF QuietInv, Asleep
      <4>2. quietRun' = quietRun + 1
        BY <1>3, <3>1, <4>1 DEF Capped
      <4>3. CASE forced'
        BY <1>0, <1>3, <4>1, <4>2, <4>3 DEF QuietInv, Asleep
      <4>4. CASE ~forced'
        <5>1. runCount' = 0 \/ runCount' = runCount + 1
          BY <1>0, <1>3, <4>4, NextRound
        <5> QED BY <1>3, <4>1, <4>2, <5>1 DEF QuietInv
      <4> QED BY <4>3, <4>4
    <3> QED BY <1>3, <3>2, <3>3
  <2> QED BY <2>1, <2>2
<1> QED BY <1>4, <1>5, <1>6 DEF CountersOK

(* MonitorInv holds at the start and is kept by every step. *)
THEOREM MonitorInvariance == MonitorSpec => []MonitorInv
<1>1. MonitorInit => MonitorInv
  BY PowerAssumption DEF MonitorInit, MonitorInv, CountersOK, LowInv, QuietInv, Asleep
<1>2. MonitorInv /\ [MonitorNext]_monitorVars => MonitorInv'
  <2> SUFFICES ASSUME MonitorInv, [MonitorNext]_monitorVars PROVE MonitorInv'
    OBVIOUS
  <2> USE DEF MonitorInv, CountersOK, LowInv, QuietInv, Asleep
  <2>1. CASE CheckBattery
    BY <2>1, CheckStep
  <2>2. CASE DecideSleep
    BY <2>2 DEF DecideSleep
  <2>3. CASE SwitchOff
    BY <2>3 DEF SwitchOff
  <2>4. CASE FallAsleep
    BY <2>4 DEF FallAsleep
  <2>5. CASE Minute
    BY <2>5 DEF Minute
  <2>6. CASE StoreHalf
    BY <2>6 DEF StoreHalf
  <2>7. CASE StoreRest
    BY <2>7 DEF StoreRest
  <2>8. CASE UNCHANGED monitorVars
    BY <2>8 DEF monitorVars
  <2> QED BY <2>1, <2>2, <2>3, <2>4, <2>5, <2>6, <2>7, <2>8 DEF MonitorNext, Monitor
<1> QED BY <1>1, <1>2, PTL DEF MonitorSpec

(* Sleep is never forced by fewer than LowRounds + 1 low readings in a row.*)
THEOREM NoHastySleep == MonitorSpec => []ForcedSleepIsEarned
<1>1. MonitorInv => ForcedSleepIsEarned
  BY DEF MonitorInv, LowInv, ForcedSleepIsEarned
<1> QED BY <1>1, MonitorInvariance, PTL

(* While the battery is low, no WarnEvery rounds pass without a warning. *)
THEOREM WarnedInTime == MonitorSpec => []LowBatteryIsTold
<1>1. MonitorInv => LowBatteryIsTold
  BY DEF MonitorInv, QuietInv, LowBatteryIsTold
<1> QED BY <1>1, MonitorInvariance, PTL
=============================================================================
