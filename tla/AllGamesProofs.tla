--------------------------- MODULE AllGamesProofs ---------------------------
(***************************************************************************)
(* Proofs about the games: RandomShoot for every case length, start range  *)
(* and window that satisfy RandomShootAssumption and any number of cases;  *)
(* its score on the display, whatever the length of the display's queue;   *)
(* and the games of ShotGames, whatever their times and goals.             *)
(***************************************************************************)
EXTENDS AllGames, FiniteSetTheorems, SequenceTheorems, TLAPS

-----------------------------------------------------------------------------
(* RANDOMSHOOT: the window and the slots.                                  *)

Counters ==
    /\ pc \in {"make", "recv", "done"}
    /\ case \in Nat /\ tick \in 0 .. CaseLen - 1
    /\ targetDown \in BOOLEAN /\ recvShoot \in BOOLEAN /\ inPeriod \in BOOLEAN
    /\ recvStart \in Nat /\ upStart \in Nat /\ lastTime \in Nat
    /\ pc = "make" /\ tick # 0 => case < NumCases
    /\ pc = "recv" => case <= NumCases /\ (tick # 0 => case < NumCases)

(* The round that has just been made, in its case. *)
LastTick == IF tick = 0 THEN CaseLen - 1 ELSE tick - 1

(* Where the window is after round p of a case.  It opens at recvStart at  *)
(* the latest when the target is up, that is at upStart if it was lowered; *)
(* lastTime has counted every round since, and never exceeds Window.       *)
WindowAt(p) ==
    /\ recvStart < StartRange /\ upStart < StartRange
    /\ targetDown => p < upStart
    /\ recvShoot => recvStart <= p /\ lastTime <= Window
    /\ ~recvShoot => lastTime = 0 /\ ~inPeriod
    /\ recvShoot /\ ~targetDown /\ recvStart <= p /\ upStart <= p
          => lastTime > p - recvStart \/ lastTime > p - upStart

WindowInv == pc = "recv" \/ (pc = "make" /\ tick # 0) => WindowAt(LastTick)

IInv == Counters /\ WindowInv

LEMMA StartTimeBound ==
    \A s \in StartTimes : s \in Nat /\ s < StartRange
  BY RandomShootAssumption DEF StartTimes, StartTime

(* What a round leaves behind, in terms of the round just made. *)
NextWindow ==
    /\ targetDown' \in BOOLEAN /\ recvShoot' \in BOOLEAN /\ inPeriod' \in BOOLEAN
    /\ recvStart' \in Nat /\ upStart' \in Nat /\ lastTime' \in Nat
    /\ recvStart' < StartRange /\ upStart' < StartRange
    /\ targetDown' => tick < upStart'
    /\ recvShoot' => recvStart' <= tick /\ lastTime' <= Window
    /\ ~recvShoot' => lastTime' = 0 /\ ~inPeriod'
    /\ recvShoot' /\ ~targetDown' /\ recvStart' <= tick /\ upStart' <= tick
          => lastTime' > tick - recvStart' \/ lastTime' > tick - upStart'

(* A round takes the window from tick - 1 to tick. *)
LEMMA RoundStep ==
    ASSUME NEW start \in Nat, NEW up \in Nat, NEW down \in BOOLEAN, NEW recv \in BOOLEAN,
           NEW last \in Nat, NEW in \in BOOLEAN, NEW pos, NEW lit,
           tick \in Nat, start < StartRange, up < StartRange,
           down => tick <= up,
           recv => start < tick /\ last <= Window,
           ~recv => last = 0 /\ ~in,
           recv /\ ~down /\ start < tick /\ up < tick
              => last > tick - 1 - start \/ last > tick - 1 - up,
           Round(start, up, down, recv, last, in, pos, lit)
    PROVE  NextWindow
  <1> DEFINE opened == recv \/ tick = start
             raised == down /\ tick = up
             still  == down /\ ~raised
             count  == IF opened /\ ~still THEN last + 1 ELSE last
             closes == opened /\ count > Window
  <1>1. /\ recvStart' = start /\ upStart' = up
        /\ targetDown' = still
        /\ recvShoot' = (opened /\ ~closes)
        /\ lastTime' = IF closes THEN 0 ELSE count
        /\ inPeriod' = (~closes /\ (in \/ (opened /\ ~still)))
    BY Zenon DEF Round
  <1>2. count \in Nat /\ (opened => start <= tick) /\ (still => tick < up)
    OBVIOUS
  <1>3. opened /\ ~still /\ start <= tick /\ up <= tick
           => count > tick - start \/ count > tick - up
    OBVIOUS
  <1>4. ~opened => count = 0 /\ ~in
    OBVIOUS
  <1> HIDE DEF opened, still, count
  <1>5. targetDown' \in BOOLEAN /\ recvShoot' \in BOOLEAN /\ inPeriod' \in BOOLEAN
    <2>1. still \in BOOLEAN /\ opened \in BOOLEAN
      BY DEF still, opened
    <2> QED BY <1>1, <2>1
  <1>6. CASE closes
    <2>1. recvShoot' = FALSE /\ lastTime' = 0 /\ inPeriod' = FALSE
      BY <1>1, <1>6
    <2> QED BY <1>1, <1>2, <1>5, <2>1 DEF NextWindow
  <1>7. CASE ~closes
    <2>1. (recvShoot' <=> opened) /\ lastTime' = count /\ (targetDown' <=> still)
      BY <1>1, <1>7
    <2>2. opened => count <= Window
      BY <1>2, <1>7, RandomShootAssumption
    <2>3. ~opened => ~inPeriod'
      BY <1>1, <1>4, <1>7
    <2> QED BY <1>1, <1>2, <1>3, <1>4, <1>5, <2>1, <2>2, <2>3 DEF NextWindow
  <1> QED BY <1>6, <1>7

LEMMA MakeStep ==
    ASSUME IInv, MakeRandomCase
    PROVE  IInv'
  <1>1. /\ pc = "make" /\ case < NumCases /\ pc' = "recv"
        /\ tick' = (IF tick + 1 = CaseLen THEN 0 ELSE tick + 1)
        /\ case' = (IF tick + 1 = CaseLen THEN case + 1 ELSE case)
        /\ case \in Nat /\ tick \in 0 .. CaseLen - 1
    BY DEF MakeRandomCase, IInv, Counters
  <1>2. /\ tick' \in 0 .. CaseLen - 1 /\ case' \in Nat
        /\ case' <= NumCases /\ (tick' # 0 => case' < NumCases)
        /\ LastTick' = tick
    BY <1>1, RandomShootAssumption DEF LastTick
  <1> SUFFICES NextWindow
    BY <1>1, <1>2 DEF NextWindow, IInv, Counters, WindowInv, WindowAt
  <1>3. ASSUME NEW start \in StartTimes, NEW up \in StartTimes, NEW lower \in BOOLEAN,
               BeginCase(start, up, lower)
        PROVE  NextWindow
    <2>1. /\ start \in Nat /\ up \in Nat /\ start < StartRange /\ up < StartRange
          /\ tick = 0 /\ tick \in Nat
      BY <1>1, <1>3, StartTimeBound DEF BeginCase
    <2>2. Round(start, up, lower, FALSE, 0, FALSE,
                IF lower THEN "down" ELSE position, FALSE)
      BY <1>3 DEF BeginCase
    <2>3. /\ lower \in BOOLEAN /\ FALSE \in BOOLEAN /\ 0 \in Nat
          /\ lower => tick <= up
      BY <2>1
    <2> QED
      BY <2>1, <2>2, <2>3, RoundStep
  <1>4. ASSUME ContinueCase
        PROVE  NextWindow
    <2>1. /\ Round(recvStart, upStart, targetDown, recvShoot, lastTime, inPeriod,
                   position, flow)
          /\ tick # 0 /\ tick \in Nat /\ LastTick = tick - 1
      BY <1>1, <1>4 DEF ContinueCase, LastTick
    <2>2. WindowAt(tick - 1)
      BY <1>1, <2>1 DEF IInv, WindowInv
    <2>3. /\ recvStart \in Nat /\ upStart \in Nat /\ lastTime \in Nat
          /\ targetDown \in BOOLEAN /\ recvShoot \in BOOLEAN /\ inPeriod \in BOOLEAN
      BY DEF IInv, Counters
    <2>4. /\ recvStart < StartRange /\ upStart < StartRange
          /\ targetDown => tick <= upStart
          /\ recvShoot => recvStart < tick /\ lastTime <= Window
          /\ ~recvShoot => lastTime = 0 /\ ~inPeriod
          /\ recvShoot /\ ~targetDown /\ recvStart < tick /\ upStart < tick
                => lastTime > tick - 1 - recvStart \/ lastTime > tick - 1 - upStart
      BY <2>1, <2>2, <2>3 DEF WindowAt
    <2> QED
      BY <2>1, <2>3, <2>4, RoundStep
  <1> QED
    BY <1>3, <1>4 DEF MakeRandomCase

LEMMA Step == IInv /\ [Next]_vars => IInv'
  <1> SUFFICES ASSUME IInv, [Next]_vars PROVE IInv'
    OBVIOUS
  <1>1. CASE MakeRandomCase
    BY <1>1, MakeStep
  <1>2. CASE NoShot
    BY <1>2 DEF NoShot, caseVars, IInv, Counters, WindowInv, WindowAt, LastTick
  <1>3. CASE Shot
    <2>1. case' \in Nat /\ tick' = 0 /\ pc' = "make" /\ UNCHANGED caseVars
      BY <1>3 DEF Shot, IInv, Counters
    <2> QED
      BY <2>1, RandomShootAssumption DEF caseVars, IInv, Counters, WindowInv
  <1>4. CASE LeaveLoop
    BY <1>4 DEF LeaveLoop, IInv, Counters, WindowInv
  <1>5. CASE UNCHANGED vars
    BY <1>5 DEF vars, IInv, Counters, WindowInv, WindowAt, LastTick
  <1> QED
    BY <1>1, <1>2, <1>3, <1>4, <1>5 DEF Next

(* The bounds of the counters and of the window hold in every state. *)
THEOREM Invariance == Spec => []IInv
  <1>1. Init => IInv
    <2> SUFFICES ASSUME Init PROVE IInv
      OBVIOUS
    <2>1. pc = "make" /\ tick = 0 /\ case = 0 /\ tick \in 0 .. CaseLen - 1
      BY RandomShootAssumption DEF Init
    <2>2. targetDown \in BOOLEAN /\ recvShoot \in BOOLEAN /\ inPeriod \in BOOLEAN
      BY Zenon DEF Init
    <2>3. recvStart \in Nat /\ upStart \in Nat /\ lastTime \in Nat
      BY DEF Init
    <2>4. Counters
      BY <2>1, <2>2, <2>3 DEF Counters
    <2> QED BY <2>1, <2>4 DEF IInv, WindowInv
  <1> QED BY <1>1, Step, PTL DEF Spec

(* The arithmetic: a window that opens below StartRange and lasts Window   *)
(* rounds is over before the last round of its case.                       *)
LEMMA Credited == IInv => HitCreditsItsCase
  <1> SUFFICES ASSUME IInv, pc = "recv", inPeriod
               PROVE  tick # 0 /\ case \in Slots
    BY DEF HitCreditsItsCase
  <1>1. WindowAt(LastTick) /\ recvShoot
    BY DEF IInv, WindowInv, WindowAt
  <1>2. tick # 0
    <2> SUFFICES ASSUME tick = 0 PROVE FALSE
      OBVIOUS
    <2>1. LastTick = CaseLen - 1
      BY DEF LastTick
    <2>2. /\ recvStart \in Nat /\ upStart \in Nat /\ lastTime \in Nat
          /\ recvStart < StartRange /\ upStart < StartRange
      BY <1>1 DEF IInv, Counters, WindowAt
    <2>3. /\ recvStart <= CaseLen - 1 /\ upStart <= CaseLen - 1
          /\ CaseLen - 1 - recvStart >= Window /\ CaseLen - 1 - upStart >= Window
      BY <2>2, RandomShootAssumption
    <2>4. ~targetDown /\ lastTime <= Window
      BY <1>1, <2>1, <2>2, <2>3, RandomShootAssumption DEF WindowAt
    <2> QED
      BY <1>1, <2>1, <2>2, <2>3, <2>4, RandomShootAssumption DEF WindowAt
  <1>3. case < NumCases /\ case \in Nat
    BY <1>2 DEF IInv, Counters
  <1> QED BY <1>2, <1>3, RandomShootAssumption DEF Slots

(* The target is down only in a case that lowered it or found it down, and *)
(* the window does not open before the target is raised again.             *)
UpInv ==
    /\ position \in {"up", "down"}
    /\ position # "up" => targetDown \/ leftDown
    /\ inPeriod => ~targetDown

LEMMA UpStep == UpInv /\ [Next]_vars => UpInv'
  <1> SUFFICES ASSUME UpInv, [Next]_vars PROVE UpInv'
    OBVIOUS
  <1> USE DEF UpInv
  <1>1. ASSUME NEW start \in StartTimes, NEW up \in StartTimes, NEW lower \in BOOLEAN,
               BeginCase(start, up, lower)
        PROVE  UpInv'
    <2>1. /\ targetDown' = (lower /\ ~(lower /\ tick = up))
          /\ position' = IF lower /\ tick = up THEN "up" ELSE IF lower THEN "down" ELSE position
          /\ leftDown' = (~lower /\ position = "down")
          /\ inPeriod' => ~targetDown'
      BY <1>1, Zenon DEF BeginCase, Round
    <2>2. position \in {"up", "down"}
      OBVIOUS
    <2>3. CASE lower
      BY <2>1, <2>3
    <2>4. CASE ~lower
      BY <2>1, <2>2, <2>4
    <2> QED BY <2>3, <2>4
  <1>2. CASE ContinueCase
    BY <1>2 DEF ContinueCase, Round
  <1>3. CASE UNCHANGED <<position, leftDown, targetDown, inPeriod>>
    BY <1>3
  <1>4. CASE LeaveLoop
    BY <1>4 DEF LeaveLoop
  <1> QED
    BY <1>1, <1>2, <1>3, <1>4 DEF Next, MakeRandomCase, NoShot, Shot, caseVars, vars

(* What proc() stores past the end of caseSlot is at most a wrong shot.    *)
LEMMA OnlyWrongShotsStray == Spec => []StrayIsWrongShot
  <1>1. Init => StrayIsWrongShot
    BY DEF Init, StrayIsWrongShot
  <1>2. IInv /\ StrayIsWrongShot /\ [Next]_vars => StrayIsWrongShot'
    <2> SUFFICES ASSUME IInv, StrayIsWrongShot, [Next]_vars PROVE StrayIsWrongShot'
      OBVIOUS
    <2>1. CASE Shot
      <3>1. case \notin Slots => ~inPeriod
        BY <2>1, Credited DEF Shot, HitCreditsItsCase
      <3> QED
        BY <2>1, <3>1 DEF Shot, Judge, Verdict, StrayIsWrongShot
    <2>2. CASE UNCHANGED stray
      BY <2>2 DEF StrayIsWrongShot
    <2> QED
      BY <2>1, <2>2 DEF Next, MakeRandomCase, NoShot, LeaveLoop, vars
  <1> QED BY <1>1, <1>2, Invariance, PTL DEF Spec

(* A shot that counts is credited to the case whose window is open,        *)
(* although proc() looks up the slot with the counter of the next round:   *)
(* the start range and the window leave the last round of a case free.     *)
(* Past the end of caseSlot proc() stores at most a wrong shot; and the    *)
(* window runs only for a target that is up, or was left down by a shot.   *)
THEOREM JudgedRight == Spec => []ShotsAreJudged
  <1>1. Init => UpInv
    BY DEF Init, UpInv
  <1>2. UpInv => WindowNeedsTargetUp
    BY DEF UpInv, WindowNeedsTargetUp
  <1>3. Spec => []UpInv
    BY <1>1, UpStep, PTL DEF Spec
  <1> QED BY <1>2, <1>3, Credited, Invariance, OnlyWrongShotsStray, PTL DEF ShotsAreJudged

(* One slot more that holds a hit, or none. *)
LEMMA OneMoreHit ==
    ASSUME NEW s \in [Slots -> 0 .. 2], NEW c \in Slots, NEW v \in 1 .. 2, s[c] = 0
    PROVE  Hits([s EXCEPT ![c] = v]) = IF v = 1 THEN Hits(s) + 1 ELSE Hits(s)
  <1> DEFINE t == [s EXCEPT ![c] = v]
             A == {i \in Slots : s[i] = 1}
             B == {i \in Slots : t[i] = 1}
  <1>1. IsFiniteSet(A)
    <2>1. IsFiniteSet(Slots)
      BY FS_Interval, RandomShootAssumption DEF Slots
    <2> QED BY <2>1, FS_Subset
  <1>2. c \notin A
    OBVIOUS
  <1>3. CASE v = 1
    <2>1. B = A \cup {c}
      BY <1>3
    <2> QED BY <1>1, <1>2, <1>3, <2>1, FS_AddElement DEF Hits
  <1>4. CASE v # 1
    <2>1. B = A
      BY <1>4
    <2> QED BY <1>4, <2>1 DEF Hits
  <1> QED BY <1>3, <1>4

SlotInv == slot \in [Slots -> 0 .. 2] /\ LiveScoreIsFinal

LEMMA SlotStep == IInv /\ SlotInv /\ [Next]_vars => SlotInv'
  <1> SUFFICES ASSUME IInv, SlotInv, [Next]_vars PROVE SlotInv'
    OBVIOUS
  <1> USE DEF SlotInv, LiveScoreIsFinal
  <1>1. CASE Shot
    <2>1. CASE case \notin Slots
      <3>1. ~inPeriod
        BY <1>1, <2>1, Credited DEF Shot, HitCreditsItsCase
      <3> QED BY <1>1, <2>1, <3>1 DEF Shot, Judge
    <2>2. CASE case \in Slots /\ slot[case] # 0
      BY <1>1, <2>2 DEF Shot, Judge
    <2>3. CASE case \in Slots /\ slot[case] = 0
      <3>1. Verdict \in 1 .. 2 /\ (Verdict = 1 <=> inPeriod)
        BY DEF Verdict
      <3>2. /\ slot' = [slot EXCEPT ![case] = Verdict]
            /\ shotCount' = IF inPeriod THEN shotCount + 1 ELSE shotCount
        BY <1>1, <2>3 DEF Shot, Judge
      <3>3. Hits(slot') = IF Verdict = 1 THEN Hits(slot) + 1 ELSE Hits(slot)
        BY <2>3, <3>1, <3>2, OneMoreHit
      <3> QED BY <2>3, <3>1, <3>2, <3>3
    <2> QED BY <2>1, <2>2, <2>3
  <1>2. CASE LeaveLoop
    BY <1>2 DEF LeaveLoop
  <1>3. CASE UNCHANGED <<slot, shotCount>>
    BY <1>3
  <1> QED
    BY <1>1, <1>2, <1>3 DEF Next, MakeRandomCase, NoShot, vars

LEMMA SlotsCounted == Spec => []SlotInv
  <1>1. Init => SlotInv
    <2> SUFFICES ASSUME Init PROVE SlotInv
      OBVIOUS
    <2>1. slot = [i \in Slots |-> 0] /\ shotCount = 0
      BY DEF Init
    <2>2. {i \in Slots : slot[i] = 1} = {}
      BY <2>1
    <2> QED BY <2>1, <2>2, FS_EmptySet DEF SlotInv, LiveScoreIsFinal, Hits
  <1> QED BY <1>1, SlotStep, Invariance, PTL DEF Spec

(* The score shown during the game is what is counted from the slots at    *)
(* its end, in every game of any length.                                   *)
THEOREM ScoreIsFinal == Spec => []LiveScoreIsFinal
  BY SlotsCounted, PTL DEF SlotInv

-----------------------------------------------------------------------------
(* RANDOMSHOOT and the display.                                            *)

(* The display and the voice take no part in the game: every game of       *)
(* AllGames is one of RandomShoot, with pauses.                            *)
LEMMA PlaysRandomShoot == AllSpec => Spec
  <1>1. AllInit => Init
    BY DEF AllInit, ScoreInit
  <1>2. [AllNext]_allVars => [Next]_vars
    BY DEF AllNext, allVars, scoreVars, ScoreNext, Game, WaitForShot, ShotShown, FinalScore,
       AskBattery, Display, Next
  <1> QED BY <1>1, <1>2, PTL DEF AllSpec, Spec

(* The number the display was last given, wherever it is by now. *)
Newest == IF dispQueue # <<>> THEN dispQueue[Len(dispQueue)].val
          ELSE IF job # NoJob THEN job.val ELSE Reads(digits)

Commands == [cmd : {"display", "blink"}, val : Nat]

DisplayInv ==
    /\ dispQueue \in Seq(Commands)
    /\ job \in Commands \cup {NoJob}
    /\ latest = "game" /\ ~refused => Newest = shotCount

(* Before the final score the game alone never has more than one number in *)
(* the queue: a hit comes after a round that timed out.                    *)
QuietInv ==
    /\ asked \in Nat /\ ended \in BOOLEAN /\ refused \in BOOLEAN
    /\ ended => pc = "done"
    /\ asked = 0 => ~refused
    /\ asked = 0 /\ ~ended =>
         /\ job = NoJob
         /\ \A i \in 1 .. Len(dispQueue) : dispQueue[i].cmd = "display"
         /\ pc = "make" /\ tick # 0 => dispQueue = <<>>
         /\ pc = "recv" /\ inPeriod => dispQueue = <<>>


LEMMA FewHits == ASSUME SlotInv PROVE shotCount \in 0 .. 99
  <1>1. IsFiniteSet(Slots) /\ Cardinality(Slots) = NumCases
    BY FS_Interval, RandomShootAssumption DEF Slots
  <1>2. /\ Cardinality({i \in Slots : slot[i] = 1}) \in Nat
        /\ Cardinality({i \in Slots : slot[i] = 1}) <= NumCases
    BY <1>1, FS_Subset, FS_CardinalityType
  <1> QED BY <1>2, ScoreAssumption, RandomShootAssumption DEF SlotInv, LiveScoreIsFinal, Hits

(* A number of at most two digits can be read from its frame. *)
LEMMA FrameReads == \A n \in 0 .. 99 : Reads(FrameOf(n)) = n /\ FrameOf(n) # Blank
  BY DEF Reads, FrameOf, Dark, Blank

(* A number that the queue accepts is the newest; one it refuses is lost.  *)
LEMMA Sends ==
    ASSUME DisplayInv, NEW cmd \in {"display", "blink"}, NEW n \in Nat, Send(cmd, n),
           UNCHANGED <<job, left, digits>>
    PROVE  /\ dispQueue' \in Seq(Commands) /\ job' \in Commands \cup {NoJob}
           /\ HasPlace => Newest' = n
           /\ ~HasPlace => Newest' = Newest
  <1> DEFINE c == [cmd |-> cmd, val |-> n]
  <1>1. c \in Commands /\ dispQueue \in Seq(Commands)
    BY DEF Commands, DisplayInv
  <1>2. CASE HasPlace
    <2>1. dispQueue' = Append(dispQueue, c)
      BY <1>2 DEF Send
    <2> HIDE DEF c
    <2>2. /\ dispQueue' \in Seq(Commands) /\ dispQueue' # <<>>
          /\ dispQueue'[Len(dispQueue')] = c
      BY <1>1, <2>1, AppendProperties
    <2> QED BY <1>2, <2>2 DEF c, Newest, DisplayInv
  <1>3. CASE ~HasPlace
    BY <1>3 DEF Send, Newest, DisplayInv
  <1> QED BY <1>2, <1>3

LEMMA Takes ==
    ASSUME DisplayInv, TakeCmd
    PROVE  /\ dispQueue' \in Seq(Commands) /\ job' \in Commands \cup {NoJob}
           /\ Newest \in 0 .. 99 => Newest' = Newest
  <1>1. dispQueue \in Seq(Commands) /\ dispQueue # <<>> /\ job = NoJob
    BY DEF DisplayInv, TakeCmd
  <1>2. /\ dispQueue' = Tail(dispQueue) /\ dispQueue' \in Seq(Commands)
        /\ Len(dispQueue') = Len(dispQueue) - 1 /\ Len(dispQueue) \in Nat \ {0}
        /\ \A i \in 1 .. Len(dispQueue') : dispQueue'[i] = dispQueue[i + 1]
        /\ Head(dispQueue) = dispQueue[1] /\ dispQueue[1] \in Commands
    BY <1>1, HeadTailProperties, EmptySeq, LenProperties, ElementOfSeq DEF TakeCmd
  <1>3. job' = NoJob \/ job' = dispQueue[1]
    BY <1>1, <1>2 DEF TakeCmd
  <1>4. CASE Len(dispQueue) = 1
    <2>1. dispQueue' = <<>> /\ Newest = dispQueue[1].val
      BY <1>1, <1>2, <1>4, EmptySeq DEF Newest
    <2>2. CASE dispQueue[1].cmd = "display"
      <3>1. digits' = FrameOf(dispQueue[1].val) /\ job' = NoJob
        BY <1>1, <1>2, <2>2 DEF TakeCmd
      <3>2. Newest \in 0 .. 99 => Newest' = Newest
        BY <2>1, <3>1, FrameReads DEF Newest
      <3> QED BY <1>2, <3>1, <3>2
    <2>3. CASE dispQueue[1].cmd # "display"
      <3>1. job' = dispQueue[1]
        BY <1>2, <2>3 DEF TakeCmd
      <3>2. dispQueue[1] # NoJob
        BY <1>2 DEF Commands, NoJob
      <3> QED BY <1>2, <2>1, <3>1, <3>2 DEF Newest
    <2> QED BY <2>2, <2>3
  <1>5. CASE Len(dispQueue) # 1
    <2>1. /\ dispQueue' # <<>>
          /\ dispQueue'[Len(dispQueue')] = dispQueue[Len(dispQueue)]
      <3>1. Len(dispQueue') \in Nat \ {0}
        BY <1>2, <1>5
      <3>2. dispQueue' # <<>>
        BY <3>1
      <3>3. Len(dispQueue') \in 1 .. Len(dispQueue') /\ Len(dispQueue') + 1 = Len(dispQueue)
        BY <1>2, <3>1
      <3> QED BY <1>2, <3>2, <3>3
    <2> QED BY <1>1, <1>2, <1>3, <2>1 DEF Newest
  <1> QED BY <1>4, <1>5

LEMMA Blinked ==
    ASSUME DisplayInv, Blink
    PROVE  /\ dispQueue' \in Seq(Commands) /\ job' \in Commands \cup {NoJob}
           /\ Newest \in 0 .. 99 => Newest' = Newest
  <1>1. dispQueue' = dispQueue /\ (job' = job \/ (job' = NoJob /\ digits' = FrameOf(job.val)))
    BY DEF Blink
  <1> QED BY <1>1, FrameReads DEF DisplayInv, Newest, Blink

LEMMA ScoreSteps ==
    ASSUME IInv, SlotInv, SlotInv', DisplayInv, [ScoreNext]_scoreVars
    PROVE  DisplayInv'
  <1> DEFINE Types == dispQueue \in Seq(Commands) /\ job \in Commands \cup {NoJob}
  <1>1. shotCount \in 0 .. 99 /\ shotCount \in Nat
    BY FewHits
  <1>2. CASE Game \/ WaitForShot \/ UNCHANGED scoreVars
    <2>1. shotCount' = shotCount
      BY <1>2 DEF Game, MakeRandomCase, LeaveLoop, WaitForShot, NoShot, scoreVars, vars, SlotInv,
         LiveScoreIsFinal
    <2>2. UNCHANGED <<dispVars, latest, refused>>
      BY <1>2 DEF Game, WaitForShot, scoreVars
    <2> QED BY <2>1, <2>2 DEF DisplayInv, Newest, dispVars
  <1>3. CASE ShotShown
    <2>1. CASE shotCount' = shotCount
      BY <1>3, <2>1 DEF ShotShown, DisplayInv, Newest, dispVars
    <2>2. CASE shotCount' # shotCount
      <3>1. SendScore("display", shotCount') /\ shotCount' \in Nat
        BY <1>1, <1>3, <2>2 DEF ShotShown, Shot, Judge
      <3>2. /\ Types'
            /\ HasPlace => Newest' = shotCount'
            /\ ~HasPlace => refused'
        BY <3>1, Sends DEF SendScore
      <3> QED BY <3>1, <3>2 DEF DisplayInv, SendScore
    <2> QED BY <2>1, <2>2
  <1>4. CASE FinalScore
    <2>1. SendScore("blink", shotCount) /\ shotCount' = shotCount
      BY <1>4 DEF FinalScore, vars
    <2>2. /\ Types'
          /\ HasPlace => Newest' = shotCount
          /\ ~HasPlace => refused'
      BY <1>1, <2>1, Sends DEF SendScore
    <2> QED BY <2>1, <2>2 DEF DisplayInv, SendScore
  <1>5. CASE AskBattery
    <2>1. PICK pct \in Percentages : Send("blink", pct)
      BY <1>5 DEF AskBattery
    <2>2. /\ Types'
          /\ ~HasPlace => Newest' = Newest
      BY <1>5, <2>1, Sends, ScoreAssumption DEF AskBattery
    <2> QED BY <1>5, <2>2 DEF DisplayInv, AskBattery, vars
  <1>6. CASE Display
    <2>1. Types' /\ (Newest \in 0 .. 99 => Newest' = Newest)
      BY <1>6, Takes, Blinked DEF Display
    <2> QED BY <1>1, <1>6, <2>1 DEF DisplayInv, Display, vars
  <1> QED BY <1>2, <1>3, <1>4, <1>5, <1>6 DEF ScoreNext

(* No window opens in the first round of a case. *)
LEMMA FirstRound ==
    ASSUME NEW start \in StartTimes, NEW up \in StartTimes, NEW lower \in BOOLEAN,
           BeginCase(start, up, lower)
    PROVE  inPeriod' = FALSE
  <1>1. start # 0
    BY RandomShootAssumption DEF StartTimes, StartTime
  <1>2. tick = 0
    BY DEF BeginCase
  <1> QED BY <1>1, <1>2 DEF BeginCase, Round

LEMMA QuietSteps ==
    ASSUME IInv, DisplayInv, QuietInv, [ScoreNext]_scoreVars
    PROVE  QuietInv'
  <1>1. /\ asked \in Nat /\ ended \in BOOLEAN /\ refused \in BOOLEAN
        /\ pc \in {"make", "recv", "done"}
        /\ dispQueue \in Seq(Commands)
    BY DEF QuietInv, IInv, Counters, DisplayInv
  <1>2. CASE Game
    <2>1. UNCHANGED <<dispVars, ended, asked, refused>>
      BY <1>2 DEF Game
    <2>2. CASE MakeRandomCase
      <3>1. pc = "make" /\ pc' = "recv"
        BY <2>2 DEF MakeRandomCase
      <3>2. inPeriod' => tick # 0
        BY <2>2, FirstRound DEF MakeRandomCase, ContinueCase
      <3> QED BY <2>1, <3>1, <3>2 DEF QuietInv, dispVars
    <2>3. CASE LeaveLoop
      BY <2>1, <2>3 DEF LeaveLoop, QuietInv, dispVars
    <2> QED BY <1>2, <2>2, <2>3 DEF Game
  <1>3. CASE WaitForShot
    BY <1>3 DEF WaitForShot, NoShot, Prompt, QuietInv, dispVars
  <1>4. CASE ShotShown
    <2>1. pc = "recv" /\ pc' = "make" /\ tick' = 0 /\ UNCHANGED <<ended, asked>>
      BY <1>4 DEF ShotShown, Shot
    <2>2. CASE shotCount' = shotCount
      BY <1>4, <2>1, <2>2 DEF ShotShown, QuietInv, dispVars
    <2>3. CASE shotCount' # shotCount
      <3>1. SendScore("display", shotCount') /\ inPeriod
        BY <1>4, <2>3 DEF ShotShown, Shot, Judge
      <3>2. asked = 0 /\ ~ended => dispQueue = <<>> /\ job = NoJob
        BY <2>1, <3>1 DEF QuietInv
      <3>3. ~ended
        BY <2>1 DEF QuietInv
      <3>4. ASSUME asked = 0
            PROVE  /\ HasPlace /\ job' = NoJob
                   /\ \A i \in 1 .. Len(dispQueue') : dispQueue'[i].cmd = "display"
        <4>1. dispQueue = <<>> /\ HasPlace
          BY <3>2, <3>3, <3>4, DispAssumption DEF HasPlace
        <4>2. dispQueue' = <<[cmd |-> "display", val |-> shotCount']>>
          BY <3>1, <4>1 DEF SendScore, Send
        <4> QED BY <3>1, <3>2, <3>3, <3>4, <4>1, <4>2 DEF SendScore
      <3> QED BY <1>1, <2>1, <3>1, <3>3, <3>4 DEF QuietInv, SendScore
    <2> QED BY <2>2, <2>3
  <1>5. CASE FinalScore
    <2>1. asked = 0 => dispQueue = <<>>
      BY <1>5 DEF FinalScore, Prompt, QuietInv
    <2>2. asked = 0 => HasPlace
      BY <2>1, DispAssumption DEF HasPlace
    <2> QED BY <1>1, <1>5, <2>2 DEF FinalScore, SendScore, QuietInv, vars
  <1>6. CASE AskBattery
    BY <1>1, <1>6 DEF AskBattery, QuietInv, vars
  <1>7. CASE Display
    <2>1. UNCHANGED <<vars, ended, asked, refused>>
      BY <1>7 DEF Display
    <2>2. ASSUME asked = 0, ~ended
          PROVE  /\ job' = NoJob
                 /\ \A i \in 1 .. Len(dispQueue') : dispQueue'[i].cmd = "display"
                 /\ dispQueue = <<>> => dispQueue' = <<>>
      <3>1. TakeCmd /\ dispQueue # <<>> /\ job = NoJob
        BY <1>7, <2>2 DEF Display, Blink, TakeCmd, QuietInv
      <3>2. /\ dispQueue' = Tail(dispQueue) /\ Len(dispQueue') = Len(dispQueue) - 1
            /\ Len(dispQueue) \in Nat \ {0} /\ Head(dispQueue) = dispQueue[1]
            /\ \A i \in 1 .. Len(dispQueue') : dispQueue'[i] = dispQueue[i + 1]
        BY <1>1, <3>1, HeadTailProperties, EmptySeq DEF TakeCmd
      <3>3. \A i \in 1 .. Len(dispQueue) : dispQueue[i].cmd = "display"
        BY <2>2 DEF QuietInv
      <3>4. \A i \in 1 .. Len(dispQueue') : dispQueue'[i].cmd = "display"
        BY <3>2, <3>3
      <3>5. job' = NoJob
        BY <3>1, <3>2, <3>3 DEF TakeCmd
      <3> QED BY <3>1, <3>4, <3>5
    <2> QED BY <2>1, <2>2 DEF QuietInv, vars
  <1>8. CASE UNCHANGED scoreVars
    BY <1>8 DEF scoreVars, vars, dispVars, QuietInv
  <1> QED BY <1>2, <1>3, <1>4, <1>5, <1>6, <1>7, <1>8 DEF ScoreNext

(* Whenever the display rests after a number of the game it shows the      *)
(* score; and only the battery's number, which blinks for seconds, ever    *)
(* makes the game's find no place in the queue.                            *)
THEOREM ScoreIsRead == AllSpec => []ScoreIsShown
  <1> DEFINE Inv == DisplayInv /\ QuietInv
  <1>1. AllSpec => [](IInv /\ SlotInv)
    BY PlaysRandomShoot, Invariance, SlotsCounted, PTL
  <1>2. AllInit => Inv
    <2> SUFFICES ASSUME AllInit PROVE Inv
      OBVIOUS
    <2>1. /\ dispQueue = <<>> /\ job = NoJob /\ digits = FrameOf(0) /\ shotCount = 0
          /\ pc = "make" /\ tick = 0 /\ ended = FALSE /\ asked = 0 /\ refused = FALSE
      BY DEF AllInit, ScoreInit, DispInit, Init
    <2>2. Newest = 0
      BY <2>1, FrameReads DEF Newest
    <2>3. dispQueue \in Seq(Commands)
      BY <2>1
    <2>4. DisplayInv
      BY <2>1, <2>2, <2>3 DEF DisplayInv
    <2>5. \A i \in 1 .. Len(dispQueue) : dispQueue[i].cmd = "display"
      BY <2>1
    <2>6. QuietInv
      BY <2>1, <2>5 DEF QuietInv
    <2> QED BY <2>4, <2>6
  <1>3. IInv /\ SlotInv /\ SlotInv' /\ Inv /\ [AllNext]_allVars => Inv'
    <2>1. [AllNext]_allVars => [ScoreNext]_scoreVars
      BY DEF AllNext, allVars
    <2> QED BY <2>1, ScoreSteps, QuietSteps
  <1>4. Inv => ScoreIsShown
    BY DEF DisplayInv, QuietInv, ScoreIsShown, AtRest, Newest
  <1> QED BY <1>1, <1>2, <1>3, <1>4, PTL DEF AllSpec

-----------------------------------------------------------------------------
(* The games that count shots.                                             *)

Lead == Announce["EIGHTSHOT"]

ShotType ==
    /\ game \in Games
    /\ stage \in {"off", "announce", "loop", "recv", "lowered", "tail"}
    /\ wait \in Nat /\ shots \in Nat /\ elapsed \in Nat
    /\ laser \in Seq(Phases) /\ Len(laser) <= RecvQueue
    /\ quiet \in BOOLEAN
    /\ record \in [RecordGames -> Int] /\ full \in [RecordGames -> BOOLEAN]
    /\ early \in [Phases \ {"play"} -> Nat]

(* Shots of the announcement are the first in the queue. *)
EarlyInv ==
    /\ early["before"] = 0 /\ early["announce"] <= RecvQueue
    /\ stage = "announce" => early["announce"] = 0
    /\ stage # "off" => \A i \in 1 .. Len(laser) :
         /\ laser[i] # "before"
         /\ laser[i] = "announce" => early["announce"] + i <= RecvQueue

(* EIGHTSHOT: every shot but those that waited at the start has had a tick *)
(* of its own; one more may have come before the first.                    *)
Pace ==
    \/ elapsed = MaxTicks
    \/ shots + Len(laser) + Lead <= RecvQueue + elapsed + (IF quiet THEN 0 ELSE 1)

PaceInv ==
    /\ game = "EIGHTSHOT" /\ stage = "announce" =>
         shots = 0 /\ wait <= Lead /\ (elapsed >= wait \/ elapsed = MaxTicks)
    /\ game = "EIGHTSHOT" /\ stage \notin {"off", "announce"} => Pace
    /\ FastestRecord

EarnedInv == ShotType /\ EarlyInv /\ PaceInv

LEMMA Bounds == Lead \in Nat /\ Goal \in Nat /\ RecvQueue \in Nat /\ MaxTicks \in Nat /\ MaxTicks >= Lead + Goal
  BY ShotGamesAssumption DEF Lead, Games

LEMMA ShotStart == ShotInit => EarnedInv
  <1> SUFFICES ASSUME ShotInit PROVE EarnedInv
    OBVIOUS
  <1>1. /\ game = "SINGLESHOT" /\ stage = "off" /\ wait = 0 /\ shots = 0 /\ elapsed = 0
        /\ laser = <<>> /\ Len(laser) = 0 /\ quiet = TRUE
    BY DEF ShotInit
  <1>2. laser \in Seq(Phases)
    BY <1>1
  <1>3. record \in [RecordGames -> Int] /\ full \in [RecordGames -> BOOLEAN]
        /\ early \in [Phases \ {"play"} -> Nat] /\ ~full["EIGHTSHOT"]
        /\ early["before"] = 0 /\ early["announce"] = 0
    BY DEF ShotInit, RecordGames, Phases
  <1> QED BY <1>1, <1>2, <1>3, ShotGamesAssumption DEF EarnedInv, ShotType, EarlyInv, PaceInv,
     FastestRecord, Games

LEMMA TriggerStep ==
    ASSUME EarnedInv, Trigger
    PROVE  EarnedInv'
  <1>1. /\ quiet = TRUE /\ quiet' = FALSE /\ laser \in Seq(Phases) /\ Len(laser) <= RecvQueue
        /\ UNCHANGED <<stage, gameVars, recordVars>> /\ Phase \in Phases
    BY DEF Trigger, EarnedInv, ShotType, Phase, Phases
  <1>2. CASE Len(laser) >= RecvQueue
    <2>1. laser' = laser
      BY <1>1, <1>2, LenProperties, ShotGamesAssumption DEF Trigger
    <2>2. UNCHANGED <<game, stage, wait, shots, elapsed, early, laser, record, full>>
      BY <1>1, <2>1 DEF gameVars, recordVars
    <2>3. ShotType' /\ EarlyInv'
      BY <1>1, <2>2 DEF EarnedInv, ShotType, EarlyInv
    <2>4. Pace => Pace'
      BY <1>1, <2>2, LenProperties, Bounds DEF Pace, EarnedInv, ShotType
    <2> QED BY <2>2, <2>3, <2>4 DEF EarnedInv, PaceInv, FastestRecord
  <1>3. CASE Len(laser) < RecvQueue
    <2>1. laser' = Append(laser, Phase)
      BY <1>3 DEF Trigger
    <2>2. /\ laser' \in Seq(Phases) /\ Len(laser') = Len(laser) + 1 /\ Len(laser) \in Nat
          /\ \A i \in 1 .. Len(laser) : laser'[i] = laser[i]
          /\ laser'[Len(laser) + 1] = Phase
      BY <1>1, <2>1, AppendProperties, LenProperties
    <2>3. /\ ShotType' /\ PaceInv'
      <3>1. UNCHANGED <<game, stage, wait, shots, elapsed, early, record, full>>
        BY <1>1 DEF gameVars, recordVars
      <3>2. ShotType'
        <4>1. Len(laser') <= RecvQueue
          BY <1>3, <2>2, Bounds
        <4> QED BY <1>1, <2>2, <3>1, <4>1 DEF EarnedInv, ShotType
      <3>3. Pace => Pace'
        BY <1>1, <2>2, <3>1, Bounds DEF Pace, EarnedInv, ShotType
      <3> QED BY <3>1, <3>2, <3>3 DEF EarnedInv, PaceInv, FastestRecord
    <2>4. ASSUME stage # "off", NEW i \in 1 .. Len(laser')
          PROVE  /\ laser'[i] # "before"
                 /\ laser'[i] = "announce" => early["announce"] + i <= RecvQueue
      <3>1. CASE i \in 1 .. Len(laser)
        BY <2>2, <2>4, <3>1 DEF EarnedInv, EarlyInv
      <3>2. CASE i = Len(laser) + 1
        BY <1>3, <2>2, <2>4, <3>2, ShotGamesAssumption DEF EarnedInv, EarlyInv, Phase
      <3> QED BY <2>2, <3>1, <3>2
    <2>5. EarlyInv'
      BY <1>1, <2>4 DEF EarnedInv, EarlyInv, gameVars
    <2> QED BY <2>3, <2>5 DEF EarnedInv
  <1>4. Len(laser) \in Nat /\ RecvQueue \in Nat
    BY <1>1, LenProperties, ShotGamesAssumption
  <1> QED BY <1>2, <1>3, <1>4

LEMMA TickStep ==
    ASSUME EarnedInv, Tick
    PROVE  EarnedInv'
  <1>1. /\ UNCHANGED <<game, stage, shots, remain, stop, laser, early, recordVars>>
        /\ quiet' = TRUE /\ Len(laser) \in Nat
    BY LenProperties DEF Tick, EarnedInv, ShotType
  <1>2. stage = "announce" => wait < Announce[game]
    BY DEF Tick, Waiting
  <1>3. /\ wait' = IF stage = "off" THEN wait ELSE wait + 1
        /\ elapsed' = IF stage = "off" \/ elapsed = MaxTicks THEN elapsed ELSE elapsed + 1
    BY DEF Tick
  <1>4. ShotType' /\ EarlyInv'
    BY <1>1, <1>3 DEF EarnedInv, ShotType, EarlyInv, recordVars
  <1>5. PaceInv'
    BY <1>1, <1>2, <1>3, Bounds DEF EarnedInv, ShotType, PaceInv, Pace, FastestRecord,
       recordVars, Lead
  <1> QED BY <1>4, <1>5 DEF EarnedInv

LEMMA StartStep ==
    ASSUME EarnedInv, NEW g \in Games, StartGame(g)
    PROVE  EarnedInv'
  <1>1. /\ game' = g /\ stage' = "announce" /\ wait' = 0 /\ shots' = 0 /\ elapsed' = 0
        /\ laser' = <<>> /\ Len(laser') = 0 /\ UNCHANGED <<quiet, recordVars>>
    BY DEF StartGame
  <1>2. laser' \in Seq(Phases)
    BY <1>1
  <1>3. /\ early' \in [Phases \ {"play"} -> Nat]
        /\ early'["before"] = 0 /\ early'["announce"] = 0
    BY DEF StartGame, Phases
  <1> QED BY <1>1, <1>2, <1>3, ShotGamesAssumption DEF EarnedInv, ShotType, EarlyInv, PaceInv,
     FastestRecord, recordVars, Games, Lead

LEMMA CountStep ==
    ASSUME EarnedInv, CountShot
    PROVE  EarnedInv'
  <1>1. /\ stage = "recv" /\ laser # <<>> /\ laser \in Seq(Phases)
        /\ stage' \in {"lowered", "loop"} /\ wait' = 0
        /\ UNCHANGED <<game, elapsed, stop, quiet, recordVars>>
    BY DEF CountShot, EarnedInv, ShotType
  <1>2. /\ laser' = Tail(laser) /\ laser' \in Seq(Phases)
        /\ Len(laser') = Len(laser) - 1 /\ Len(laser) \in Nat \ {0}
        /\ \A i \in 1 .. Len(laser') : laser'[i] = laser[i + 1]
        /\ Head(laser) = laser[1] /\ laser[1] \in Phases
    BY <1>1, HeadTailProperties, EmptySeq, ElementOfSeq DEF CountShot
  <1>3. shots' \in Nat /\ shots' <= shots + 1
    BY DEF CountShot, NextCount, EarnedInv, ShotType
  <1>4. Len(laser') <= RecvQueue
    BY <1>2, Bounds DEF EarnedInv, ShotType
  <1>5. PaceInv'
    <2>1. Pace => Pace'
      BY <1>1, <1>2, <1>3, Bounds DEF Pace, EarnedInv, ShotType
    <2> QED BY <1>1, <2>1 DEF EarnedInv, PaceInv, FastestRecord, recordVars
  <1>6. CASE laser[1] = "play"
    <2>1. early' = early
      BY <1>2, <1>6 DEF CountShot
    <2>2. ShotType'
      BY <1>1, <1>2, <1>3, <1>4, <2>1 DEF EarnedInv, ShotType, recordVars
    <2>3. EarlyInv'
      BY <1>1, <1>2, <2>1, ShotGamesAssumption DEF EarnedInv, EarlyInv, ShotType, Phases
    <2> QED BY <1>5, <2>2, <2>3 DEF EarnedInv
  <1>7. CASE laser[1] # "play"
    <2>1. laser[1] = "announce" /\ early["announce"] + 1 <= RecvQueue
      BY <1>1, <1>2, <1>7 DEF EarnedInv, EarlyInv, Phases
    <2>2. early' = [early EXCEPT !["announce"] = @ + 1]
      BY <1>2, <2>1 DEF CountShot
    <2>3. /\ early' \in [Phases \ {"play"} -> Nat]
          /\ early'["before"] = 0 /\ early'["announce"] = early["announce"] + 1
          /\ early["announce"] \in Nat
      BY <2>2 DEF EarnedInv, ShotType, EarlyInv, Phases
    <2>4. ShotType'
      BY <1>1, <1>2, <1>3, <1>4, <2>3 DEF EarnedInv, ShotType, recordVars
    <2>5. EarlyInv'
      BY <1>1, <1>2, <2>1, <2>3, ShotGamesAssumption DEF EarnedInv, EarlyInv
    <2> QED BY <1>5, <2>4, <2>5 DEF EarnedInv
  <1> QED BY <1>6, <1>7

(* A record saved by a complete game. *)
LEMMA RecordStep ==
    ASSUME EarnedInv, stage = "tail", game \in RecordGames,
           NEW read \in ReadNVSPair(game), CheckHistoryRecord(game, read)
    PROVE  /\ record' \in [RecordGames -> Int] /\ full' \in [RecordGames -> BOOLEAN]
           /\ FastestRecord'
  <1>1. CASE UNCHANGED <<record, full>>
    BY <1>1 DEF EarnedInv, ShotType, PaceInv, FastestRecord
  <1>2. CASE /\ record' = [record EXCEPT ![game] = Score(game)]
             /\ full' = [full EXCEPT ![game] = Complete]
    <2>1. Score(game) \in Int /\ Complete \in BOOLEAN
      BY DEF Score, Complete, EarnedInv, ShotType
    <2>2. record' \in [RecordGames -> Int] /\ full' \in [RecordGames -> BOOLEAN]
      BY <1>2, <2>1 DEF EarnedInv, ShotType
    <2>3. CASE game = "TMLIMIT"
      <3>1. record'["EIGHTSHOT"] = record["EIGHTSHOT"] /\ full'["EIGHTSHOT"] = full["EIGHTSHOT"]
        BY <1>2, <2>3 DEF EarnedInv, ShotType, RecordGames
      <3> QED BY <2>2, <3>1 DEF EarnedInv, PaceInv, FastestRecord
    <2>4. CASE game = "EIGHTSHOT"
      <3>1. record'["EIGHTSHOT"] = elapsed \div 2 /\ full'["EIGHTSHOT"] = Complete
        BY <1>2, <2>4 DEF EarnedInv, ShotType, RecordGames, Score
      <3>2. /\ elapsed \in Nat /\ shots \in Nat /\ Len(laser) \in Nat
            /\ elapsed = MaxTicks \/ shots + Len(laser) + Lead <= RecvQueue + elapsed + 1
        BY <2>4, LenProperties, Bounds DEF EarnedInv, ShotType, PaceInv, Pace
      <3>3. 2 * (elapsed \div 2) + 1 >= elapsed
        BY <3>2
      <3>4. Complete => shots >= Goal
        BY <2>4 DEF Complete
      <3>5. Complete => elapsed >= Lead + Goal - RecvQueue - 1
        BY <3>2, <3>4, ShotGamesAssumption DEF Lead, Games
      <3>6. Complete => 2 * (elapsed \div 2) + 1 >= Lead + Goal - RecvQueue - 1
        BY <3>2, <3>3, <3>5, ShotGamesAssumption DEF Lead, Games
      <3> QED BY <2>2, <3>1, <3>6 DEF FastestRecord, Lead
    <2> QED BY <2>3, <2>4 DEF RecordGames
  <1> QED BY <1>1, <1>2 DEF CheckHistoryRecord, SaveNVSPair

LEMMA EndStep ==
    ASSUME EarnedInv, EndGame
    PROVE  EarnedInv'
  <1>1. /\ stage = "tail" /\ stage' = "off" /\ UNCHANGED <<gameVars, quiet>>
        /\ laser' = <<>> \/ laser' = laser
    BY DEF EndGame
  <1>2. laser' \in Seq(Phases) /\ Len(laser') <= RecvQueue
    <2>1. <<>> \in Seq(Phases) /\ Len(<<>>) <= RecvQueue
      BY EmptySeq, Bounds
    <2> QED BY <1>1, <2>1 DEF EarnedInv, ShotType
  <1>3. /\ record' \in [RecordGames -> Int] /\ full' \in [RecordGames -> BOOLEAN]
        /\ FastestRecord'
    BY <1>1, RecordStep DEF EndGame, recordVars, EarnedInv, ShotType, PaceInv, FastestRecord
  <1> QED BY <1>1, <1>2, <1>3 DEF EarnedInv, ShotType, EarlyInv, PaceInv, gameVars

LEMMA ShotSteps == EarnedInv /\ [ShotNext]_shotVars => EarnedInv'
  <1> SUFFICES ASSUME EarnedInv, [ShotNext]_shotVars PROVE EarnedInv'
    OBVIOUS
  <1> USE DEF EarnedInv, ShotType, EarlyInv, PaceInv, FastestRecord, recordVars, gameVars, Pace
  <1>1. CASE EnterLoop
    BY <1>1, LenProperties, Bounds DEF EnterLoop, Lead
  <1>2. CASE LoopTest
    BY <1>2 DEF LoopTest
  <1>3. CASE NoShotYet
    BY <1>3 DEF NoShotYet
  <1>4. CASE TargetUpAgain
    BY <1>4 DEF TargetUpAgain
  <1>5. CASE StopGame
    BY <1>5 DEF StopGame
  <1>6. CASE UNCHANGED shotVars
    BY <1>6 DEF shotVars
  <1> QED BY <1>1, <1>2, <1>3, <1>4, <1>5, <1>6, TriggerStep, TickStep, StartStep, CountStep,
             EndStep DEF ShotNext, GameTask

(* No shot counts that was fired before its game, and of those fired during*)
(* the announcement no more than the receiver's queue holds; no record is  *)
(* better than the announcement and the receiver's dead time allow.        *)
THEOREM CountsAreEarned == AllSpec => []ShotsAreEarned
  <1>1. AllInit => EarnedInv
    BY ShotStart DEF AllInit
  <1>2. EarnedInv /\ [AllNext]_allVars => EarnedInv'
    <2>1. [AllNext]_allVars => [ShotNext]_shotVars
      BY DEF AllNext, allVars
    <2> QED BY <2>1, ShotSteps
  <1>3. EarnedInv => ShotsAreEarned
    BY DEF EarnedInv, EarlyInv, PaceInv, ShotsAreEarned, OnlyOwnShotsCount
  <1> QED BY <1>1, <1>2, <1>3, PTL DEF AllSpec

=============================================================================
