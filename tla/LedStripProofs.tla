---------------------------- MODULE LedStripProofs ----------------------------
(***************************************************************************)
(* Proofs about LedStrip, for a strip, a queue and blinks of any length.   *)
(***************************************************************************)
EXTENDS LedStrip, TLAPS

(* m_bIsRunning is set from the second store of a blink to its last one.   *)
RunningInv == running = TRUE <=> pc \in {"test", "flash", "end"}

(* A stop that met no waiting blink stays heard: no blink can wait, and    *)
(* one that runs finds the flag set.                                       *)
HeardInv ==
    client \in {"poll", "stopped"} /\ ~late =>
        /\ ~BlinkWaiting
        /\ pc \in {"enter", "test", "flash"} => stopFlag = TRUE

(* A flash that is shown has not been counted off yet. *)
FlashInv == pc = "flash" => left > 0

IInv == TypeOK /\ FlashInv /\ RunningInv /\ HeardInv /\ StoppedStripIsQuiet

-----------------------------------------------------------------------------
(* Every step keeps the variables within their types. *)
LEMMA TypeStep ==
    ASSUME TypeOK, FlashInv, Next
    PROVE  TypeOK' /\ FlashInv'
<1> USE LedStripAssumption DEF TypeOK, FlashInv, Leds
<1>1. ASSUME NEW c \in Commands, SendCmd(c) PROVE TypeOK' /\ FlashInv'
  <2>1. queue' \in Seq(Commands) /\ Len(queue') = Len(queue) + 1
    BY <1>1 DEF SendCmd
  <2>2. Len(queue') <= QueueLen
    BY <1>1, <2>1 DEF SendCmd
  <2>3. client' \in {"idle", "poll", "stopped"}
    BY <1>1 DEF SendCmd
  <2> QED BY <1>1, <2>1, <2>2, <2>3 DEF SendCmd
<1>2. CASE CallStop
  <2>1. late' \in BOOLEAN
    BY <1>2 DEF CallStop, BlinkWaiting
  <2> QED BY <1>2, <2>1 DEF CallStop
<1>3. CASE PollStop
  BY <1>3 DEF PollStop
<1>4. CASE ClearForSleep
  BY <1>4 DEF ClearForSleep
<1>5. CASE Receive
  <2>1. queue \in Seq(Commands) /\ queue # <<>>
    BY <1>5 DEF Receive
  <2>2. Head(queue) \in Commands /\ Tail(queue) \in Seq(Commands)
        /\ Len(Tail(queue)) = Len(queue) - 1
    BY <2>1
  <2> QED BY <1>5, <2>2 DEF Receive
<1>6. CASE DoCommand
  <2>1. lit' \subseteq Leds
    <3>1. CASE cmd = "OFF_ONE_MORE"
      BY <1>6, <3>1 DEF DoCommand
    <3>2. CASE cmd = "ON_ONE_MORE"
      BY <1>6, <3>2 DEF DoCommand
    <3>3. CASE cmd \notin {"ON_ONE_MORE", "OFF_ONE_MORE"}
      BY <1>6, <3>3 DEF DoCommand
    <3> QED BY <3>1, <3>2, <3>3
  <2> QED BY <1>6, <2>1 DEF DoCommand
<1>7. CASE Relight
  BY <1>7 DEF Relight
<1>8. CASE ResetStopFlag
  BY <1>8 DEF ResetStopFlag
<1>9. CASE EnterBlink
  BY <1>9 DEF EnterBlink
<1>10. CASE FlashOn
  BY <1>10 DEF FlashOn, Group
<1>11. CASE FlashOff
  BY <1>11 DEF FlashOff
<1>12. CASE SeeStop
  BY <1>12 DEF SeeStop
<1>13. CASE EndBlink
  BY <1>13 DEF EndBlink
<1>14. CASE LedTask
  BY <1>14, <1>5, <1>6, <1>7, <1>8, <1>9, <1>10, <1>11, <1>12, <1>13 DEF LedTask
<1> QED BY <1>1, <1>2, <1>3, <1>4, <1>14 DEF Next

(* The two flags and the waiting blinks, action by action. *)
LEMMA HeardStep ==
    ASSUME TypeOK, RunningInv, HeardInv, StoppedStripIsQuiet, Next
    PROVE  RunningInv' /\ HeardInv' /\ StoppedStripIsQuiet'
<1> USE DEF TypeOK, RunningInv, HeardInv, StoppedStripIsQuiet, BlinkWaiting
<1>1. ASSUME NEW c \in Commands, SendCmd(c)
      PROVE  RunningInv' /\ HeardInv' /\ StoppedStripIsQuiet'
  <2>1. CASE c \in Blinks
    <3>1. client' = "idle" /\ UNCHANGED <<pc, running>>
      BY <1>1, <2>1 DEF SendCmd
    <3> QED BY <3>1
  <2>2. CASE c \notin Blinks
    <3>1. client' = client /\ UNCHANGED <<pc, late, stopFlag, running>>
      BY <1>1, <2>2 DEF SendCmd
    <3>2. \A i \in DOMAIN queue' : queue'[i] = c \/ (i \in DOMAIN queue /\ queue'[i] = queue[i])
      BY <1>1 DEF SendCmd
    <3> QED BY <2>2, <3>1, <3>2
  <2> QED BY <2>1, <2>2
<1>2. CASE CallStop
  BY <1>2 DEF CallStop
<1>3. CASE PollStop
  BY <1>3 DEF PollStop
<1>4. CASE ClearForSleep
  BY <1>4 DEF ClearForSleep
<1>5. CASE Receive
  <2>1. queue \in Seq(Commands) /\ queue # <<>> /\ pc = "recv"
    BY <1>5 DEF Receive
  <2>2. 1 \in DOMAIN queue /\ Head(queue) = queue[1]
    BY <2>1
  <2>3. \A i \in DOMAIN Tail(queue) : i + 1 \in DOMAIN queue /\ Tail(queue)[i] = queue[i + 1]
    BY <2>1
  <2>4. UNCHANGED <<client, late, running>> /\ queue' = Tail(queue)
        /\ pc' = IF queue[1] \in Blinks THEN "reset" ELSE "do"
    BY <1>5, <2>2 DEF Receive
  <2> QED BY <2>1, <2>2, <2>3, <2>4
<1>6. CASE DoCommand
  BY <1>6 DEF DoCommand
<1>7. CASE Relight
  BY <1>7 DEF Relight
<1>8. CASE ResetStopFlag
  BY <1>8 DEF ResetStopFlag
<1>9. CASE EnterBlink
  BY <1>9 DEF EnterBlink
<1>10. CASE FlashOn
  BY <1>10 DEF FlashOn
<1>11. CASE FlashOff
  BY <1>11 DEF FlashOff
<1>12. CASE SeeStop
  BY <1>12 DEF SeeStop
<1>13. CASE EndBlink
  BY <1>13 DEF EndBlink
<1>14. CASE LedTask
  BY <1>14, <1>5, <1>6, <1>7, <1>8, <1>9, <1>10, <1>11, <1>12, <1>13 DEF LedTask
<1> QED BY <1>1, <1>2, <1>3, <1>4, <1>14 DEF Next

(* IInv holds at the start and is kept by every step. *)
THEOREM Invariance == Spec => []IInv
<1>1. Init => IInv
  <2> SUFFICES ASSUME Init PROVE IInv
    OBVIOUS
  <2>1. TypeOK /\ FlashInv
    <3>1. queue \in Seq(Commands) /\ Len(queue) = 0 /\ QueueLen >= 0
      BY LedStripAssumption DEF Init
    <3>2. Len(queue) <= QueueLen
      BY <3>1, LedStripAssumption
    <3> QED BY <3>1, <3>2 DEF Init, TypeOK, FlashInv, Commands
  <2>2. RunningInv /\ HeardInv /\ StoppedStripIsQuiet
    BY DEF Init, RunningInv, HeardInv, StoppedStripIsQuiet
  <2> QED BY <2>1, <2>2 DEF IInv
<1>2. IInv /\ [Next]_vars => IInv'
  <2> SUFFICES ASSUME IInv, [Next]_vars PROVE IInv'
    OBVIOUS
  <2>1. CASE Next
    BY <2>1, TypeStep, HeardStep DEF IInv
  <2>2. CASE UNCHANGED vars
    BY <2>2 DEF vars, IInv, TypeOK, FlashInv, RunningInv, HeardInv, StoppedStripIsQuiet, BlinkWaiting
  <2> QED BY <2>1, <2>2
<1> QED BY <1>1, <1>2, PTL DEF Spec

(* The variables of the strip keep their types. *)
THEOREM TypeCorrect == Spec => []TypeOK
<1>1. IInv => TypeOK
  BY DEF IInv
<1> QED BY <1>1, Invariance, PTL

(* A strip that was stopped shows no flash until a new blink is sent,      *)
(* unless stop() was called while a blink was still waiting.               *)
THEOREM StopIsObeyed == Spec => []StoppedStripIsQuiet
<1>1. IInv => StoppedStripIsQuiet
  BY DEF IInv
<1> QED BY <1>1, Invariance, PTL
=============================================================================
