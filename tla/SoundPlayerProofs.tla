-------------------------- MODULE SoundPlayerProofs --------------------------
(***************************************************************************)
(* Proofs about the sound player, within the system of VoiceControl, for   *)
(* any number of callers, any queue, any commands and any losses.          *)
(***************************************************************************)
EXTENDS VoiceControl, SequenceTheorems, WellFoundedInduction, TLAPS

(* What a sequence of phrases says, as one reads numbers up to a hundred.  *)
Says(phrases, n) ==
    \/ phrases = <<100>> /\ n = 100
    \/ \E u \in 0 .. 9 : phrases = <<u>> /\ n = u
    \/ phrases = <<10>> /\ n = 10
    \/ \E u \in 1 .. 9 : phrases = <<10, u>> /\ n = 10 + u
    \/ \E t \in 2 .. 9 : phrases = <<t, 10>> /\ n = 10 * t
    \/ \E t \in 2 .. 9, u \in 1 .. 9 : phrases = <<t, 10, u>> /\ n = 10 * t + u

(* Two pieces put together, element by element.                            *)
LEMMA Pair == ASSUME NEW a \in Nat, NEW b \in Nat
              PROVE  <<a>> \o <<b>> = <<a, b>>
<1> DEFINE s == <<a>> \o <<b>>
           p == <<a, b>>
<1>1. s \in Seq(Nat) /\ Len(s) = 2 /\ s[1] = a /\ s[2] = b
  <2>1. <<a>> \in Seq(Nat) /\ <<b>> \in Seq(Nat) /\ Len(<<a>>) = 1 /\ Len(<<b>>) = 1
      OBVIOUS
  <2> QED BY <2>1, ConcatProperties
<1>2. p \in Seq(Nat) /\ Len(p) = 2 /\ p[1] = a /\ p[2] = b
    OBVIOUS
<1> HIDE DEF s, p
<1>3. \A i \in 1 .. Len(s) : s[i] = p[i]
    BY <1>1, <1>2
<1>4. s = p
    BY <1>1, <1>2, <1>3, SeqEqual
<1> QED BY <1>4 DEF s, p

LEMMA Triple == ASSUME NEW a \in Nat, NEW b \in Nat, NEW c \in Nat
                PROVE  <<a, b>> \o <<c>> = <<a, b, c>>
<1> DEFINE s == <<a, b>> \o <<c>>
           p == <<a, b, c>>
<1>1. s \in Seq(Nat) /\ Len(s) = 3 /\ s[1] = a /\ s[2] = b /\ s[3] = c
  <2>1. <<a, b>> \in Seq(Nat) /\ <<c>> \in Seq(Nat) /\ Len(<<a, b>>) = 2 /\ Len(<<c>>) = 1
      OBVIOUS
  <2> QED BY <2>1, ConcatProperties
<1>2. p \in Seq(Nat) /\ Len(p) = 3 /\ p[1] = a /\ p[2] = b /\ p[3] = c
    OBVIOUS
<1> HIDE DEF s, p
<1>3. \A i \in 1 .. Len(s) : s[i] = p[i]
    BY <1>1, <1>2
<1>4. s = p
    BY <1>1, <1>2, <1>3, SeqEqual
<1> QED BY <1>4 DEF s, p

LEMMA Joined ==
    ASSUME NEW a \in Nat, NEW b \in Nat
    PROVE  /\ <<a>> \o <<10>> \o <<>> = <<a, 10>>
           /\ <<a>> \o <<10>> \o <<b>> = <<a, 10, b>>
<1>1. <<a>> \o <<10>> = <<a, 10>>
    BY Pair
<1>2. <<a, 10>> \o <<>> = <<a, 10>>
    OBVIOUS
<1>3. <<a, 10>> \o <<b>> = <<a, 10, b>>
    BY Triple
<1> QED BY <1>1, <1>2, <1>3

(* SoundPlayer::buildNum says every number from 0 to 100 as it is read.    *)
THEOREM NumbersAreRead == \A n \in 0 .. 100 : Says(BuildNum(n), n)
<1> TAKE n \in 0 .. 100
<1> DEFINE t == n \div 10
           u == n % 10
<1>1. CASE n = 100
    BY <1>1 DEF Says, BuildNum
<1>2. CASE n # 100
  <2>1. t \in 0 .. 9 /\ u \in 0 .. 9 /\ n = 10 * t + u
      BY <1>2
  <2>2. BuildNum(n) = (IF t > 1 THEN <<t>> ELSE <<>>)
                      \o (IF t >= 1 THEN <<10>> ELSE <<>>)
                      \o (IF u # 0 \/ n = 0 THEN <<u>> ELSE <<>>)
      BY <1>2 DEF BuildNum
  <2> HIDE DEF t, u
  <2>3. CASE t = 0
    <3>1. BuildNum(n) = <<u>> /\ n = u
        BY <2>1, <2>2, <2>3
    <3> QED BY <2>1, <3>1 DEF Says
  <2>4. CASE t = 1 /\ u = 0
    <3>1. BuildNum(n) = <<10>> /\ n = 10
        BY <2>1, <2>2, <2>4
    <3> QED BY <3>1 DEF Says
  <2>5. CASE t = 1 /\ u # 0
    <3>1. BuildNum(n) = <<10, u>> /\ n = 10 + u /\ u \in 1 .. 9
        BY <2>1, <2>2, <2>5
    <3> QED BY <3>1 DEF Says
  <2>6. CASE t > 1 /\ u = 0
    <3>1. BuildNum(n) = <<t>> \o <<10>> \o <<>>
      <4>1. t > 1 /\ t >= 1 /\ ~(u # 0 \/ n = 0)
          BY <2>1, <2>6
      <4> QED BY <2>2, <4>1, Zenon
    <3>3. <<t>> \o <<10>> \o <<>> = <<t, 10>>
        BY <2>1, Joined
    <3>2. n = 10 * t /\ t \in 2 .. 9
        BY <2>1, <2>6
    <3> QED BY <3>1, <3>2, <3>3 DEF Says
  <2>7. CASE t > 1 /\ u # 0
    <3>1. BuildNum(n) = <<t>> \o <<10>> \o <<u>>
      <4>1. t > 1 /\ t >= 1 /\ u # 0
          BY <2>1, <2>7
      <4> QED BY <2>2, <4>1, Zenon
    <3>3. <<t>> \o <<10>> \o <<u>> = <<t, 10, u>>
        BY <2>1, Joined
    <3>2. t \in 2 .. 9 /\ u \in 1 .. 9
        BY <2>1, <2>7
    <3> QED BY <2>1, <3>1, <3>2, <3>3 DEF Says
  <2> QED BY <2>1, <2>3, <2>4, <2>5, <2>6, <2>7
<1> QED BY <1>1, <1>2

-----------------------------------------------------------------------------
(* Only the player makes the recogniser deaf, and only while it plays a    *)
(* phrase: any other file is played, and the UART set up, with a           *)
(* recogniser that can hear or sleeps.                                     *)
Deaf == recognizer = "off"

PlayerInv ==
    /\ player \in {"idle", "begin", "play", "end"}
    /\ Deaf => uart /\ player \in {"play", "end"} /\ playing = "speech"
    /\ player = "play" /\ told => recognizer # "on"
    /\ player \in {"idle", "begin"} => ~speaker

LEMMA PlayerStep == PlayerInv /\ [Next]_vars => PlayerInv'
<1> SUFFICES ASSUME PlayerInv, [Next]_vars PROVE PlayerInv'
    OBVIOUS
<1> USE DEF PlayerInv, Deaf
<1>1. CASE UNCHANGED soundVars
    BY <1>1 DEF soundVars
<1>2. CASE Byte
    BY <1>2 DEF Byte
<1>3. CASE OtherAsks
    BY <1>3 DEF OtherAsks
<1>4. ASSUME NEW c \in Caller, ResetQueue(c) \/ StopAudio(c) \/ SendSound(c)
      PROVE  PlayerInv'
  <2>1. UNCHANGED <<playing, told, speaker, uart, recognizer>>
      BY <1>4 DEF ResetQueue, StopAudio, SendSound
  <2>2. player' = player \/ (player = "play" /\ player' = "end")
      BY <1>4 DEF ResetQueue, StopAudio, SendSound
  <2> QED BY <2>1, <2>2
<1>5. CASE TakeSound
    BY <1>5 DEF TakeSound
<1>6. CASE BeginPlay
  <2>1. CASE playing = "speech"
    <3>1. recognizer' \in Recognizer("off") /\ player' = "play" /\ playing' = playing
          /\ uart' = uart /\ (told' => uart)
        BY <1>6, <2>1 DEF BeginPlay
    <3> QED BY <2>1, <3>1 DEF Recognizer
  <2>2. CASE playing # "speech"
    <3>1. recognizer' = recognizer /\ player' = "play" /\ ~told'
        BY <1>6, <2>2 DEF BeginPlay
    <3> QED BY <1>6, <3>1 DEF BeginPlay
  <2> QED BY <2>1, <2>2
<1>7. CASE FileEnds
    BY <1>7 DEF FileEnds
<1>8. CASE EndPlay
  <2>1. CASE playing = "speech"
    <3>1. recognizer' \in Recognizer("on") /\ player' = "idle" /\ ~speaker'
        BY <1>8, <2>1 DEF EndPlay
    <3> QED BY <3>1 DEF Recognizer
  <2>2. CASE playing # "speech"
      BY <1>8, <2>2 DEF EndPlay
  <2> QED BY <2>1, <2>2
<1>9. CASE UartInit
    BY <1>9 DEF UartInit
<1>10. CASE SleepRecognizer
    BY <1>10 DEF SleepRecognizer
<1> QED BY <1>1, <1>2, <1>3, <1>4, <1>5, <1>6, <1>7, <1>8, <1>9, <1>10
        DEF Next, SoundNext, vars, Hear, LoseByte

(* The device does not hear itself, and is never left deaf or with its     *)
(* speaker on, whoever cuts off, resets or fills the queue (SoundPlayer    *)
(* ::_play, play and stop).                                                *)
THEOREM HearsOthersOnly == Spec => []RecognizerFollowsSpeech
<1>1. Init => PlayerInv
    BY DEF Init, SoundInit, PlayerInv, Deaf
<1>2. PlayerInv => RecognizerFollowsSpeech
    BY DEF PlayerInv, Deaf, RecognizerFollowsSpeech
<1> QED BY <1>1, <1>2, PlayerStep, PTL DEF Spec

-----------------------------------------------------------------------------
(* The frames.  A command is a pair <<type, id>>; with a small id its      *)
(* frame is this.                                                          *)
Sent == Plain \X Plain

Bytes(a) == <<165, 250, a[1], 0, a[2], 251>>

LEMMA FrameBytes == ASSUME NEW a \in Sent PROVE Frame(a[1], a[2]) = Bytes(a)
<1>1. a[2] \in 0 .. 164
    BY DEF Sent, Plain
<1>2. a[2] \div 256 = 0 /\ a[2] % 256 = a[2]
    BY <1>1
<1> QED BY <1>2 DEF Frame, Bytes

LEMMA BytesType ==
    ASSUME NEW a \in Sent
    PROVE  /\ a[1] \in Nat /\ a[2] \in Nat /\ a[1] <= 164 /\ a[2] <= 164
           /\ Bytes(a) \in Seq(Nat) /\ Len(Bytes(a)) = 6
           /\ Bytes(a)[1] = 165 /\ Bytes(a)[2] = 250 /\ Bytes(a)[3] = a[1]
           /\ Bytes(a)[4] = 0 /\ Bytes(a)[5] = a[2] /\ Bytes(a)[6] = 251
<1>1. a[1] \in Nat /\ a[2] \in Nat /\ a[1] <= 164 /\ a[2] <= 164
    BY DEF Sent, Plain
<1> QED BY <1>1 DEF Bytes

(* The bytes on their way: the frame of a from its byte i + 1 on, and, if  *)
(* more bytes follow, the frame of b.                                      *)
OnWire(w, a, i, b, more) ==
    /\ w \in Seq(Nat) /\ Len(w) = (6 - i) + more
    /\ i = 6 => more = 0
    /\ \A j \in 1 .. 6 - i : w[j] = Bytes(a)[i + j]
    /\ \A j \in 1 .. more : w[6 - i + j] = Bytes(b)[j]

LEMMA ConcatAt ==
    ASSUME NEW S, NEW s \in Seq(S), NEW t \in Seq(S)
    PROVE  /\ s \o t \in Seq(S) /\ Len(s \o t) = Len(s) + Len(t)
           /\ \A j \in 1 .. Len(s) : (s \o t)[j] = s[j]
           /\ \A j \in 1 .. Len(t) : (s \o t)[Len(s) + j] = t[j]
  OBVIOUS

LEMMA TailAt ==
    ASSUME NEW S, NEW s \in Seq(S), s # <<>>
    PROVE  /\ Head(s) = s[1] /\ Tail(s) \in Seq(S) /\ Len(Tail(s)) = Len(s) - 1
           /\ Len(s) \in Nat /\ Len(s) >= 1
           /\ \A j \in 1 .. Len(s) - 1 : Tail(s)[j] = s[j + 1]
  OBVIOUS

LEMMA NextByte ==
    ASSUME NEW w, NEW a \in Sent, NEW b \in Sent, NEW i \in 0 .. 6, NEW more \in {0, 6},
           OnWire(w, a, i, b, more), w # <<>>
    PROVE  /\ i <= 5 /\ Head(w) = Bytes(a)[i + 1]
           /\ ~(i = 5 /\ more = 6) => OnWire(Tail(w), a, i + 1, b, more)
           /\ i = 5 /\ more = 6 => OnWire(Tail(w), b, 0, b, 0)
<1>1. w \in Seq(Nat) /\ Len(w) = (6 - i) + more /\ (i = 6 => more = 0)
    BY DEF OnWire
<1>2. /\ \A j \in 1 .. 6 - i : w[j] = Bytes(a)[i + j]
      /\ \A j \in 1 .. more : w[6 - i + j] = Bytes(b)[j]
    BY DEF OnWire
<1>3. /\ Head(w) = w[1] /\ Tail(w) \in Seq(Nat) /\ Len(Tail(w)) = Len(w) - 1
      /\ Len(w) \in Nat /\ Len(w) >= 1
      /\ \A j \in 1 .. Len(w) - 1 : Tail(w)[j] = w[j + 1]
    BY <1>1, TailAt
<1>4. i <= 5 /\ i \in Nat /\ more \in Nat
    BY <1>1, <1>3
<1> DEFINE v == Tail(w)
<1>5. v \in Seq(Nat) /\ Len(v) = Len(w) - 1 /\ \A j \in 1 .. Len(w) - 1 : v[j] = w[j + 1]
    BY <1>3
<1> HIDE DEF v
<1>6. Head(w) = Bytes(a)[i + 1]
  <2>1. 1 \in 1 .. 6 - i
      BY <1>4
  <2> QED BY <1>2, <1>3, <2>1
<1>7. ASSUME ~(i = 5 /\ more = 6) PROVE OnWire(v, a, i + 1, b, more)
  <2>1. Len(v) = (6 - (i + 1)) + more
      BY <1>1, <1>4, <1>5
  <2>2. ASSUME NEW j \in 1 .. 6 - (i + 1) PROVE v[j] = Bytes(a)[(i + 1) + j]
    <3>1. j \in 1 .. Len(w) - 1 /\ j + 1 \in 1 .. 6 - i /\ i + (j + 1) = (i + 1) + j
        BY <1>1, <1>4
    <3>2. w[j + 1] = Bytes(a)[i + (j + 1)]
        BY <1>2, <3>1
    <3> QED BY <1>5, <3>1, <3>2
  <2>3. ASSUME NEW j \in 1 .. more PROVE v[6 - (i + 1) + j] = Bytes(b)[j]
    <3> DEFINE m == 6 - (i + 1) + j
    <3>1. m \in 1 .. Len(w) - 1 /\ m + 1 = 6 - i + j
        BY <1>1, <1>4
    <3>2. w[6 - i + j] = Bytes(b)[j]
        BY <1>2
    <3> HIDE DEF m
    <3>3. v[m] = Bytes(b)[j]
        BY <1>5, <3>1, <3>2
    <3> QED BY <3>3 DEF m
  <2>4. i + 1 = 6 => more = 0
      BY <1>4, <1>7
  <2> QED BY <1>5, <2>1, <2>2, <2>3, <2>4 DEF OnWire
<1>8. ASSUME i = 5, more = 6 PROVE OnWire(v, b, 0, b, 0)
  <2>1. Len(w) = 7 /\ Len(v) = 6
      BY <1>1, <1>5, <1>8
  <2>2. ASSUME NEW j \in 1 .. 6 - 0 PROVE v[j] = Bytes(b)[0 + j]
    <3>1. w[6 - 5 + j] = Bytes(b)[j] /\ 6 - 5 + j = j + 1 /\ 0 + j = j /\ j \in 1 .. 7 - 1
        BY <1>2, <1>8
    <3> QED BY <1>5, <2>1, <3>1
  <2>3. Len(v) = (6 - 0) + 0 /\ \A j \in 1 .. 0 : v[6 - 0 + j] = Bytes(b)[j]
      BY <2>1
  <2> QED BY <1>5, <2>2, <2>3 DEF OnWire
<1> QED BY <1>4, <1>6, <1>7, <1>8 DEF v

LEMMA NextFrame ==
    ASSUME NEW w, NEW a \in Sent, NEW b \in Sent, NEW c \in Sent, NEW i \in 0 .. 6,
           NEW more \in {0, 6}, OnWire(w, a, i, b, more), Len(w) <= 6
    PROVE  /\ more = 0
           /\ i < 6 => OnWire(w \o Bytes(c), a, i, c, 6)
           /\ i = 6 => OnWire(w \o Bytes(c), c, 0, c, 0)
<1>1. w \in Seq(Nat) /\ Len(w) = (6 - i) + more /\ (i = 6 => more = 0)
    BY DEF OnWire
<1>2. \A j \in 1 .. 6 - i : w[j] = Bytes(a)[i + j]
    BY DEF OnWire
<1>3. more = 0 /\ Len(w) = 6 - i
    BY <1>1
<1> DEFINE t == Bytes(c)
<1>4. t \in Seq(Nat) /\ Len(t) = 6
    BY BytesType
<1> HIDE DEF t
<1> DEFINE v == w \o t
<1>5. /\ v \in Seq(Nat) /\ Len(v) = Len(w) + Len(t)
      /\ \A j \in 1 .. Len(w) : v[j] = w[j]
      /\ \A j \in 1 .. Len(t) : v[Len(w) + j] = t[j]
  <2>1. w \in Seq(Nat) /\ t \in Seq(Nat)
      BY <1>1, <1>4
  <2> QED BY <2>1, ConcatAt
<1> HIDE DEF v
<1>6. /\ v \in Seq(Nat) /\ Len(v) = (6 - i) + 6
      /\ \A j \in 1 .. 6 - i : v[j] = Bytes(a)[i + j]
      /\ \A j \in 1 .. 6 : v[6 - i + j] = Bytes(c)[j]
    BY <1>2, <1>3, <1>4, <1>5 DEF t
<1>7. ASSUME i < 6 PROVE OnWire(v, a, i, c, 6)
    BY <1>6, <1>7 DEF OnWire
<1>8. ASSUME i = 6 PROVE OnWire(v, c, 0, c, 0)
  <2>1. Len(v) = (6 - 0) + 0 /\ \A j \in 1 .. 6 - 0 : v[j] = Bytes(c)[0 + j]
    <3>1. 6 - i = 0 /\ Len(v) = 6
        BY <1>6, <1>8
    <3>2. ASSUME NEW j \in 1 .. 6 PROVE v[j] = Bytes(c)[0 + j]
      <4>1. 6 - i + j = j /\ 0 + j = j
          BY <3>1
      <4> QED BY <1>6, <4>1
    <3> QED BY <3>1, <3>2
  <2>2. \A j \in 1 .. 0 : v[6 - 0 + j] = Bytes(c)[j]
      OBVIOUS
  <2> QED BY <1>6, <2>1, <2>2 DEF OnWire
<1> QED BY <1>3, <1>7, <1>8 DEF v, t

-----------------------------------------------------------------------------
(* The decoder.  Once it has the first byte of a frame it is i bytes into  *)
(* the stream of which it took recvLen: the difference has been lost.  So  *)
(* with three losses it can be one frame behind, but never has its fifth   *)
(* byte from anywhere but the fifth of that frame, or its last, or the     *)
(* two marks of the next: and those are no command.                        *)
InPlace(i) ==
    /\ recvLen \in 0 .. 5
    /\ recvLen > 0 => \E e \in 0 .. lost : recvLen + e = i \/ recvLen + e = i + 6
    /\ buff \in Seq(Nat)
    /\ Len(buff) = IF recvLen \in {3, 4} THEN recvLen - 2 ELSE 0

Collected(a, i) ==
    /\ recvLen = i /\ i \in {3, 4} => buff[1] = a[1]
    /\ recvLen = i /\ i = 4 => buff[2] = 0

One(claim) == IF claim THEN 1 ELSE 0

(* Commands that cannot be run any more, and have not been passed over:    *)
(* the one on the wire, when the decoder is not with it, and the next one, *)
(* when the decoder is behind in the frame on the wire.                    *)
Doomed(n, i) == One(i <= 4 /\ n # i) + One(1 <= n /\ n < i)

(* One byte. *)
LEMMA Decoded ==
    ASSUME NEW a \in Sent, NEW i \in 0 .. 5, NEW n \in Nat, n = recvLen,
           InPlace(i), lost \in Nat, lost <= 3, NEW m, m = NextRecvLen(n + 1, Bytes(a)[i + 1])
    PROVE  /\ m \in 0 .. 5 /\ (m = 0 \/ m = n + 1)
           /\ m > 0 => \E e \in 0 .. lost : m + e = i + 1 \/ m + e = (i + 1) + 6
           /\ n \in {2, 3, 4} => m = n + 1
           /\ n = 4 /\ i # 4 => Bytes(a)[i + 1] >= 165
           /\ Doomed(m, i + 1) + One(i = 4 /\ n # 4) <= Doomed(n, i)
           /\ i = 5 => Doomed(m, 0) = Doomed(m, 6)
           /\ Doomed(m, i + 1) \in Nat
<1> DEFINE c == Bytes(a)[i + 1]
<1>1. /\ i = 0 => c = 165
      /\ i = 1 => c = 250
      /\ i = 2 => c \in 0 .. 164
      /\ i = 3 => c = 0
      /\ i = 4 => c \in 0 .. 164
      /\ i = 5 => c = 251
  <2>1. /\ a[1] \in Nat /\ a[2] \in Nat /\ a[1] <= 164 /\ a[2] <= 164
        /\ Bytes(a)[1] = 165 /\ Bytes(a)[2] = 250 /\ Bytes(a)[3] = a[1]
        /\ Bytes(a)[4] = 0 /\ Bytes(a)[5] = a[2] /\ Bytes(a)[6] = 251
    <3>1. a[1] \in Nat /\ a[2] \in Nat /\ a[1] <= 164 /\ a[2] <= 164
        BY BytesType
    <3>2. Bytes(a)[1] = 165 /\ Bytes(a)[2] = 250 /\ Bytes(a)[3] = a[1]
        BY BytesType
    <3>3. Bytes(a)[4] = 0 /\ Bytes(a)[5] = a[2] /\ Bytes(a)[6] = 251
        BY BytesType
    <3> QED BY <3>1, <3>2, <3>3
  <2>2. /\ i = 0 => i + 1 = 1
        /\ i = 1 => i + 1 = 2
        /\ i = 2 => i + 1 = 3
        /\ i = 3 => i + 1 = 4
        /\ i = 4 => i + 1 = 5
        /\ i = 5 => i + 1 = 6
      OBVIOUS
  <2> QED BY <2>1, <2>2
<1> HIDE DEF c
<1>2. n \in 0 .. 5 /\ (n > 0 => \E e \in 0 .. lost : n + e = i \/ n + e = i + 6)
    BY DEF InPlace
<1>3. m = CASE n + 1 = 1 -> IF c = 165 THEN 1 ELSE 0
            [] n + 1 = 2 -> IF c = 250 THEN 2 ELSE 0
            [] n + 1 = 6 -> 0
            [] OTHER -> n + 1
    BY DEF NextRecvLen, c
<1>4. /\ n = 0 => m = IF c = 165 THEN 1 ELSE 0
      /\ n = 1 => m = IF c = 250 THEN 2 ELSE 0
      /\ n = 5 => m = 0
      /\ n \in {2, 3, 4} => m = n + 1
    BY <1>2, <1>3
<1>5. m \in 0 .. 5 /\ (m = 0 \/ m = n + 1)
    BY <1>2, <1>4
<1>6. ASSUME m > 0 PROVE \E e \in 0 .. lost : m + e = i + 1 \/ m + e = (i + 1) + 6
  <2>1. CASE n = 0
    <3>1. m = 1 /\ i = 0
        BY <1>1, <1>4, <1>6, <2>1
    <3> QED BY <3>1
  <2>2. CASE n > 0
    <3>1. PICK e \in 0 .. lost : n + e = i \/ n + e = i + 6
        BY <1>2, <2>2
    <3>2. m + e = i + 1 \/ m + e = (i + 1) + 6
        BY <1>2, <1>5, <1>6, <3>1
    <3> QED BY <3>2
  <2> QED BY <1>2, <2>1, <2>2
<1>7. n > 0 => i \in n .. n + 3 \/ i + 6 \in n .. n + 3
    BY <1>2
<1>8. n = 4 /\ i # 4 => c >= 165
    BY <1>1, <1>7
<1>9. Doomed(m, i + 1) + One(i = 4 /\ n # 4) <= Doomed(n, i)
  <2>1. CASE n = 0
      BY <1>1, <1>4, <2>1 DEF Doomed, One
  <2>2. CASE n = 1
      BY <1>1, <1>4, <1>7, <2>2 DEF Doomed, One
  <2>3. CASE n \in {2, 3, 4}
      BY <1>4, <1>7, <2>3 DEF Doomed, One
  <2>4. CASE n = 5
      BY <1>4, <1>7, <2>4 DEF Doomed, One
  <2> QED BY <1>2, <2>1, <2>2, <2>3, <2>4
<1>10. i = 5 => Doomed(m, 0) = Doomed(m, 6)
    BY <1>5 DEF Doomed, One
<1>11. Doomed(m, i + 1) \in Nat
    BY DEF Doomed, One
<1> QED BY <1>4, <1>5, <1>6, <1>8, <1>9, <1>10, <1>11 DEF c

(* The k commands at the end of pending outlive a command that is before   *)
(* them, and that is the only one to go unaccounted for.                   *)
LEMMA Least ==
    ASSUME NEW S, S \subseteq Nat, S # {}
    PROVE  \E i \in S : \A j \in S : i <= j
<1> DEFINE R == OpToRel(<, Nat)
<1>1. IsWellFoundedOn(R, Nat)
    BY NatLessThanWellFounded, Zenon
<1>2. \A i, j \in Nat : j < i => <<j, i>> \in R
  <2> SUFFICES ASSUME NEW i \in Nat, NEW j \in Nat, j < i PROVE <<j, i>> \in R
      OBVIOUS
  <2>1. <<j, i>> \in Nat \X Nat /\ <<j, i>>[1] = j /\ <<j, i>>[2] = i
      OBVIOUS
  <2> QED BY <2>1, Zenon DEF OpToRel
<1> HIDE DEF R
<1>3. PICK i \in S : \A j \in S : ~(<<j, i>> \in R)
    BY <1>1, WFMin
<1>4. \A j \in S : ~(j < i)
    BY <1>2, <1>3
<1> QED BY <1>4

LEMMA Accounted ==
    ASSUME pending \in Seq(Sent), missed \in Nat, NEW a \in Sent, NEW k \in Nat,
           k < Len(pending), pending[Len(pending) - k] = a, Account(a)
    PROVE  /\ phantom' = phantom /\ pending' \in Seq(Sent) /\ missed' \in Nat
           /\ missed' + Len(pending') = missed + Len(pending) - 1
           /\ Len(pending') >= k
           /\ \A j \in Nat : j < k =>
                pending'[Len(pending') - j] = pending[Len(pending) - j]
<1> DEFINE alike == {i \in 1 .. Len(pending) : pending[i] = a}
           first == CHOOSE i \in alike : \A j \in alike : i <= j
<1>1. Len(pending) - k \in alike
    OBVIOUS
<1>2. alike # {} /\ alike \subseteq Nat
    BY <1>1
<1>3. first \in alike /\ \A j \in alike : first <= j
    BY <1>2, Least
<1>4. first \in 1 .. Len(pending) - k
    BY <1>1, <1>3
<1>5. /\ missed' = missed + first - 1
      /\ pending' = SubSeq(pending, first + 1, Len(pending))
      /\ phantom' = phantom
    BY <1>2 DEF Account
<1> HIDE DEF alike, first
<1>6. /\ pending' \in Seq(Sent) /\ Len(pending') = Len(pending) - first
      /\ \A j \in 1 .. Len(pending) - first : pending'[j] = pending[first + j]
    BY <1>4, <1>5
<1>7. ASSUME NEW j \in Nat, j < k
      PROVE  pending'[Len(pending') - j] = pending[Len(pending) - j]
  <2>1. /\ Len(pending') - j \in 1 .. Len(pending) - first
        /\ first + (Len(pending') - j) = Len(pending) - j
      BY <1>4, <1>6, <1>7
  <2> QED BY <1>6, <2>1
<1>8. /\ missed' \in Nat /\ missed' + Len(pending') = missed + Len(pending) - 1
      /\ Len(pending') >= k
  <2>1. Len(pending) \in Nat /\ first \in Nat /\ first >= 1 /\ first <= Len(pending) - k
      BY <1>4
  <2>2. Len(pending') = Len(pending) - first /\ missed' = missed + first - 1
      BY <1>5, <1>6
  <2> QED BY <2>1, <2>2
<1> QED BY <1>5, <1>6, <1>7, <1>8

-----------------------------------------------------------------------------
(* The commands on the wire are the last ones pending, and those before    *)
(* them, with those passed over and those doomed, are paid for by losses.  *)
Knows(a)       == Known(a[1], a[2])
OwedNow(a, i)  == One(i <= 4 /\ Knows(a))
OwedNext(b, m) == One(m = 6 /\ Knows(b))

Paid(a, i, b, more) ==
    LET now == OwedNow(a, i)  next == OwedNext(b, more)  all == Len(pending)
    IN  /\ now = 1 => all > next /\ pending[all - next] = a
        /\ next = 1 => all > 0 /\ pending[all] = b
        /\ missed + all - now - next + Doomed(recvLen, i) <= 2 * lost

At(a, i, b, more) ==
    OnWire(wire, a, i, b, more) /\ InPlace(i) /\ Collected(a, i) /\ Paid(a, i, b, more)

Somewhere == \E a, b \in Sent, i \in 0 .. 6, more \in {0, 6} : At(a, i, b, more)

VoiceInv ==
    /\ lost \in Nat
    /\ lost <= 3 => ~phantom /\ missed \in Nat /\ pending \in Seq(Sent) /\ Somewhere

LEMMA Ones ==
    /\ \A a, i : OwedNow(a, i) \in {0, 1}
    /\ \A b, m : OwedNext(b, m) \in {0, 1}
    /\ \A n, i \in Int : Doomed(n, i) \in 0 .. 2 /\ (i >= 5 => Doomed(n, i) \in 0 .. 1)
  BY DEF OwedNow, OwedNext, Doomed, One

(* One byte further, by whatever it was taken. *)
LEMMA Advanced ==
    ASSUME NEW a \in Sent, NEW b \in Sent, NEW i \in 0 .. 6, NEW more \in {0, 6},
           OnWire(wire, a, i, b, more), wire # <<>>, wire' = Tail(wire),
           lost' \in Nat, lost' <= 3, missed' \in Nat, pending' \in Seq(Sent),
           InPlace(i + 1)', Collected(a, i + 1)', Paid(a, i + 1, b, more)'
    PROVE  Somewhere'
<1>1. /\ i <= 5
      /\ ~(i = 5 /\ more = 6) => OnWire(wire', a, i + 1, b, more)
      /\ i = 5 /\ more = 6 => OnWire(wire', b, 0, b, 0)
    BY NextByte
<1>2. CASE ~(i = 5 /\ more = 6)
  <2>1. At(a, i + 1, b, more)' /\ i + 1 \in 0 .. 6
      BY <1>1, <1>2 DEF At
  <2> QED BY <2>1 DEF Somewhere
<1>3. CASE i = 5 /\ more = 6
  <2>1. /\ recvLen' \in 0 .. 5 /\ buff' \in Seq(Nat)
        /\ Len(buff') = IF recvLen' \in {3, 4} THEN recvLen' - 2 ELSE 0
        /\ recvLen' > 0 => \E e \in 0 .. lost' : recvLen' + e = i + 1 \/ recvLen' + e = (i + 1) + 6
      BY DEF InPlace
  <2>2. InPlace(0)'
    <3>1. ASSUME recvLen' > 0 PROVE \E e \in 0 .. lost' : recvLen' + e = 0 + 6
      <4>1. PICK e \in 0 .. lost' : recvLen' + e = i + 1 \/ recvLen' + e = (i + 1) + 6
          BY <2>1, <3>1
      <4>2. recvLen' \in 0 .. 5
          BY <2>1
      <4>3. e \in 0 .. 3
          OBVIOUS
      <4>4. recvLen' + e = 0 + 6
        <5>1. i + 1 = 6 /\ (i + 1) + 6 = 12
            BY <1>3
        <5>2. recvLen' + e = 6 \/ recvLen' + e = 12
            BY <4>1, <5>1
        <5>3. \A x \in 0 .. 5, y \in 0 .. 3 : x + y = 6 \/ x + y = 12 => x + y = 0 + 6
            OBVIOUS
        <5> QED BY <4>2, <4>3, <5>2, <5>3, Zenon
      <4> QED BY <4>4
    <3> QED BY <2>1, <3>1 DEF InPlace
  <2>3. Collected(b, 0)'
      BY DEF Collected
  <2>4. Paid(b, 0, b, 0)'
    <3>1. OwedNow(a, i + 1) = 0 /\ OwedNow(b, 0) = OwedNext(b, more) /\ OwedNext(b, 0) = 0
        BY <1>3 DEF OwedNow, OwedNext, One
    <3>2. Doomed(recvLen', 0) = Doomed(recvLen', i + 1)
        BY <1>3, <2>1 DEF Doomed, One
    <3>3. OwedNext(b, more) \in {0, 1} /\ Len(pending') \in Nat /\ Doomed(recvLen', 0) \in Nat
      <4>1. Doomed(recvLen', 0) \in Nat
          BY DEF Doomed, One
      <4> QED BY <4>1, Ones
    <3> QED BY <3>1, <3>2, <3>3 DEF Paid
  <2>5. At(b, 0, b, 0)'
      BY <1>1, <1>3, <2>2, <2>3, <2>4 DEF At
  <2> QED BY <2>5 DEF Somewhere
<1> QED BY <1>2, <1>3

LEMMA VoiceAtFirst == Init => VoiceInv
<1> SUFFICES ASSUME Init PROVE VoiceInv
    OBVIOUS
<1> DEFINE z == <<0, 0>>
<1>1. z \in Sent
    BY DEF Sent, Plain
<1>2. OnWire(wire, z, 6, z, 0)
    BY DEF Init, OnWire
<1>3. InPlace(6) /\ Collected(z, 6)
    BY DEF Init, InPlace, Collected
<1>4. Paid(z, 6, z, 0)
    BY DEF Init, Paid, OwedNow, OwedNext, Doomed, One
<1> HIDE DEF z
<1>5. Somewhere
    BY <1>1, <1>2, <1>3, <1>4 DEF Somewhere, At
<1> QED BY <1>5 DEF Init, VoiceInv

(* The recogniser sends a frame. *)
LEMMA HearKept ==
    ASSUME VoiceInv, lost <= 3, NEW h \in Heard, Hear(h[1], h[2])
    PROVE  VoiceInv'
<1>1. h \in Sent /\ Frame(h[1], h[2]) = Bytes(h) /\ <<h[1], h[2]>> = h
  <2>1. h \in Sent
      BY VoiceAssumption DEF Sent
  <2> QED BY <2>1, FrameBytes DEF Sent
<1>2. /\ wire' = wire \o Bytes(h) /\ Len(wire) <= 6
      /\ pending' = IF Knows(h) THEN Append(pending, h) ELSE pending
      /\ UNCHANGED <<recvLen, buff, lost, missed, phantom>>
    BY <1>1 DEF Hear, Knows
<1>3. PICK a \in Sent, b \in Sent, i \in 0 .. 6, more \in {0, 6} : At(a, i, b, more)
    BY DEF VoiceInv, Somewhere
<1>4. /\ more = 0
      /\ i < 6 => OnWire(wire', a, i, h, 6)
      /\ i = 6 => OnWire(wire', h, 0, h, 0)
    BY <1>1, <1>2, <1>3, NextFrame DEF At
<1>5. /\ pending \in Seq(Sent) /\ missed \in Nat /\ lost \in Nat /\ ~phantom
      /\ pending' \in Seq(Sent) /\ missed' \in Nat
      /\ Knows(h) => Len(pending') = Len(pending) + 1 /\ pending'[Len(pending')] = h
                     /\ (\A j \in 1 .. Len(pending) : pending'[j] = pending[j])
      /\ ~Knows(h) => pending' = pending
    BY <1>1, <1>2 DEF VoiceInv
<1>6. OwedNext(b, more) = 0 /\ OwedNext(h, 6) = One(Knows(h)) /\ OwedNow(h, 0) = One(Knows(h))
      /\ OwedNext(h, 0) = 0
    BY <1>4 DEF OwedNext, OwedNow, One
<1>7. /\ OwedNow(a, i) = 1 => Len(pending) > 0 /\ pending[Len(pending)] = a
      /\ missed + Len(pending) - OwedNow(a, i) + Doomed(recvLen, i) <= 2 * lost
      /\ OwedNow(a, i) \in {0, 1} /\ Len(pending) \in Nat /\ Doomed(recvLen, i) \in Nat
  <2>1. recvLen \in Int
      BY <1>3 DEF At, InPlace
  <2>2. OwedNow(a, i) \in {0, 1} /\ Len(pending) \in Nat /\ Doomed(recvLen, i) \in Nat
      BY <1>5, <2>1, Ones
  <2>3. Paid(a, i, b, more)
      BY <1>3 DEF At
  <2> QED BY <1>5, <1>6, <2>2, <2>3 DEF Paid
<1>8. CASE i < 6
  <2>1. InPlace(i)' /\ Collected(a, i)'
      BY <1>2, <1>3 DEF At, InPlace, Collected
  <2>2. Paid(a, i, h, 6)'
    <3>1. CASE Knows(h)
      <4>1. OwedNext(h, 6) = 1
          BY <1>6, <3>1 DEF One
      <4>2. Len(pending') = Len(pending) + 1 /\ pending'[Len(pending')] = h
          BY <1>5, <3>1
      <4>3. OwedNow(a, i) = 1 => Len(pending') > 1 /\ pending'[Len(pending') - 1] = a
        <5> SUFFICES ASSUME OwedNow(a, i) = 1
                     PROVE  Len(pending') > 1 /\ pending'[Len(pending') - 1] = a
            OBVIOUS
        <5>1. Len(pending) > 0 /\ pending[Len(pending)] = a /\ Len(pending) \in Nat
            BY <1>7
        <5>2. Len(pending') - 1 = Len(pending) /\ Len(pending) \in 1 .. Len(pending)
            BY <4>2, <5>1
        <5>3. pending'[Len(pending)] = pending[Len(pending)]
            BY <1>5, <3>1, <5>2
        <5> QED BY <4>2, <5>1, <5>2, <5>3
      <4>4. missed' + Len(pending') - OwedNow(a, i) - 1 + Doomed(recvLen', i) <= 2 * lost'
          BY <1>2, <1>5, <1>7, <4>2
      <4>5. Len(pending') > 0
          BY <1>7, <4>2
      <4> QED BY <4>1, <4>2, <4>3, <4>4, <4>5 DEF Paid
    <3>2. CASE ~Knows(h)
      <4>1. OwedNext(h, 6) = 0
          BY <1>6, <3>2 DEF One
      <4> QED BY <1>2, <1>5, <1>7, <3>2, <4>1 DEF Paid
    <3> QED BY <3>1, <3>2
  <2>3. At(a, i, h, 6)'
      BY <1>4, <1>8, <2>1, <2>2 DEF At
  <2>4. Somewhere'
      BY <1>1, <2>3 DEF Somewhere
  <2> QED BY <1>2, <1>5, <2>4 DEF VoiceInv
<1>9. CASE i = 6
  <2>1. InPlace(6) /\ lost \in 0 .. 3
      BY <1>3, <1>5, <1>9 DEF At
  <2>2. InPlace(0)'
      BY <1>2, <2>1 DEF InPlace
  <2>3. Collected(h, 0)'
      BY DEF Collected
  <2>4. Doomed(recvLen', 0) = Doomed(recvLen, 6) /\ OwedNow(a, i) = 0
      BY <1>2, <1>9, <2>1 DEF InPlace, Doomed, OwedNow, One
  <2>5. Paid(h, 0, h, 0)'
    <3>1. CASE Knows(h)
      <4>1. OwedNow(h, 0) = 1
          BY <1>6, <3>1 DEF One
      <4> QED BY <1>2, <1>5, <1>6, <1>7, <1>9, <2>4, <3>1, <4>1 DEF Paid
    <3>2. CASE ~Knows(h)
      <4>1. OwedNow(h, 0) = 0
          BY <1>6, <3>2 DEF One
      <4> QED BY <1>2, <1>5, <1>6, <1>7, <1>9, <2>4, <3>2, <4>1 DEF Paid
    <3> QED BY <3>1, <3>2
  <2>6. At(h, 0, h, 0)'
      BY <1>4, <1>9, <2>2, <2>3, <2>5 DEF At
  <2>7. Somewhere'
      BY <1>1, <2>6 DEF Somewhere
  <2> QED BY <1>2, <1>5, <2>7 DEF VoiceInv
<1> QED BY <1>8, <1>9

(* A byte is lost. *)
LEMMA LoseByteKept ==
    ASSUME VoiceInv, LoseByte
    PROVE  VoiceInv'
<1> SUFFICES ASSUME lost' <= 3 PROVE VoiceInv'
    BY DEF VoiceInv, LoseByte
<1>1. /\ wire # <<>> /\ wire' = Tail(wire) /\ lost' = lost + 1 /\ lost \in Nat
      /\ UNCHANGED <<recvLen, buff, pending, missed, phantom>>
    BY DEF LoseByte, VoiceInv
<1>2. lost \in 0 .. 2 /\ ~phantom /\ missed \in Nat /\ pending \in Seq(Sent) /\ Somewhere
    BY <1>1 DEF VoiceInv
<1>3. PICK a \in Sent, b \in Sent, i \in 0 .. 6, more \in {0, 6} : At(a, i, b, more)
    BY <1>2 DEF Somewhere
<1>4. OnWire(wire, a, i, b, more) /\ i \in 0 .. 5
  <2>1. OnWire(wire, a, i, b, more)
      BY <1>3 DEF At
  <2>2. i <= 5
    <3>1. wire # <<>>
        BY <1>1
    <3>2. /\ i <= 5 /\ Head(wire) = Bytes(a)[i + 1]
          /\ ~(i = 5 /\ more = 6) => OnWire(Tail(wire), a, i + 1, b, more)
          /\ i = 5 /\ more = 6 => OnWire(Tail(wire), b, 0, b, 0)
        BY <2>1, <3>1, NextByte
    <3> QED BY <3>2
  <2> QED BY <2>1, <2>2
<1>5. /\ recvLen \in 0 .. 5
      /\ recvLen > 0 => \E e \in 0 .. lost : recvLen + e = i \/ recvLen + e = i + 6
    BY <1>3 DEF At, InPlace
<1>6. InPlace(i + 1)'
  <2>1. ASSUME recvLen > 0
        PROVE  \E e \in 0 .. lost' : recvLen + e = i + 1 \/ recvLen + e = (i + 1) + 6
    <3>1. PICK e \in 0 .. lost : recvLen + e = i \/ recvLen + e = i + 6
        BY <1>5, <2>1
    <3>2. /\ e + 1 \in 0 .. lost'
          /\ recvLen + (e + 1) = i + 1 \/ recvLen + (e + 1) = (i + 1) + 6
        BY <1>1, <1>4, <1>5, <3>1
    <3> QED BY <3>2
  <2> QED BY <1>1, <1>3, <2>1 DEF At, InPlace
<1>7. Collected(a, i + 1)'
  <2>1. recvLen # i + 1
    <3> SUFFICES ASSUME recvLen = i + 1 PROVE FALSE
        OBVIOUS
    <3>1. PICK e \in 0 .. 2 : recvLen + e = i \/ recvLen + e = i + 6
        BY <1>2, <1>4, <1>5
    <3> QED BY <1>4, <3>1
  <2> QED BY <1>1, <2>1 DEF Collected
<1>8. Paid(a, i + 1, b, more)'
  <2>1. /\ OwedNow(a, i) \in {0, 1} /\ OwedNext(b, more) \in {0, 1} /\ Len(pending) \in Nat
        /\ Doomed(recvLen, i) \in Nat /\ Doomed(recvLen, i + 1) \in 0 .. 2
        /\ i + 1 = 5 => Doomed(recvLen, i + 1) \in 0 .. 1
      BY <1>2, <1>4, <1>5, Ones
  <2>2. /\ OwedNow(a, i + 1) \in {0, 1}
        /\ OwedNow(a, i + 1) = 1 => OwedNow(a, i) = 1
        /\ i + 1 # 5 => OwedNow(a, i + 1) = OwedNow(a, i)
      BY <1>4 DEF OwedNow, One
  <2>3. Paid(a, i, b, more)
      BY <1>3 DEF At
  <2>4. missed + Len(pending) - OwedNow(a, i + 1) - OwedNext(b, more) + Doomed(recvLen, i + 1)
          <= 2 * (lost + 1)
    <3> DEFINE p == missed          q == Len(pending)      x == OwedNext(b, more)
               o == OwedNow(a, i)   d == Doomed(recvLen, i)
               v == OwedNow(a, i + 1)   e == Doomed(recvLen, i + 1)
    <3>1. p + q - o - x + d <= 2 * lost
        BY <2>3 DEF Paid
    <3>2. o \in {0, 1} /\ v \in {0, 1} /\ d \in Nat /\ e \in Nat
        BY <2>1, <2>2
    <3>3. o + e <= d + v + 2
        BY <2>1, <2>2
    <3>4. p \in Nat /\ q \in Nat /\ lost \in Nat /\ x \in {0, 1}
        BY <1>2, <2>1
    <3> HIDE DEF p, q, x, o, d, v, e
    <3>5. p + q - v - x + e <= 2 * (lost + 1)
        BY <3>1, <3>2, <3>3, <3>4
    <3> QED BY <3>5 DEF p, q, x, v, e
  <2> QED BY <1>1, <2>2, <2>3, <2>4 DEF Paid
<1>9. Somewhere'
    BY <1>1, <1>2, <1>3, <1>6, <1>7, <1>8, Advanced DEF At
<1> QED BY <1>1, <1>2, <1>9 DEF VoiceInv

(* The task reads a byte. *)
LEMMA ByteKept ==
    ASSUME VoiceInv, lost <= 3, Byte
    PROVE  VoiceInv'
<1>1. /\ wire # <<>> /\ wire' = Tail(wire) /\ lost' = lost /\ lost \in 0 .. 3
      /\ ~phantom /\ missed \in Nat /\ pending \in Seq(Sent) /\ Somewhere
    BY DEF VoiceInv, Byte
<1>2. PICK a \in Sent, b \in Sent, i \in 0 .. 6, more \in {0, 6} : At(a, i, b, more)
    BY <1>1 DEF Somewhere
<1>3. i \in 0 .. 5 /\ Head(wire) = Bytes(a)[i + 1]
  <2>1. OnWire(wire, a, i, b, more)
      BY <1>2 DEF At
  <2>2. i <= 5 /\ Head(wire) = Bytes(a)[i + 1]
    <3>1. wire # <<>>
        BY <1>1
    <3>2. /\ i <= 5 /\ Head(wire) = Bytes(a)[i + 1]
          /\ ~(i = 5 /\ more = 6) => OnWire(Tail(wire), a, i + 1, b, more)
          /\ i = 5 /\ more = 6 => OnWire(Tail(wire), b, 0, b, 0)
        BY <2>1, <3>1, NextByte
    <3> QED BY <3>2
  <2> QED BY <2>2
<1> DEFINE n == recvLen
           m == NextRecvLen(recvLen + 1, Bytes(a)[i + 1])
           c == Bytes(a)[i + 1]
<1>4. recvLen' = m
    BY <1>3 DEF Byte
<1>5. n \in 0 .. 5 /\ InPlace(i) /\ Collected(a, i) /\ Paid(a, i, b, more)
    BY <1>2 DEF At, InPlace
<1>6. /\ m \in 0 .. 5 /\ (m = 0 \/ m = n + 1)
      /\ m > 0 => \E e \in 0 .. lost : m + e = i + 1 \/ m + e = (i + 1) + 6
      /\ n \in {2, 3, 4} => m = n + 1
      /\ n = 4 /\ i # 4 => c >= 165
      /\ Doomed(m, i + 1) + One(i = 4 /\ n # 4) <= Doomed(n, i)
      /\ Doomed(m, i + 1) \in Nat
  <2>1. n \in Nat /\ lost \in Nat /\ lost <= 3
      BY <1>1, <1>5
  <2> QED BY <1>3, <1>5, <2>1, Decoded
<1>7. c \in Nat /\ (i = 2 => c = a[1]) /\ (i = 3 => c = 0) /\ (i = 4 => c = a[2])
  <2>1. /\ a[1] \in Nat /\ a[2] \in Nat
        /\ Bytes(a)[1] = 165 /\ Bytes(a)[2] = 250 /\ Bytes(a)[3] = a[1]
      BY BytesType
  <2>2. Bytes(a)[4] = 0 /\ Bytes(a)[5] = a[2] /\ Bytes(a)[6] = 251
      BY BytesType
  <2> QED BY <1>3, <2>1, <2>2
<1>8. /\ n \in {2, 3} => buff' = Append(buff, c) /\ UNCHANGED <<pending, missed, phantom>>
      /\ n = 4 => RunCmd(buff[1], 256 * buff[2] + c) /\ buff' = <<>>
      /\ n \notin {2, 3, 4} => UNCHANGED <<buff, pending, missed, phantom>>
    BY <1>3, <1>5 DEF Byte
<1> HIDE DEF m, c
<1>9. InPlace(i + 1)'
  <2>0. buff \in Seq(Nat) /\ Len(buff) = IF n \in {3, 4} THEN n - 2 ELSE 0
      BY <1>5 DEF InPlace
  <2>1. buff' \in Seq(Nat) /\ Len(buff') = IF m \in {3, 4} THEN m - 2 ELSE 0
    <3>1. CASE n \in {2, 3}
      <4>1. buff' \in Seq(Nat) /\ Len(buff') = Len(buff) + 1
        <5>1. buff' = Append(buff, c) /\ c \in Nat /\ buff \in Seq(Nat)
            BY <1>7, <1>8, <2>0, <3>1
        <5> QED BY <5>1
      <4>2. m = n + 1 /\ Len(buff) = n - 2
          BY <1>6, <2>0, <3>1
      <4> QED BY <3>1, <4>1, <4>2
    <3>2. CASE n = 4
      <4>1. buff' = <<>> /\ m = 5
          BY <1>6, <1>8, <3>2
      <4> QED BY <4>1
    <3>3. CASE n \in {0, 1, 5}
      <4>1. buff' = buff /\ Len(buff) = 0
          BY <1>8, <2>0, <3>3
      <4>2. m \notin {3, 4}
          BY <1>6, <3>3
      <4> QED BY <2>0, <4>1, <4>2
    <3> QED BY <1>5, <3>1, <3>2, <3>3
  <2> QED BY <1>1, <1>4, <1>6, <2>1 DEF InPlace
<1>10. Collected(a, i + 1)'
  <2> SUFFICES ASSUME m = i + 1, i + 1 \in {3, 4}
               PROVE  buff'[1] = a[1] /\ (i + 1 = 4 => buff'[2] = 0)
      BY <1>4 DEF Collected
  <2>1. n = i /\ n \in {2, 3}
      BY <1>3, <1>5, <1>6
  <2>2. buff' = Append(buff, c) /\ buff \in Seq(Nat)
      BY <1>5, <1>8, <2>1 DEF InPlace
  <2>3. CASE i = 2
    <3>1. Len(buff) = 0
        BY <1>5, <2>1, <2>3 DEF InPlace
    <3> QED BY <1>7, <2>2, <2>3, <3>1
  <2>4. CASE i = 3
    <3>1. Len(buff) = 1 /\ buff[1] = a[1]
        BY <1>5, <2>1, <2>4 DEF InPlace, Collected
    <3>2. buff'[1] = buff[1] /\ buff'[2] = c
      <4>1. 1 \in 1 .. Len(buff) /\ 2 = Len(buff) + 1
          BY <3>1
      <4> QED BY <1>7, <2>2, <4>1
    <3> QED BY <1>7, <2>4, <3>1, <3>2
  <2> QED BY <2>1, <2>3, <2>4
<1>11. /\ OwedNow(a, i) \in {0, 1} /\ OwedNext(b, more) \in {0, 1} /\ Len(pending) \in Nat
       /\ Doomed(n, i) \in Nat /\ Doomed(m, i + 1) \in Nat
       /\ OwedNow(a, i + 1) = IF i = 4 THEN 0 ELSE OwedNow(a, i)
  <2>1. OwedNow(a, i + 1) = IF i = 4 THEN 0 ELSE OwedNow(a, i)
      BY <1>3 DEF OwedNow, One
  <2> QED BY <1>1, <1>3, <1>5, <1>6, <2>1, Ones
<1>12. /\ missed' \in Nat /\ pending' \in Seq(Sent) /\ ~phantom' /\ Paid(a, i + 1, b, more)'
  <2>1. CASE UNCHANGED <<pending, missed, phantom>> /\ (n = 4 /\ i = 4 => OwedNow(a, i) = 0)
    <3>1. OwedNow(a, i) - OwedNow(a, i + 1) <= One(i = 4 /\ n # 4)
        BY <1>11, <2>1 DEF One
    <3>2. missed + Len(pending) - OwedNow(a, i) - OwedNext(b, more) + Doomed(n, i) <= 2 * lost
        BY <1>5 DEF Paid
    <3>3. missed + Len(pending) - OwedNow(a, i + 1) - OwedNext(b, more) + Doomed(m, i + 1) <= 2 * lost
      <4> DEFINE p == missed          q == Len(pending)      x == OwedNext(b, more)
                 o == OwedNow(a, i)   d == Doomed(n, i)      y == One(i = 4 /\ n # 4)
                 v == OwedNow(a, i + 1)   e == Doomed(m, i + 1)
      <4>1. p + q - o - x + d <= 2 * lost
          BY <3>2
      <4>2. o \in {0, 1} /\ v \in {0, 1} /\ d \in Nat /\ e \in Nat
          BY <1>11
      <4>3. y \in {0, 1} /\ o - v <= y /\ e + y <= d
          BY <1>6, <3>1 DEF One
      <4>4. p \in Nat /\ q \in Nat /\ lost \in Nat /\ x \in {0, 1}
          BY <1>1, <1>11
      <4> HIDE DEF p, q, x, o, d, y, v, e
      <4>5. p + q - v - x + e <= 2 * lost
          BY <4>1, <4>2, <4>3, <4>4
      <4> QED BY <4>5 DEF p, q, x, v, e
    <3> QED BY <1>1, <1>4, <1>5, <1>11, <2>1, <3>3 DEF Paid
  <2>2. CASE n = 4 /\ i = 4
    <3>1. buff[1] = a[1] /\ buff[2] = 0 /\ 256 * buff[2] + c = a[2]
        BY <1>5, <1>7, <2>2 DEF Collected
    <3>2. RunCmd(a[1], a[2]) /\ <<a[1], a[2]>> = a
        BY <1>8, <2>2, <3>1 DEF Sent
    <3>3. CASE ~Knows(a)
        BY <2>1, <3>2, <3>3 DEF RunCmd, Knows, OwedNow, One
    <3>4. CASE Knows(a)
      <4> DEFINE k == OwedNext(b, more)
      <4>1. Account(a) /\ OwedNow(a, i) = 1
          BY <2>2, <3>2, <3>4 DEF RunCmd, Knows, OwedNow, One
      <4>2. k \in Nat /\ k < Len(pending) /\ pending[Len(pending) - k] = a
          BY <1>5, <1>11, <4>1 DEF Paid
      <4>3. /\ phantom' = phantom /\ pending' \in Seq(Sent) /\ missed' \in Nat
            /\ missed' + Len(pending') = missed + Len(pending) - 1
            /\ Len(pending') >= k
            /\ \A j \in Nat : j < k => pending'[Len(pending') - j] = pending[Len(pending) - j]
          BY <1>1, <4>1, <4>2, Accounted
      <4>4. OwedNow(a, i + 1) = 0 /\ Doomed(m, i + 1) <= Doomed(n, i)
        <5>1. One(i = 4 /\ n # 4) \in Nat
            BY DEF One
        <5> QED BY <1>6, <1>11, <2>2, <5>1
      <4>5. k = 1 => Len(pending') > 0 /\ pending'[Len(pending')] = b
        <5> SUFFICES ASSUME k = 1 PROVE Len(pending') > 0 /\ pending'[Len(pending')] = b
            OBVIOUS
        <5>1. pending[Len(pending)] = b
            BY <1>5 DEF Paid
        <5>2. pending'[Len(pending') - 0] = pending[Len(pending) - 0] /\ Len(pending') \in Nat
            BY <4>3
        <5> QED BY <1>11, <4>3, <5>1, <5>2
      <4>6. missed' + Len(pending') - 0 - k + Doomed(m, i + 1) <= 2 * lost
        <5> DEFINE p == missed    q == Len(pending)    d == Doomed(n, i)
                   r == missed'   t == Len(pending')   e == Doomed(m, i + 1)
                   o == OwedNow(a, i)
        <5>1. p + q - o - k + d <= 2 * lost
            BY <1>5 DEF Paid
        <5>2. r + t = p + q - 1
            BY <4>3
        <5>3. p \in Nat /\ q \in Nat /\ lost \in Nat
            BY <1>1, <1>11
        <5>4. r \in Nat /\ t \in Nat
          <6>1. pending' \in Seq(Sent)
              BY <4>3
          <6>2. Len(pending') \in Nat
              BY <6>1
          <6> QED BY <4>3, <6>2
        <5>5. d \in Nat /\ e \in Nat /\ e <= d
            BY <1>11, <4>4
        <5>6. o = 1 /\ k \in {0, 1}
            BY <1>11, <4>1
        <5> HIDE DEF p, q, d, r, t, e, o, k
        <5>7. r + t - 0 - k + e <= 2 * lost
            BY <5>1, <5>2, <5>3, <5>4, <5>5, <5>6
        <5> QED BY <5>7 DEF r, t, e
      <4> QED BY <1>1, <1>4, <4>3, <4>4, <4>5, <4>6 DEF Paid
    <3> QED BY <3>3, <3>4
  <2>3. CASE n = 4 /\ i # 4
    <3>1. buff[2] \in Nat
      <4>1. buff \in Seq(Nat) /\ Len(buff) = 2
          BY <1>5, <2>3 DEF InPlace
      <4>2. 2 \in 1 .. Len(buff)
          BY <4>1
      <4> QED BY <4>1, <4>2, ElementOfSeq
    <3>2. 256 * buff[2] + c >= 165
        BY <1>6, <1>7, <2>3, <3>1
    <3>3. ~Known(buff[1], 256 * buff[2] + c)
        BY <3>2 DEF Known
    <3> QED BY <1>8, <2>1, <2>3, <3>3 DEF RunCmd
  <2>4. CASE n # 4
      BY <1>8, <2>1, <2>4
  <2> QED BY <2>2, <2>3, <2>4
<1>13. Somewhere'
    BY <1>1, <1>2, <1>9, <1>10, <1>12, Advanced DEF At
<1> QED BY <1>1, <1>12, <1>13 DEF VoiceInv

LEMMA VoiceKept == VoiceInv /\ [Next]_vars => VoiceInv'
<1> SUFFICES ASSUME VoiceInv, [Next]_vars PROVE VoiceInv'
    OBVIOUS
<1>1. CASE UNCHANGED linkVars
    BY <1>1 DEF linkVars, VoiceInv, Somewhere, At, InPlace, Collected, Paid
<1>2. ASSUME NEW h \in Heard, Hear(h[1], h[2]) PROVE VoiceInv'
  <2>1. lost' = lost
      BY <1>2 DEF Hear
  <2> QED BY <1>2, <2>1, HearKept DEF VoiceInv
<1>3. CASE LoseByte
    BY <1>3, LoseByteKept
<1>4. CASE Byte
  <2>1. lost' = lost
      BY <1>4 DEF Byte
  <2> QED BY <1>4, <2>1, ByteKept DEF VoiceInv
<1>5. CASE OtherAsks
    BY <1>1, <1>5 DEF OtherAsks
<1> QED BY <1>1, <1>2, <1>3, <1>4, <1>5 DEF Next, vars

LEMMA VoiceAlways == Spec => []VoiceInv
  BY VoiceAtFirst, VoiceKept, PTL DEF Spec

(* Until a fourth byte is lost no command is run that was not sent, and    *)
(* none twice or out of order: for any commands, and whatever the sound    *)
(* player and its other callers do.                                        *)
THEOREM DamageRunsNothing == Spec => []NoPhantomCommand
<1>1. VoiceInv => NoPhantomCommand
    BY DEF VoiceInv, NoPhantomCommand
<1> QED BY <1>1, VoiceAlways, PTL

(* Until then, when all that was sent has arrived, there are no more       *)
(* commands without effect than two for each lost byte.                    *)
THEOREM LossIsBounded == Spec => []LossCostsTwo
<1>1. VoiceInv => LossCostsTwo
  <2> SUFFICES ASSUME VoiceInv, lost <= 3, wire = <<>>
               PROVE  missed + Len(pending) <= 2 * lost
      BY DEF LossCostsTwo
  <2>1. PICK a \in Sent, b \in Sent, i \in 0 .. 6, more \in {0, 6} : At(a, i, b, more)
      BY DEF VoiceInv, Somewhere
  <2>2. Len(wire) = (6 - i) + more /\ Len(wire) = 0
      BY <2>1 DEF At, OnWire
  <2>3. i = 6 /\ more = 0
      BY <2>2
  <2>4. OwedNow(a, i) = 0 /\ OwedNext(b, more) = 0 /\ Doomed(recvLen, i) \in Nat
      BY <2>3 DEF OwedNow, OwedNext, Doomed, One
  <2>5. missed + Len(pending) - 0 - 0 + Doomed(recvLen, i) <= 2 * lost
      BY <2>1, <2>4 DEF At, Paid
  <2>6. missed \in Nat /\ Len(pending) \in Nat /\ lost \in Nat
      BY DEF VoiceInv
  <2> QED BY <2>4, <2>5, <2>6
<1> QED BY <1>1, VoiceAlways, PTL
=============================================================================
